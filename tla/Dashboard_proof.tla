--------------------------- MODULE Dashboard_proof ---------------------------
(***************************************************************************)
(* Selection and boards of the dashboard, for any set of hosts and any     *)
(* number of polls that cross.                                             *)
(***************************************************************************)
EXTENDS Dashboard, CommonLemmas, TLAPS

Inv == TypeOK /\ SelectedKnown /\ LayoutsStayHome

USE DashboardAssumption DEF DashboardAssumption, NoHost, Seed, NoLayout

LEMMA Flags == TRUE \in BOOLEAN /\ FALSE \in BOOLEAN
  BY Zenon

(* A host is chosen from among the tabs that there are.                    *)
LEMMA FirstTabIn ==
  ASSUME NEW S, S \subseteq Hosts, S # {}
  PROVE  FirstTab(S) \in S
<1>1. S \subseteq Nat
  OBVIOUS
<1>2. \E h \in S : \A g \in S : h <= g
  BY <1>1, LeastNatural, Zenon
<1> QED
  BY <1>2, Zenon DEF FirstTab

LEMMA NextTabIn ==
  ASSUME NEW S, S \subseteq Hosts, S # {}, NEW h
  PROVE  NextTab(S, h) \in S
<1> DEFINE later == {g \in S : g > h}
<1>1. CASE later = {}
  BY <1>1, FirstTabIn DEF NextTab
<1>2. CASE later # {}
  <2>1. FirstTab(later) \in later
    BY <1>2, FirstTabIn
  <2> QED
    BY <1>2, <2>1 DEF NextTab
<1> QED
  BY <1>1, <1>2

USE DEF Stay, selectHost, applyHostLayout

LEMMA InitInv == Init => Inv
<1> SUFFICES ASSUME Init PROVE Inv
  OBVIOUS
<1>1. refreshes \in Seq([Hosts -> {"absent", "fresh", "stale"}]) /\ Len(refreshes) = 0
  BY DEF Init
<1>2. deleting \subseteq Removal
  BY DEF Init
<1>3. loaded \in BOOLEAN
  BY DEF Init
<1>4. TypeOK
  BY <1>1, <1>2, <1>3 DEF Init, TypeOK
<1> QED
  BY <1>4 DEF Init, Inv, SelectedKnown, LayoutsStayHome

(* The rest of the types, which a step of the page leaves alone.           *)
Transit ==
    /\ heard \in [Hosts -> {"absent", "fresh", "stale"}] /\ events \subseteq Hosts
    /\ refreshes \in Seq([Hosts -> {"absent", "fresh", "stale"}])
    /\ Len(refreshes) <= MaxRefreshes
    /\ deleting \subseteq Removal

PageOK ==
    /\ hosts \subseteq Hosts /\ online \subseteq hosts
    /\ selected \in Hosts \cup {NoHost} /\ loaded \in BOOLEAN
    /\ layoutsByHost \in [Hosts -> Hosts \cup {Seed, NoLayout}]
    /\ layout \in Hosts \cup {Seed}
    /\ SelectedKnown /\ LayoutsStayHome

LEMMA Parts == (Inv <=> Transit /\ PageOK) /\ (Inv' <=> Transit' /\ PageOK')
BY DEF Inv, Transit, PageOK, TypeOK

LEMMA PageKept ==
  ASSUME PageOK, UNCHANGED page
  PROVE  PageOK'
BY DEF PageOK, page, SelectedKnown, LayoutsStayHome

(* The shape of what comes in: the list is replaced, some layouts are      *)
(* forgotten, and the selection is kept or falls to the first of the list. *)
LEMMA ListReplaced ==
  ASSUME PageOK, NEW S, S \subseteq Hosts, hosts' = S, online' \subseteq S,
         NEW gone, forgetHostLocal(gone), UNCHANGED loaded,
         \/ selected \in S /\ Stay
         \/ selected \notin S /\ S = {} /\ selected' = NoHost /\ layout' \in {layout, Seed}
         \/ selected \notin S /\ S # {} /\ selectHost(FirstTab(S), layoutsByHost')
         \/ selected = NoHost /\ Stay
  PROVE  PageOK'
<1>1. /\ layoutsByHost' \in [Hosts -> Hosts \cup {Seed, NoLayout}]
      /\ \A h \in Hosts : layoutsByHost'[h] \in {h, NoLayout}
  BY DEF forgetHostLocal, PageOK, LayoutsStayHome
<1>2. CASE selected \notin S /\ S # {} /\ selectHost(FirstTab(S), layoutsByHost')
  <2>1. FirstTab(S) \in S /\ FirstTab(S) \in Hosts
    BY <1>2, FirstTabIn
  <2> HIDE DEF applyHostLayout
  <2>2. selected' = FirstTab(S) /\ applyHostLayout(selected', layoutsByHost')
    BY <1>2
  <2>3. layout' \in {selected', Seed} /\ selected' \in S
    BY <1>1, <2>1, <2>2 DEF applyHostLayout
  <2> QED
    BY <1>1, <2>1, <2>2, <2>3 DEF PageOK, SelectedKnown, LayoutsStayHome
<1>3. CASE UNCHANGED <<selected, layout>> /\ (selected \in S \/ selected = NoHost)
  BY <1>1, <1>3 DEF PageOK, SelectedKnown, LayoutsStayHome
<1>4. CASE selected' = NoHost /\ layout' \in {layout, Seed}
  BY <1>1, <1>4 DEF PageOK, SelectedKnown, LayoutsStayHome
<1> QED
  BY <1>2, <1>3, <1>4

LEMMA TapsInv == Inv /\ Taps => Inv'
<1> SUFFICES ASSUME Inv, Taps PROVE Inv'
  OBVIOUS
<1>1. \E h : SelectHost(h)
  BY DEF Taps, Cycle
<1>2. PICK h : SelectHost(h)
  BY <1>1
<1>3. Transit'
  BY <1>2, Parts DEF SelectHost, hub, Transit
<1>4. PageOK'
  BY <1>2, Parts DEF SelectHost, PageOK, SelectedKnown, LayoutsStayHome
<1> QED
  BY <1>3, <1>4, Parts

LEMMA EditsInv == Inv /\ Edits => Inv'
<1> SUFFICES ASSUME Inv, Edits PROVE Inv'
  OBVIOUS
<1>1. CASE saveLayout
  <2>1. Transit'
    BY <1>1, Parts DEF saveLayout, hub, Transit
  <2>2. PageOK'
    BY <1>1, Parts DEF saveLayout, PageOK, SelectedKnown, LayoutsStayHome
  <2> QED
    BY <2>1, <2>2, Parts
<1>2. ASSUME NEW stored \in SUBSET Hosts, loadServerConfig(stored) PROVE Inv'
  <2>1. Transit'
    BY <1>2, Parts DEF loadServerConfig, hub, Transit
  <2>2. /\ layoutsByHost' \in [Hosts -> Hosts \cup {Seed, NoLayout}]
        /\ \A h \in Hosts : layoutsByHost'[h] \in {h, NoLayout}
    BY <1>2 DEF loadServerConfig
  <2>3. PageOK'
    BY <1>2, <2>2, Parts DEF loadServerConfig, PageOK, SelectedKnown, LayoutsStayHome
  <2> QED
    BY <2>1, <2>3, Parts
<1> QED
  BY <1>1, <1>2 DEF Edits

LEMMA TouchInv == Inv /\ (\E h \in Hosts : touchHost(h)) => Inv'
<1> SUFFICES ASSUME Inv, NEW h \in Hosts, touchHost(h) PROVE Inv'
  OBVIOUS
<1>1. Transit'
  BY Parts DEF touchHost, Transit
<1>2. PageOK'
  BY Parts DEF touchHost, PageOK, SelectedKnown, LayoutsStayHome
<1> QED
  BY <1>1, <1>2, Parts

Answers == [Hosts -> {"absent", "fresh", "stale"}]

LEMMA Dropped ==
  ASSUME NEW s \in Seq(Answers), NEW i \in DOMAIN s
  PROVE  RemoveAt(s, i) \in Seq(Answers) /\ Len(RemoveAt(s, i)) <= Len(s)
BY DEF RemoveAt, Answers

LEMMA RefreshInv ==
  ASSUME Inv, NEW i \in DOMAIN refreshes, refreshHosts(i)
  PROVE  Inv'
<1> DEFINE known == {h \in Hosts : refreshes[i][h] # "absent"}
<1>1. Transit'
  <2>1. refreshes' = RemoveAt(refreshes, i)
    BY DEF refreshHosts
  <2>2. refreshes' \in Seq(Answers) /\ Len(refreshes') <= Len(refreshes)
    BY <2>1, Dropped, Parts DEF Transit, Answers
  <2> QED
    BY <2>2, Parts DEF refreshHosts, hub, Transit, Answers
<1>2. /\ hosts' = known /\ online' \subseteq known
      /\ forgetHostLocal(hosts \ known) /\ UNCHANGED loaded
      /\ \/ selected \in known /\ Stay
         \/ selected \notin known /\ known = {} /\ selected' = NoHost /\ layout' \in {layout, Seed}
         \/ selected \notin known /\ known # {} /\ selectHost(FirstTab(known), layoutsByHost')
  BY DEF refreshHosts
<1> HIDE DEF known
<1>3. known \subseteq Hosts
  BY DEF known
<1>4. PageOK'
  BY <1>2, <1>3, ListReplaced, Parts
<1> QED
  BY <1>1, <1>4, Parts

LEMMA DeletesInv == Inv /\ Deletes => Inv'
<1> SUFFICES ASSUME Inv, Deletes PROVE Inv'
  OBVIOUS
<1>1. ASSUME NEW d \in deleting, HubDeletes(d) PROVE Inv'
  <2>1. d \in Removal /\ deleting \subseteq Removal
    BY Parts DEF Transit
  <2>2. [host |-> d.host, done |-> TRUE] \in Removal
    BY <2>1, Flags DEF Removal
  <2>3. Transit'
    BY <1>1, <2>1, <2>2, Parts DEF HubDeletes, Transit
  <2>4. PageOK'
    BY <1>1, PageKept, Parts DEF HubDeletes
  <2> QED
    BY <2>3, <2>4, Parts
<1>2. ASSUME NEW d \in deleting, DeleteFailed(d) PROVE Inv'
  <2>1. Transit'
    BY <1>2, Parts DEF DeleteFailed, hub, Transit
  <2>2. PageOK'
    BY <1>2, PageKept, Parts DEF DeleteFailed
  <2> QED
    BY <2>1, <2>2, Parts
<1>3. ASSUME NEW h \in Hosts, deleteHost(h) PROVE Inv'
  <2>1. [host |-> h, done |-> FALSE] \in Removal
    BY Flags DEF Removal
  <2>2. Transit'
    BY <1>3, <2>1, Parts DEF deleteHost, hub, Transit
  <2>3. PageOK'
    BY <1>3, PageKept, Parts DEF deleteHost
  <2> QED
    BY <2>2, <2>3, Parts
<1>4. ASSUME NEW d \in deleting, HostDeleted(d) PROVE Inv'
  <2> DEFINE h == d.host
             left == hosts \ {h}
  <2>1. Transit'
    BY <1>4, Parts DEF HostDeleted, hub, Transit
  <2>2. h \in Hosts
    BY <1>4, Parts DEF Transit, Removal
  <2>3. /\ hosts' = left /\ online' \subseteq left /\ left \subseteq Hosts
        /\ forgetHostLocal({h}) /\ UNCHANGED loaded
    BY <1>4, Parts DEF HostDeleted, PageOK
  <2>4. \/ selected \in left /\ Stay
        \/ selected \notin left /\ left = {} /\ selected' = NoHost /\ layout' \in {layout, Seed}
        \/ selected \notin left /\ left # {} /\ selectHost(FirstTab(left), layoutsByHost')
        \/ selected = NoHost /\ Stay
    <3>1. CASE selected = h
      BY <1>4, <3>1 DEF HostDeleted
    <3>2. CASE selected # h
      BY <1>4, <3>2, Parts DEF HostDeleted, PageOK, SelectedKnown
    <3> QED
      BY <3>1, <3>2
  <2> HIDE DEF left, h
  <2>5. PageOK'
    BY <2>3, <2>4, ListReplaced, Parts
  <2> QED
    BY <2>1, <2>5, Parts
<1> QED
  BY <1>1, <1>2, <1>3, <1>4 DEF Deletes

LEMMA HubInv ==
  ASSUME Inv, Hub \/ AskHosts \/ \E i \in DOMAIN refreshes : LoseRefresh(i)
  PROVE  Inv'
<1>1. PageOK'
  BY PageKept, Parts DEF Hub, StreamBreaks, Push, Quiet, HubForgets, AskHosts, LoseRefresh
<1>2. CASE AskHosts
  <2>1. Transit'
    BY <1>2, Parts DEF AskHosts, hub, Transit
  <2> QED
    BY <1>1, <2>1, Parts
<1>3. ASSUME NEW i \in DOMAIN refreshes, LoseRefresh(i) PROVE Inv'
  <2>1. refreshes' \in Seq(Answers) /\ Len(refreshes') <= Len(refreshes)
    BY <1>3, Dropped, Parts DEF LoseRefresh, Transit, Answers
  <2>2. Transit'
    BY <1>3, <2>1, Parts DEF LoseRefresh, hub, Transit, Answers
  <2> QED
    BY <1>1, <2>2, Parts
<1>4. CASE StreamBreaks \/ \E h \in Hosts : Push(h) \/ HubForgets(h)
  <2>1. Transit'
    BY <1>4, Parts DEF StreamBreaks, Push, HubForgets, Transit
  <2> QED
    BY <1>1, <2>1, Parts
<1>5. ASSUME NEW h \in Hosts, Quiet(h) PROVE Inv'
  <2> DEFINE old(answer) == [answer EXCEPT ![h] = IF @ = "fresh" THEN "stale" ELSE @]
  <2>1. \A a \in Answers : old(a) \in Answers
    BY DEF Answers
  <2>2. /\ heard' = old(heard)
        /\ refreshes' = [i \in DOMAIN refreshes |-> old(refreshes[i])]
        /\ UNCHANGED <<events, deleting>>
    BY <1>5 DEF Quiet
  <2> HIDE DEF old
  <2>3. refreshes \in Seq(Answers) /\ heard \in Answers
    BY Parts DEF Transit, Answers
  <2>4. refreshes' \in Seq(Answers) /\ Len(refreshes') = Len(refreshes)
    BY <2>1, <2>2, <2>3
  <2>5. Transit'
    BY <2>1, <2>2, <2>3, <2>4, Parts DEF Transit, Answers
  <2> QED
    BY <1>1, <2>5, Parts
<1> QED
  BY <1>2, <1>3, <1>4, <1>5 DEF Hub

LEMMA StepInv == Inv /\ [Next]_vars => Inv'
<1> SUFFICES ASSUME Inv, [Next]_vars PROVE Inv'
  OBVIOUS
<1>1. CASE UNCHANGED vars
  <2>1. Transit'
    BY <1>1, Parts DEF vars, hub, Transit
  <2>2. PageOK'
    BY <1>1, PageKept, Parts DEF vars
  <2> QED
    BY <2>1, <2>2, Parts
<1> QED
  BY <1>1, TapsInv, EditsInv, TouchInv, RefreshInv, DeletesInv, HubInv DEF Next, RefreshArrives

LEMMA Invariance == Spec => []Inv
BY InitInv, StepInv, PTL DEF Spec

(* The types hold for any number of hosts.                                 *)
THEOREM DashboardTypes == Spec => []TypeOK
BY Invariance, PTL DEF Inv

(* The selected host always has a tab.                                     *)
THEOREM DashboardSelection == Spec => []SelectedKnown
BY Invariance, PTL DEF Inv

(* No board is shown or saved for a host that is not its own.              *)
THEOREM DashboardLayouts == Spec => []LayoutsStayHome
BY Invariance, PTL DEF Inv

LEMMA KeptStep ==
  ASSUME Inv, [Next]_vars
  PROVE  [selected' # selected => selected \notin hosts' \/ Taps]_vars
<1> SUFFICES ASSUME Next, selected' # selected, ~Taps PROVE selected \notin hosts'
  OBVIOUS
<1>1. CASE Edits
  BY <1>1 DEF Edits, saveLayout, loadServerConfig, selectHost, Stay
<1>2. ASSUME NEW d \in deleting, HubDeletes(d) \/ DeleteFailed(d) PROVE selected \notin hosts'
  BY <1>2 DEF HubDeletes, DeleteFailed, page
<1>3. ASSUME NEW d \in deleting, HostDeleted(d) PROVE selected \notin hosts'
  <2>1. hosts' = hosts \ {d.host}
    BY <1>3 DEF HostDeleted
  <2>2. selected # d.host => selected' = selected
    BY <1>3 DEF HostDeleted, Stay
  <2> QED
    BY <2>1, <2>2
<1>4. CASE Hub \/ AskHosts \/ \E i \in DOMAIN refreshes : LoseRefresh(i)
  BY <1>4 DEF Hub, StreamBreaks, Push, Quiet, HubForgets, AskHosts, LoseRefresh, page
<1>5. ASSUME NEW i \in DOMAIN refreshes, refreshHosts(i) PROVE selected \notin hosts'
  BY <1>5 DEF refreshHosts, Stay
<1>6. ASSUME NEW h \in Hosts, touchHost(h) PROVE selected \notin hosts'
  <2>1. selected = NoHost
    BY <1>6 DEF touchHost, Stay
  <2>2. hosts' = hosts \cup {h} /\ hosts \subseteq Hosts
    BY <1>6 DEF touchHost, Inv, TypeOK
  <2> QED
    BY <2>1, <2>2, DashboardAssumption DEF NoHost
<1>7. ASSUME NEW h \in Hosts, deleteHost(h) PROVE selected \notin hosts'
  BY <1>7 DEF deleteHost, page
<1> QED
  BY <1>1, <1>2, <1>3, <1>4, <1>5, <1>6, <1>7 DEF Next, RefreshArrives, Deletes

(* Only the user and the cycle take the selection from a host that stays.  *)
THEOREM DashboardKeeps == Spec => SelectionKept
BY Invariance, KeptStep, PTL DEF Spec, SelectionKept

=============================================================================

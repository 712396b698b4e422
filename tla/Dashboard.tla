------------------------------ MODULE Dashboard ------------------------------
(***************************************************************************)
(* The dashboard's hosts: the list that it keeps from two sources, the     *)
(* stream and a poll, the host that is selected, and the board of that     *)
(* host.  The hub is external: the hosts it lists, and whether it has      *)
(* heard of them within the last ten seconds.                              *)
(*                                                                         *)
(* A board is known by its owner, the host whose edits it holds, or Seed   *)
(* when it has none.  Hosts are numbered in the order of their tabs.       *)
(***************************************************************************)
EXTENDS Integers, Sequences, FiniteSets, SequencesExt

CONSTANTS
    Hosts,        \* hosts, as numbers
    MaxRefreshes, \* bound of the polls in flight
    MaxDeletes    \* bound of the removals in flight

NoHost == 0
Seed == 0

ASSUME DashboardAssumption ==
    Hosts \subseteq Nat \ {0} /\ MaxRefreshes \in Nat \ {0} /\ MaxDeletes \in Nat \ {0}

VARIABLES
    heard,      \* what the hub says of each host: "absent", "fresh" or "stale"
    events,     \* hosts with a snapshot on its way in the stream
    refreshes,  \* answers to GET /api/hosts that are on their way
    deleting,   \* removals in flight: the host and whether the hub has done it
    hosts,      \* the keys of state.hosts
    online,     \* those of them that are shown as online
    selected,   \* state.selected
    loaded,     \* the server's configuration has been read
    layoutsByHost, \* hosts with a layout of their own, by its owner
    layout      \* the board on the screen

hub  == <<heard, events>>
page == <<hosts, online, selected, loaded, layoutsByHost, layout>>
vars == <<hub, refreshes, deleting, page>>

Removal  == [host : Hosts, done : BOOLEAN]
NoLayout == -1

listed == {h \in Hosts : heard[h] # "absent"}

FirstTab(S) == CHOOSE h \in S : \A g \in S : h <= g

(* The tab after h, in the order of the tabs and round.                    *)
NextTab(S, h) == LET later == {g \in S : g > h} IN
    IF later = {} THEN FirstTab(S) ELSE FirstTab(later)

---------------------------------------------------------------------------
(* Mutant of applyHostLayout: a host without a layout of its own is shown  *)
(* the board that is on the screen.                                        *)
KeepBoard(h, layouts) ==
    layout' = IF layouts[h] = NoLayout THEN layout ELSE layouts[h]

(* applyHostLayout, with the layouts that are left when it is called.      *)
applyHostLayout(h, layouts) ==
    layout' = IF layouts[h] = NoLayout THEN Seed ELSE layouts[h]

selectHost(h, layouts) == selected' = h /\ applyHostLayout(h, layouts)

Stay == UNCHANGED <<selected, layout>>

(* The user taps a tab, or the automatic cycle goes on to the next.        *)
SelectHost(h) ==
    /\ h \in hosts
    /\ selectHost(h, layoutsByHost)
    /\ UNCHANGED <<hub, refreshes, deleting, hosts, online, loaded, layoutsByHost>>

Cycle == Cardinality(hosts) >= 2 /\ SelectHost(NextTab(hosts, selected))

(* A box is added, moved or removed, or a service is no longer monitored:  *)
(* the board becomes the selected host's own and is saved under it.        *)
saveLayout ==
    /\ layout' = IF selected # NoHost /\ layout = Seed THEN selected ELSE layout
    /\ layoutsByHost' = IF selected = NoHost THEN layoutsByHost
                        ELSE [layoutsByHost EXCEPT ![selected] = layout']
    /\ UNCHANGED <<hub, refreshes, deleting, hosts, online, selected, loaded>>

(* What the hub has stored replaces what was edited before it came.        *)
loadServerConfig(stored) ==
    /\ ~loaded
    /\ loaded' = TRUE
    /\ layoutsByHost' = [h \in Hosts |-> IF h \in stored THEN h ELSE NoLayout]
    /\ IF selected = NoHost THEN Stay ELSE selectHost(selected, layoutsByHost')
    /\ UNCHANGED <<hub, refreshes, deleting, hosts, online>>

---------------------------------------------------------------------------
(* Mutant of touchHost: the host that reports is selected.                 *)
FollowHost(h) ==
    /\ h \in events
    /\ events' = events \ {h}
    /\ hosts' = hosts \cup {h} /\ online' = online \cup {h}
    /\ selectHost(h, layoutsByHost)
    /\ UNCHANGED <<heard, refreshes, deleting, loaded, layoutsByHost>>

(* A snapshot comes down the stream; the first host is selected.           *)
touchHost(h) ==
    /\ h \in events
    /\ events' = events \ {h}
    /\ hosts' = hosts \cup {h} /\ online' = online \cup {h}
    /\ IF selected = NoHost THEN selectHost(h, layoutsByHost) ELSE Stay
    /\ UNCHANGED <<heard, refreshes, deleting, loaded, layoutsByHost>>

(* The poll: the hub answers with what it knows, and the answer may be     *)
(* late, overtaken by another, or lost.                                    *)
AskHosts ==
    /\ Len(refreshes) < MaxRefreshes
    /\ refreshes' = Append(refreshes, heard)
    /\ UNCHANGED <<hub, deleting, page>>

LoseRefresh(i) ==
    /\ refreshes' = RemoveAt(refreshes, i)
    /\ UNCHANGED <<hub, deleting, page>>

forgetHostLocal(gone) ==
    layoutsByHost' = [h \in Hosts |-> IF h \in gone THEN NoLayout ELSE layoutsByHost[h]]

(* Mutants of refreshHosts: the answer only adds hosts; only the stream    *)
(* says which of them are online.                                          *)
MergeHosts(i) ==
    LET known == {h \in Hosts : refreshes[i][h] # "absent"} IN
        /\ refreshes' = RemoveAt(refreshes, i)
        /\ hosts' = hosts \cup known
        /\ online' = {h \in Hosts : refreshes[i][h] = "fresh"}
        /\ IF selected # NoHost \/ known = {} THEN Stay
           ELSE selectHost(FirstTab(known), layoutsByHost)
        /\ UNCHANGED <<hub, deleting, loaded, layoutsByHost>>

KeepOnline(i) ==
    LET known == {h \in Hosts : refreshes[i][h] # "absent"} IN
        /\ refreshes' = RemoveAt(refreshes, i)
        /\ hosts' = known
        /\ online' = online \cap known
        /\ forgetHostLocal(hosts \ known)
        /\ IF selected \in known THEN Stay
           ELSE IF known = {} THEN selected' = NoHost /\ UNCHANGED layout
           ELSE selectHost(FirstTab(known), layoutsByHost')
        /\ UNCHANGED <<hub, deleting, loaded>>

(* refreshHosts: the answer replaces the list, whatever came meanwhile.    *)
refreshHosts(i) ==
    LET answer == refreshes[i]
        known == {h \in Hosts : answer[h] # "absent"}
    IN  /\ refreshes' = RemoveAt(refreshes, i)
        /\ hosts' = known
        /\ online' = {h \in Hosts : answer[h] = "fresh"}
        /\ forgetHostLocal(hosts \ known)
        /\ IF selected \in known THEN Stay
           ELSE IF known = {} THEN selected' = NoHost /\ UNCHANGED layout
           ELSE selectHost(FirstTab(known), layoutsByHost')
        /\ UNCHANGED <<hub, deleting, loaded>>

---------------------------------------------------------------------------
(* The user removes a host: the hub does it, or not, and then the page.    *)
(* The popup closes at once, and another host, or the same, may follow.    *)
deleteHost(h) ==
    /\ h \in hosts
    /\ Cardinality(deleting) < MaxDeletes
    /\ deleting' = deleting \cup {[host |-> h, done |-> FALSE]}
    /\ UNCHANGED <<hub, refreshes, page>>

HubDeletes(d) ==
    /\ ~d.done
    /\ heard' = [heard EXCEPT ![d.host] = "absent"]
    /\ deleting' = (deleting \ {d}) \cup {[host |-> d.host, done |-> TRUE]}
    /\ UNCHANGED <<events, refreshes, page>>

DeleteFailed(d) ==
    /\ deleting' = deleting \ {d}
    /\ UNCHANGED <<hub, refreshes, page>>

(* Mutant of HostDeleted: it stays selected.                               *)
DeletedSelected(d) ==
    /\ d.done
    /\ deleting' = deleting \ {d}
    /\ hosts' = hosts \ {d.host} /\ online' = online \ {d.host}
    /\ forgetHostLocal({d.host})
    /\ Stay
    /\ UNCHANGED <<hub, refreshes, loaded>>

HostDeleted(d) ==
    LET h == d.host
        left == hosts \ {h}
    IN  /\ d.done
        /\ deleting' = deleting \ {d}
        /\ hosts' = left /\ online' = online \ {h}
        /\ forgetHostLocal({h})
        /\ IF selected # h THEN Stay
           ELSE IF left = {} THEN selected' = NoHost /\ layout' = Seed
           ELSE selectHost(FirstTab(left), layoutsByHost')
        /\ UNCHANGED <<hub, refreshes, loaded>>

---------------------------------------------------------------------------
(* The hub: an agent pushes, ten seconds pass without one, another browser *)
(* removes a host, a stream breaks off with what it holds.                 *)
Push(h) ==
    /\ heard' = [heard EXCEPT ![h] = "fresh"]
    /\ events' = events \cup {h}
    /\ UNCHANGED <<refreshes, deleting, page>>

(* An answer under way grows old with what the hub knows.                  *)
Quiet(h) ==
    LET old(answer) == [answer EXCEPT ![h] = IF @ = "fresh" THEN "stale" ELSE @] IN
        /\ heard[h] = "fresh"
        /\ heard' = old(heard)
        /\ refreshes' = [i \in DOMAIN refreshes |-> old(refreshes[i])]
        /\ UNCHANGED <<events, deleting, page>>

HubForgets(h) ==
    /\ heard' = [heard EXCEPT ![h] = "absent"]
    /\ UNCHANGED <<events, refreshes, deleting, page>>

StreamBreaks ==
    /\ events' = {}
    /\ UNCHANGED <<heard, refreshes, deleting, page>>

---------------------------------------------------------------------------
Init ==
    /\ heard \in [Hosts -> {"absent", "fresh", "stale"}]
    /\ events = {} /\ refreshes = <<>> /\ deleting = {}
    /\ hosts = {} /\ online = {} /\ selected = NoHost /\ loaded = FALSE
    /\ layoutsByHost = [h \in Hosts |-> NoLayout] /\ layout = Seed

Taps == Cycle \/ \E h \in Hosts : SelectHost(h)

Edits == saveLayout \/ \E stored \in SUBSET Hosts : loadServerConfig(stored)

RefreshArrives == \E i \in DOMAIN refreshes : refreshHosts(i)

Deletes ==
    \/ \E h \in Hosts : deleteHost(h)
    \/ \E d \in deleting : HubDeletes(d) \/ DeleteFailed(d) \/ HostDeleted(d)

Hub == StreamBreaks \/ \E h \in Hosts : Push(h) \/ Quiet(h) \/ HubForgets(h)

Next ==
    \/ Taps \/ Edits \/ Deletes \/ Hub \/ AskHosts \/ RefreshArrives
    \/ \E h \in Hosts : touchHost(h)
    \/ \E i \in DOMAIN refreshes : LoseRefresh(i)

(* The page polls every five seconds, and not every answer is lost.        *)
Spec == Init /\ [][Next]_vars /\ WF_vars(AskHosts) /\ SF_vars(RefreshArrives)

---------------------------------------------------------------------------
(* The variables have their types.                                         *)
TypeOK ==
    /\ heard \in [Hosts -> {"absent", "fresh", "stale"}] /\ events \subseteq Hosts
    /\ refreshes \in Seq([Hosts -> {"absent", "fresh", "stale"}])
    /\ Len(refreshes) <= MaxRefreshes
    /\ deleting \subseteq Removal
    /\ hosts \subseteq Hosts /\ online \subseteq hosts
    /\ selected \in Hosts \cup {NoHost} /\ loaded \in BOOLEAN
    /\ layoutsByHost \in [Hosts -> Hosts \cup {Seed, NoLayout}]
    /\ layout \in Hosts \cup {Seed}

(* The selected host is one of the tabs, however polls, stream and         *)
(* removals cross.                                                         *)
SelectedKnown == selected # NoHost => selected \in hosts

(* A board is shown and saved only for its own host: what was arranged for *)
(* one host is never stored under another.                                 *)
LayoutsStayHome ==
    /\ selected # NoHost => layout \in {selected, Seed}
    /\ \A h \in Hosts : layoutsByHost[h] \in {h, NoLayout}

(* Nothing that comes in takes the selection away from a host that is      *)
(* still listed: only the user and the cycle change it.                    *)
SelectionKept ==
    [][selected' # selected => selected \notin hosts' \/ Taps]_vars

(* The tabs come to be the hosts that the hub lists, with one selected,    *)
(* once that list stays the same.                                          *)
TabsCatchUp ==
    \A S \in SUBSET Hosts :
        <>[](listed = S) => <>[](hosts = S /\ (S = {} \/ selected \in S))

(* A host that falls silent is shown as offline in the end.                *)
SilentShown ==
    \A h \in Hosts : <>[](heard[h] = "stale") => <>[](h \notin online)
=============================================================================

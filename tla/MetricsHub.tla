----------------------------- MODULE MetricsHub -----------------------------
(***************************************************************************)
(* The live core of the michka hub: LiveBroadcaster.Publish, the SQLite    *)
(* MetricsStore, the SSE stream of the browsers, host removal and pruning. *)
(*                                                                         *)
(* Publish takes no lock: it touches four concurrent dictionaries, the     *)
(* store (which has a lock of its own) and the subscribers' channels, one  *)
(* after the other, while other handlers do the same.  Every access to one *)
(* of these is an action of its own here.                                  *)
(*                                                                         *)
(* A dictionary keyed by host is a set of records with a "host" field, one *)
(* record per host; a snapshot is its host, its timestamp and the version  *)
(* of the service catalog that its service status was derived from.        *)
(***************************************************************************)
EXTENDS Integers, Sequences, FiniteSets

CONSTANTS
    Hosts,           \* the monitored machines
    HubHost,         \* the hub's own machine: its snapshots carry full service status
    Watched,         \* hosts with monitored services (ServerConfig.ServicesForHost)
    Publishers,      \* threads that run Publish: ingest handlers, the local sample loop
    HostOf,          \* the host whose snapshots a publisher carries
    Browsers,        \* dashboards with an EventSource on /api/stream
    Deletable,       \* hosts a user may remove
    Payloads,        \* what may ride on a snapshot: subsets of Parts
    Skew,            \* a host's clock minus the hub's
    Capacity,        \* bound of a subscriber's channel (256 in the code)
    DiskLogMs,       \* least distance of two disk samples of a host
    RetentionMs,     \* age at which samples are pruned
    OnlineWindowMs,  \* age up to which a host counts as online
    StoreMayFail,    \* BOOLEAN: may SQLite refuse a write
    PruneAt,         \* the times at which the prune timer may fire
    MaxNow,          \* bound of the clock
    MaxRestarts      \* bound of the number of hub restarts

Parts == {"catalog", "containers", "disks"}
NoStatus == 0

ASSUME HubAssumption ==
    /\ HubHost \in Hosts
    /\ Watched \subseteq Hosts
    /\ Deletable \subseteq Hosts
    /\ HostOf \in [Publishers -> Hosts]
    /\ Payloads \subseteq SUBSET Parts
    /\ Skew \in [Hosts -> Int]
    /\ Capacity \in Nat \ {0}
    /\ DiskLogMs \in Nat /\ RetentionMs \in Nat /\ OnlineWindowMs \in Nat
    /\ StoreMayFail \in BOOLEAN
    /\ PruneAt \subseteq Nat /\ MaxNow \in Nat /\ MaxRestarts \in Nat

VARIABLES
    now,          \* the hub's clock
    restarts,     \* how often the hub process was restarted
    \* a publisher: where it is in Publish, its snapshot, what rides on it
    pc, snap, load, fan,
    \* LiveBroadcaster's dictionaries
    latest, catalogs, dockers, diskAt,
    \* MetricsStore's two tables, and its lock's two-statement holders
    samples, diskRows, delStep, delHost, pruneStep, cutoff,
    \* layouts kept by the server, by host
    layouts,
    \* the SSE handlers and the browsers behind them
    conn, queue, prime, view,
    \* history: what a full channel dropped, which hosts pushed since their
    \* removal began, which were being published while it ran
    dropped, pushed, raced

publisherVars == <<pc, snap, load, fan>>
cacheVars == <<latest, catalogs, dockers, diskAt>>
storeVars == <<samples, diskRows>>
deleteVars == <<delStep, delHost, layouts>>
pruneVars == <<pruneStep, cutoff>>
streamVars == <<conn, queue, prime, view, dropped>>
historyVars == <<pushed, raced>>
clockVars == <<now, restarts>>
vars == <<clockVars, publisherVars, cacheVars, storeVars, deleteVars,
          pruneVars, streamVars, historyVars>>

(* What no step of Publish, of Forget, of Prune, of a stream changes.      *)
notPublish == <<clockVars, deleteVars, pruneVars, historyVars>>
notForget == <<clockVars, publisherVars, storeVars, delHost, layouts, pruneVars,
               streamVars, historyVars>>
notPrune == <<clockVars, publisherVars, cacheVars, deleteVars, streamVars, historyVars>>
notStream == <<clockVars, cacheVars, storeVars, deleteVars, pruneVars, historyVars>>

-----------------------------------------------------------------------------
(* Types.                                                                  *)

Snapshot == [host : Hosts, ts : Int, svc : Int]
HostStamp == [host : Hosts, ts : Int]
DiskRow == [host : Hosts, ts : Int, run : Nat]

PublishSteps == {"idle", "catalog", "containers", "services", "latest", "insert",
                 "disk", "diskset", "diskrow", "fanout", "write"}
DeleteSteps == {"idle", "diskrows", "catalogs", "containers", "diskat", "latest", "layout"}
PruneSteps == {"idle", "samples", "diskrows"}
Connection == {"closed", "subscribed", "priming", "live"}

(* A dictionary write: e replaces the entry of its host.                   *)
Put(d, e) == {x \in d : x.host # e.host} \cup {e}
(* A dictionary removal.                                                   *)
Drop(d, h) == {x \in d : x.host # h}

(* The latest timestamp of a set of stamped records, 0 when it is empty.   *)
MaxTs(S) == IF S = {} THEN 0 ELSE CHOOSE t \in {x.ts : x \in S} : \A x \in S : x.ts <= t

OfHost(S, h) == {x \in S : x.host = h}
Open == {b \in Browsers : conn[b] # "closed"}
InFlight(h) == \E p \in Publishers : HostOf[p] = h /\ pc[p] # "idle"
Deleting(h) == delStep # "idle" /\ delHost = h

(* Host and time of the snapshot that p publishes.                         *)
Stamp(p) == [host |-> snap[p].host, ts |-> snap[p].ts]

(* lock (_lock): DeleteHost and Prune hold it across two statements.       *)
StoreFree == delStep # "diskrows" /\ pruneStep # "diskrows"

(* GET /api/hosts: the hosts it lists, their last-seen time, their flag.   *)
Listed == {x.host : x \in samples \cup latest}
LastSeen(h) == MaxTs(OfHost(samples \cup latest, h))
Online(h) == h \in Listed /\ now - LastSeen(h) <= OnlineWindowMs

-----------------------------------------------------------------------------
Init ==
    /\ now = 1 /\ restarts = 0
    /\ pc = [p \in Publishers |-> "idle"]
    /\ snap = [p \in Publishers |-> [host |-> HostOf[p], ts |-> Skew[HostOf[p]], svc |-> NoStatus]]
    /\ load = [p \in Publishers |-> {}]
    /\ fan = [p \in Publishers |-> {}]
    /\ latest = {} /\ catalogs = {} /\ dockers = {} /\ diskAt = {}
    /\ samples = {} /\ diskRows = {}
    /\ delStep = "idle" /\ delHost = HubHost /\ layouts = Hosts
    /\ pruneStep = "idle" /\ cutoff = 0
    /\ conn = [b \in Browsers |-> "closed"]
    /\ queue = [b \in Browsers |-> <<>>]
    /\ prime = [b \in Browsers |-> {}]
    /\ view = [b \in Browsers |-> {}]
    /\ dropped = [b \in Browsers |-> {}]
    /\ pushed = {} /\ raced = {}

Tick ==
    /\ now < MaxNow
    /\ now' = now + 1
    /\ UNCHANGED <<restarts, publisherVars, cacheVars, storeVars, deleteVars,
                   pruneVars, streamVars, historyVars>>

-----------------------------------------------------------------------------
(* Publish, statement by statement.                                        *)

At(p, step) == pc[p] = step
Goto(p, step) == pc' = [pc EXCEPT ![p] = step]

(* A snapshot arrives: POST /api/ingest of an agent, or a tick of the      *)
(* hub's own sample loop, which fills in its services itself.              *)
Accept(p) ==
    LET h == HostOf[p]
        t == now + Skew[h]
    IN  /\ At(p, "idle") /\ Goto(p, "catalog")
        /\ \E parts \in Payloads : load' = [load EXCEPT ![p] = parts]
        /\ snap' = [snap EXCEPT ![p] =
               [host |-> h, ts |-> t, svc |-> IF h = HubHost THEN t ELSE NoStatus]]
        /\ pushed' = pushed \cup {h}
        /\ raced' = IF Deleting(h) THEN raced \cup {h} ELSE raced
        /\ UNCHANGED <<clockVars, fan, cacheVars, storeVars, deleteVars, pruneVars, streamVars>>

(* Mutant of Receive: a push may carry the snapshot of an earlier one.     *)
ReceiveAgain(p) == Accept(p)

(* A host stamps its snapshots with its own clock, each later than before. *)
Receive(p) ==
    /\ \A q \in Publishers : HostOf[q] = HostOf[p] => snap[q].ts < now + Skew[HostOf[p]]
    /\ Accept(p)

(* The catalog, if one rides along, is cached and stripped.                *)
CatalogBecomes(p, new) ==
    /\ At(p, "catalog") /\ Goto(p, "containers")
    /\ catalogs' = new
    /\ UNCHANGED <<notPublish, snap, load, fan, latest, dockers, diskAt, storeVars, streamVars>>

(* Mutant of CacheCatalog: a snapshot without a catalog empties the cache. *)
CacheAnyCatalog(p) ==
    CatalogBecomes(p, IF "catalog" \in load[p] THEN Put(catalogs, Stamp(p))
                                               ELSE Drop(catalogs, snap[p].host))

CacheCatalog(p) ==
    CatalogBecomes(p, IF "catalog" \in load[p] THEN Put(catalogs, Stamp(p)) ELSE catalogs)

CacheContainers(p) ==
    /\ At(p, "containers") /\ Goto(p, "services")
    /\ dockers' = IF "containers" \in load[p] THEN Put(dockers, Stamp(p)) ELSE dockers
    /\ UNCHANGED <<notPublish, snap, load, fan, latest, catalogs, diskAt, storeVars, streamVars>>

(* Status of the monitored units of host h, from its cached catalog.       *)
DeriveServices(h) == IF h \in Watched THEN MaxTs(OfHost(catalogs, h)) ELSE NoStatus

FillServices(p) ==
    /\ At(p, "services") /\ Goto(p, "latest")
    /\ snap' = [snap EXCEPT ![p] =
           [host |-> snap[p].host, ts |-> snap[p].ts,
            svc |-> IF snap[p].svc = NoStatus THEN DeriveServices(snap[p].host)
                                              ELSE snap[p].svc]]
    /\ UNCHANGED <<notPublish, load, fan, cacheVars, storeVars, streamVars>>

SetLatest(p) ==
    /\ At(p, "latest") /\ Goto(p, "insert")
    /\ latest' = Put(latest, snap[p])
    /\ UNCHANGED <<notPublish, snap, load, fan, catalogs, dockers, diskAt, storeVars, streamVars>>

(* MetricsStore.Insert; a storage error is swallowed.                      *)
Insert(p) ==
    /\ At(p, "insert") /\ Goto(p, IF "disks" \in load[p] THEN "disk" ELSE "fanout")
    /\ StoreFree
    /\ \/ samples' = samples \cup {snap[p]}
       \/ StoreMayFail /\ UNCHANGED samples
    /\ UNCHANGED <<notPublish, snap, load, fan, cacheVars, diskRows, streamVars>>

(* The throttle of the disk history: read the last time and compare (a     *)
(* host without one is due, as real timestamps are far above DiskLogMs) ...*)
CheckDisk(p) ==
    /\ LET last == OfHost(diskAt, snap[p].host)
           due == last = {} \/ snap[p].ts - MaxTs(last) >= DiskLogMs
       IN  At(p, "disk") /\ Goto(p, IF due THEN "diskset" ELSE "fanout")
    /\ UNCHANGED <<notPublish, snap, load, fan, cacheVars, storeVars, streamVars>>

DiskAtBecomes(p, new) ==
    /\ At(p, "diskset") /\ Goto(p, "diskrow")
    /\ diskAt' = new
    /\ UNCHANGED <<notPublish, snap, load, fan, latest, catalogs, dockers, storeVars, streamVars>>

(* Mutant of SetDiskAt: the time of the sample is not remembered.          *)
SkipDiskAt(p) == DiskAtBecomes(p, diskAt)

(* ... then set it ...                                                     *)
SetDiskAt(p) == DiskAtBecomes(p, Put(diskAt, Stamp(p)))

(* ... and write the rows, in one transaction that may fail.               *)
InsertDisks(p) ==
    /\ At(p, "diskrow") /\ Goto(p, "fanout")
    /\ StoreFree
    /\ \/ diskRows' = diskRows \cup
               {[host |-> snap[p].host, ts |-> snap[p].ts, run |-> restarts]}
       \/ StoreMayFail /\ UNCHANGED diskRows
    /\ UNCHANGED <<notPublish, snap, load, fan, cacheVars, samples, streamVars>>

FanOutTo(p, subscribers) ==
    /\ At(p, "fanout") /\ Goto(p, "write")
    /\ fan' = [fan EXCEPT ![p] = subscribers]
    /\ UNCHANGED <<notPublish, snap, load, cacheVars, storeVars, streamVars>>

(* Mutant of FanOut: a stream is subscribed only once it is primed.        *)
FanOutPrimed(p) == FanOutTo(p, {b \in Browsers : conn[b] = "live"})

(* foreach over _subscribers.Values: a copy of the subscribers of now.     *)
FanOut(p) == FanOutTo(p, Open)

(* One write into the channel of b, over its oldest entry if over is TRUE. *)
Write(p, b, over) ==
    /\ At(p, "write") /\ b \in fan[p]
    /\ fan' = [fan EXCEPT ![p] = @ \ {b}]
    /\ queue' = [queue EXCEPT ![b] = Append(IF over THEN Tail(@) ELSE @, snap[p])]
    /\ dropped' = IF over THEN [dropped EXCEPT ![b] = @ \cup {Head(queue[b])}] ELSE dropped
    /\ UNCHANGED <<notPublish, pc, snap, load, cacheVars, storeVars, conn, prime, view>>

(* Mutant of TryWrite: a full channel keeps what it holds (DropWrite).     *)
TryWriteOrDrop(p, b) ==
    IF Len(queue[b]) < Capacity THEN Write(p, b, FALSE)
    ELSE /\ At(p, "write") /\ b \in fan[p]
         /\ fan' = [fan EXCEPT ![p] = @ \ {b}]
         /\ dropped' = [dropped EXCEPT ![b] = @ \cup {snap[p]}]
         /\ UNCHANGED <<notPublish, pc, snap, load, cacheVars, storeVars, conn, queue, prime, view>>

(* BoundedChannelFullMode.DropOldest.                                      *)
TryWrite(p, b) == Write(p, b, Len(queue[b]) >= Capacity)

Return(p) ==
    /\ At(p, "write") /\ Goto(p, "idle")
    /\ fan[p] = {}
    /\ UNCHANGED <<notPublish, snap, load, fan, cacheVars, storeVars, streamVars>>

-----------------------------------------------------------------------------
(* POST /api/hosts/delete: DeleteHost (two statements under the lock),     *)
(* Forget (four dictionaries in turn), then the host's layout.  One user   *)
(* removes one host at a time.                                             *)

DeleteSamples(h) ==
    /\ delStep = "idle" /\ delStep' = "diskrows"
    /\ StoreFree
    /\ delHost' = h
    /\ samples' = Drop(samples, h)
    /\ pushed' = pushed \ {h}
    /\ UNCHANGED <<clockVars, publisherVars, cacheVars, diskRows, layouts,
                   pruneVars, streamVars, raced>>

DeleteDiskRows ==
    /\ delStep = "diskrows" /\ delStep' = "catalogs"
    /\ diskRows' = Drop(diskRows, delHost)
    /\ raced' = IF InFlight(delHost) THEN raced \cup {delHost} ELSE raced \ {delHost}
    /\ UNCHANGED <<clockVars, publisherVars, cacheVars, samples, delHost, layouts,
                   pruneVars, streamVars, pushed>>

ForgetCatalog ==
    /\ delStep = "catalogs" /\ delStep' = "containers"
    /\ catalogs' = Drop(catalogs, delHost)
    /\ UNCHANGED <<notForget, latest, dockers, diskAt>>

ForgetContainers ==
    /\ delStep = "containers" /\ delStep' = "diskat"
    /\ dockers' = Drop(dockers, delHost)
    /\ UNCHANGED <<notForget, latest, catalogs, diskAt>>

ForgetDiskAt ==
    /\ delStep = "diskat" /\ delStep' = "latest"
    /\ diskAt' = Drop(diskAt, delHost)
    /\ UNCHANGED <<notForget, latest, catalogs, dockers>>

LatestBecomes(new) ==
    /\ delStep = "latest" /\ delStep' = "layout"
    /\ latest' = new
    /\ UNCHANGED <<notForget, catalogs, dockers, diskAt>>

(* Mutant of ForgetLatest: the latest snapshot stays.                      *)
KeepLatest == LatestBecomes(latest)

ForgetLatest == LatestBecomes(Drop(latest, delHost))

Forget == ForgetCatalog \/ ForgetContainers \/ ForgetDiskAt \/ ForgetLatest

DeleteLayout ==
    /\ delStep = "layout" /\ delStep' = "idle"
    /\ layouts' = layouts \ {delHost}
    /\ UNCHANGED <<clockVars, publisherVars, cacheVars, storeVars, delHost,
                   pruneVars, streamVars, historyVars>>

(* POST /api/server-config saves the layout of any host a browser names.   *)
SaveLayout(h) ==
    /\ h \notin layouts
    /\ layouts' = layouts \cup {h}
    /\ UNCHANGED <<clockVars, publisherVars, cacheVars, storeVars, delStep, delHost,
                   pruneVars, streamVars, historyVars>>

-----------------------------------------------------------------------------
(* Prune: the cutoff is taken from the clock before the lock is.           *)

PruneBefore(t) ==
    /\ now \in PruneAt
    /\ pruneStep = "idle" /\ pruneStep' = "samples"
    /\ cutoff' = t
    /\ UNCHANGED <<notPrune, storeVars>>

(* Mutant of PruneStart: everything older than now is pruned.              *)
PruneAll == PruneBefore(now)

PruneStart == PruneBefore(now - RetentionMs)

SamplesBecome(new) ==
    /\ pruneStep = "samples" /\ pruneStep' = "diskrows"
    /\ StoreFree
    /\ samples' = new
    /\ UNCHANGED <<notPrune, diskRows, cutoff>>

(* Mutant of PruneSamples: only the disk history is pruned.                *)
PruneNoSamples == SamplesBecome(samples)

PruneSamples == SamplesBecome({r \in samples : r.ts >= cutoff})

PruneDiskRows ==
    /\ pruneStep = "diskrows" /\ pruneStep' = "idle"
    /\ diskRows' = {r \in diskRows : r.ts >= cutoff}
    /\ UNCHANGED <<notPrune, samples, cutoff>>

-----------------------------------------------------------------------------
(* GET /api/stream: subscribe, prime with the latest snapshots, then drain *)
(* the channel until the browser goes away.                                *)

Subscribe(b) ==
    /\ conn[b] = "closed"
    /\ conn' = [conn EXCEPT ![b] = "subscribed"]
    /\ queue' = [queue EXCEPT ![b] = <<>>]
    /\ dropped' = [dropped EXCEPT ![b] = {}]
    /\ UNCHANGED <<notStream, publisherVars, prime, view>>

PrimeWith(b, snaps) ==
    /\ conn[b] = "subscribed"
    /\ conn' = [conn EXCEPT ![b] = "priming"]
    /\ prime' = [prime EXCEPT ![b] = snaps]
    /\ UNCHANGED <<notStream, publisherVars, queue, view, dropped>>

(* Mutant of StartPriming: the hosts are sent and not their snapshots.     *)
StartWithHosts(b) == PrimeWith(b, {m.host : m \in latest})

(* Mutant of StartPriming: a new stream only gets what is published later. *)
StartUnprimed(b) == PrimeWith(b, {})

(* foreach over Latest.Values: a copy of the dictionary as it is now.      *)
StartPriming(b) == PrimeWith(b, latest)

PrimeOne(b) ==
    /\ conn[b] = "priming"
    /\ \E m \in prime[b] :
           /\ prime' = [prime EXCEPT ![b] = @ \ {m}]
           /\ view' = [view EXCEPT ![b] = Put(@, m)]
    /\ UNCHANGED <<notStream, publisherVars, conn, queue, dropped>>

Primed(b) ==
    /\ conn[b] = "priming" /\ prime[b] = {}
    /\ conn' = [conn EXCEPT ![b] = "live"]
    /\ UNCHANGED <<notStream, publisherVars, queue, prime, view, dropped>>

Drain(b) ==
    /\ conn[b] = "live" /\ queue[b] # <<>>
    /\ view' = [view EXCEPT ![b] = Put(@, Head(queue[b]))]
    /\ queue' = [queue EXCEPT ![b] = Tail(@)]
    /\ UNCHANGED <<notStream, publisherVars, conn, prime, dropped>>

(* The connection ends: Subscription.Dispose removes and completes the     *)
(* channel, so the writes still due to it have no effect.                  *)
Disconnect(b) ==
    /\ conn[b] # "closed"
    /\ conn' = [conn EXCEPT ![b] = "closed"]
    /\ queue' = [queue EXCEPT ![b] = <<>>]
    /\ prime' = [prime EXCEPT ![b] = {}]
    /\ fan' = [p \in Publishers |-> fan[p] \ {b}]
    /\ UNCHANGED <<notStream, pc, snap, load, view, dropped>>

(* The hub process ends and starts again: what is not in SQLite or in      *)
(* michka.conf is gone, and every connection with it.                      *)
Restart ==
    /\ restarts < MaxRestarts
    /\ restarts' = restarts + 1
    /\ pc' = [p \in Publishers |-> "idle"]
    /\ fan' = [p \in Publishers |-> {}]
    /\ latest' = {} /\ catalogs' = {} /\ dockers' = {} /\ diskAt' = {}
    /\ delStep' = "idle" /\ pruneStep' = "idle"
    /\ conn' = [b \in Browsers |-> "closed"]
    /\ queue' = [b \in Browsers |-> <<>>]
    /\ prime' = [b \in Browsers |-> {}]
    /\ UNCHANGED <<now, snap, load, storeVars, delHost, layouts, cutoff, view, dropped,
                   historyVars>>

-----------------------------------------------------------------------------
Publish(p) ==
    \/ CacheCatalog(p) \/ CacheContainers(p) \/ FillServices(p) \/ SetLatest(p)
    \/ Insert(p) \/ CheckDisk(p) \/ SetDiskAt(p) \/ InsertDisks(p)
    \/ FanOut(p) \/ Return(p)
    \/ \E b \in Browsers : TryWrite(p, b)

DeleteRest == DeleteDiskRows \/ Forget \/ DeleteLayout
Prune == PruneStart \/ PruneSamples \/ PruneDiskRows
Deliver(b) == StartPriming(b) \/ PrimeOne(b) \/ Primed(b) \/ Drain(b)

Next ==
    \/ Tick
    \/ \E p \in Publishers : Receive(p) \/ Publish(p)
    \/ \E h \in Deletable : DeleteSamples(h)
    \/ DeleteRest
    \/ \E h \in Hosts : SaveLayout(h)
    \/ Prune
    \/ \E b \in Browsers : Subscribe(b) \/ Deliver(b) \/ Disconnect(b)
    \/ Restart

Spec == Init /\ [][Next]_vars

(* A handler that runs is run to its end by its thread; the prune timer    *)
(* fires again and again; a connected browser reads.  The store's lock is  *)
(* free for minutes between two prunes, so a publisher that waits for it   *)
(* gets it: strong fairness.  Nothing makes an agent push, a user act, a   *)
(* browser stay away or the hub restart.                                   *)
Fairness ==
    /\ \A p \in Publishers : SF_vars(Publish(p))
    /\ WF_vars(DeleteRest)
    /\ WF_vars(PruneStart) /\ WF_vars(PruneSamples) /\ WF_vars(PruneDiskRows)
    /\ \A b \in Browsers : WF_vars(Deliver(b))

FairSpec == Spec /\ Fairness

-----------------------------------------------------------------------------
(* Properties.                                                             *)

(* Every variable has its type.                                            *)
TypeOK ==
    /\ now \in Nat /\ restarts \in Nat
    /\ pc \in [Publishers -> PublishSteps]
    /\ snap \in [Publishers -> Snapshot]
    /\ load \in [Publishers -> SUBSET Parts]
    /\ fan \in [Publishers -> SUBSET Browsers]
    /\ latest \subseteq Snapshot
    /\ catalogs \subseteq HostStamp /\ dockers \subseteq HostStamp /\ diskAt \subseteq HostStamp
    /\ samples \subseteq Snapshot /\ diskRows \subseteq DiskRow
    /\ delStep \in DeleteSteps /\ delHost \in Hosts /\ layouts \subseteq Hosts
    /\ pruneStep \in PruneSteps /\ cutoff \in Int
    /\ conn \in [Browsers -> Connection]
    /\ queue \in [Browsers -> Seq(Snapshot)]
    /\ prime \in [Browsers -> SUBSET Snapshot]
    /\ view \in [Browsers -> SUBSET Snapshot]
    /\ dropped \in [Browsers -> SUBSET Snapshot]
    /\ pushed \subseteq Hosts /\ raced \subseteq Hosts

(* m still has to be written to the channel of b by the thread that        *)
(* published it.                                                           *)
StillToWrite(b, m) ==
    \E p \in Publishers :
        /\ snap[p] = m
        /\ \/ pc[p] \in {"insert", "disk", "diskset", "diskrow", "fanout"}
           \/ pc[p] = "write" /\ b \in fan[p]

(* m waits in the channel of b and is the last of its host there.          *)
LastInQueue(b, m) ==
    \E i \in 1..Len(queue[b]) :
        /\ queue[b][i] = m
        /\ \A j \in (i + 1)..Len(queue[b]) : queue[b][j].host # m.host

(* b has m, or will get it while it is primed, and nothing of m's host is  *)
(* on its way that would replace it.                                       *)
PrimedOrShown(b, m) ==
    /\ \A i \in 1..Len(queue[b]) : queue[b][i].host # m.host
    /\ \/ conn[b] = "subscribed"
       \/ m \in prime[b]
       \/ m \in view[b] /\ OfHost(prime[b], m.host) = {}

(* A browser that connects while snapshots are being published misses      *)
(* none: the latest snapshot of every host is what each open stream will   *)
(* end up showing for that host, unless it was the one a full channel      *)
(* dropped.  It holds because Publish sets the latest snapshot before it   *)
(* copies the subscribers and a stream subscribes before it copies the     *)
(* latest snapshots, and not if two publishes of a host overlap.           *)
NoLostUpdate ==
    \A b \in Open, m \in latest :
        m \in dropped[b] \/ StillToWrite(b, m) \/ LastInQueue(b, m) \/ PrimedOrShown(b, m)

(* The snapshots of a host wait in a browser's channel in the order of     *)
(* their timestamps, whatever was dropped in between.                      *)
QueueOrdered ==
    \A b \in Browsers : \A i, j \in 1..Len(queue[b]) :
        i < j /\ queue[b][i].host = queue[b][j].host => queue[b][i].ts < queue[b][j].ts

(* What a stream has still to show its browser: what waits in the channel  *)
(* or is left to prime it with, all that is latest before it is primed,    *)
(* and what a publisher has still to write to it.                          *)
owed ==
    [b \in Browsers |->
        IF b \notin Open THEN {}
        ELSE UNION {{queue[b][i] : i \in 1..Len(queue[b])}, prime[b],
                    {m \in latest : conn[b] = "subscribed"},
                    {m \in {snap[p] : p \in Publishers} : StillToWrite(b, m)}}]

(* The hub keeps what LatestFeed promises each dashboard: whatever was     *)
(* current since it connected is shown to it, superseded, withdrawn with   *)
(* its host, or lost to a full channel; and a browser that was primed with *)
(* a snapshot goes back to an older one, whose write it was waiting for,   *)
(* only when the newer one is behind it in the channel.                    *)
Promise == INSTANCE LatestFeed WITH current <- latest, open <- Open, shown <- view
PromiseKept == Promise!Spec

(* Within one run of the hub two disk samples of a host are at least       *)
(* DiskLogMs apart, unless it pushed while it was being removed: removal   *)
(* also forgets when the host last logged, but after the rows are gone.    *)
DiskThrottled ==
    \A r, s \in diskRows :
        r.host = s.host /\ r.run = s.run /\ r.ts < s.ts
            => s.ts - r.ts >= DiskLogMs \/ Deleting(r.host) \/ r.host \in raced

(* A removed host is listed again only once it has pushed again, or when   *)
(* one of its pushes was already being handled as its removal began.       *)
GoneUnlessPushed ==
    \A h \in Listed : Deleting(h) \/ h \in pushed \/ h \in raced

(* What MetricsStore.DeleteHost promises: a removed host reappears in the  *)
(* list only if it pushes again.                                           *)
DeletedStaysGone ==
    \A h \in Listed : Deleting(h) \/ h \in pushed

(* The status of an agent's services, derived from the catalog that came   *)
(* last, never falls back to an older catalog or to "unknown", unless the  *)
(* host is being removed or was removed while it pushed.                   *)
StatusNeverRegresses ==
    [][\A m \in latest, n \in latest' :
          m.host = n.host =>
              n.svc >= m.svc \/ Deleting(m.host) \/ m.host \in raced]_vars

(* Pruning never removes a sample, or a row of disk usage, that is younger *)
(* than the retention, however late its delete runs after its cutoff.      *)
PruneKeepsRecent ==
    [][PruneSamples \/ PruneDiskRows =>
          /\ {r \in samples : r.ts >= now - RetentionMs} \subseteq samples'
          /\ {r \in diskRows : r.ts >= now - RetentionMs} \subseteq diskRows']_vars

(* The latest snapshot of a host reaches the browser of every open stream, *)
(* unless it is superseded, dropped or forgotten or the stream ends.       *)
Feed ==
    {m \in [host : {HostOf[p] : p \in Publishers}, ts : 1..MaxNow, svc : 0..MaxNow] :
        IF m.host = HubHost THEN m.svc = m.ts
        ELSE m.svc <= IF m.host \in Watched THEN m.ts ELSE NoStatus}
EventuallyShown ==
    \A b \in Browsers, m \in Feed :
        m \in latest /\ b \in Open
            ~> m \in view[b] \/ m \notin latest \/ m \in dropped[b] \/ b \notin Open

(* A sample older than the retention does not stay in the store.           *)
EventuallyPruned ==
    \A m \in Feed : m \in samples /\ m.ts < now - RetentionMs ~> m \notin samples

(* What the online flag of /api/hosts says: an online host was heard       *)
(* within the window.  (A push is heard when it is stamped, so its         *)
(* timestamp less the skew of its host is the hub's time of it.)           *)
OnlineMeansHeard ==
    \A h \in Listed : Online(h) =>
        \E p \in Publishers : HostOf[p] = h /\ now - (snap[p].ts - Skew[h]) <= OnlineWindowMs
=============================================================================

------------------------- MODULE MetricsHub_proof ---------------------------
(***************************************************************************)
(* Theorems about MetricsHub, for any number of hosts, publishers and      *)
(* browsers, any channel capacity and any clocks.                          *)
(***************************************************************************)
EXTENDS MetricsHub, TLAPS

-----------------------------------------------------------------------------
(* Type correctness.                                                       *)

(* MaxTs of a non-empty set of stamped records without a largest timestamp *)
(* would be an unspecified value: catalogs keeps one stamp per host, so it *)
(* is the timestamp of that one.                                           *)
OneCatalog == \A x, y \in catalogs : x.host = y.host => x = y

LEMMA DeriveType ==
    ASSUME TypeOK, OneCatalog, NEW h \in Hosts
    PROVE  DeriveServices(h) \in Int
<1>1. CASE h \notin Watched \/ OfHost(catalogs, h) = {}
  BY <1>1 DEF DeriveServices, MaxTs, NoStatus
<1>2. CASE h \in Watched /\ OfHost(catalogs, h) # {}
  <2>1. PICK x \in catalogs : x.host = h
    BY <1>2 DEF OfHost
  <2>2. OfHost(catalogs, h) = {x}
    BY <2>1 DEF OfHost, OneCatalog
  <2>3. x.ts \in Int
    BY <2>1 DEF TypeOK, HostStamp
  <2>4. {y.ts : y \in OfHost(catalogs, h)} = {x.ts}
    BY <2>2
  <2>5. MaxTs(OfHost(catalogs, h)) = x.ts
    <3>1. \A y \in OfHost(catalogs, h) : y.ts <= x.ts
      BY <2>2, <2>3
    <3>2. \A t \in {y.ts : y \in OfHost(catalogs, h)} : t = x.ts
      BY <2>4
    <3> QED BY <1>2, <2>4, <3>1, <3>2 DEF MaxTs
  <2> QED BY <1>2, <2>3, <2>5 DEF DeriveServices
<1> QED BY <1>1, <1>2

TypeInv == TypeOK /\ OneCatalog

LEMMA TypeInit == Init => TypeInv
BY HubAssumption DEF Init, TypeInv, TypeOK, OneCatalog, PublishSteps, Snapshot, HostStamp,
   DeleteSteps, PruneSteps, Connection, NoStatus

(* Each step of a publisher keeps the types.                               *)
LEMMA TypePublish ==
    ASSUME TypeInv, NEW p \in Publishers, Receive(p) \/ Publish(p)
    PROVE  TypeInv'
<1> USE HubAssumption DEF At, Goto
<1>0. snap[p] \in Snapshot /\ Stamp(p) \in HostStamp
  BY DEF TypeInv, TypeOK, Stamp, Snapshot, HostStamp
<1>1. CASE Receive(p)
  <2>1. PICK parts \in Payloads : load' = [load EXCEPT ![p] = parts]
    BY <1>1 DEF Receive, Accept
  <2>2. load' \in [Publishers -> SUBSET Parts]
    BY <2>1 DEF TypeInv, TypeOK
  <2>3. snap' \in [Publishers -> Snapshot]
    BY <1>1 DEF Receive, Accept, TypeInv, TypeOK, Snapshot, NoStatus
  <2>4. pushed' \subseteq Hosts /\ raced' \subseteq Hosts
    BY <1>1 DEF Receive, Accept, TypeInv, TypeOK
  <2>5. pc' \in [Publishers -> PublishSteps]
    BY <1>1 DEF Receive, Accept, TypeInv, TypeOK, PublishSteps
  <2> QED BY <1>1, <2>2, <2>3, <2>4, <2>5 DEF Receive, Accept, TypeInv, TypeOK, OneCatalog, PublishSteps,
        cacheVars, clockVars, storeVars, deleteVars, pruneVars, streamVars
<1>2. CASE CacheCatalog(p)
  BY <1>0, <1>2 DEF CacheCatalog, CatalogBecomes, Put, Stamp, TypeInv, TypeOK, OneCatalog, PublishSteps,
     notPublish, clockVars, historyVars, storeVars, deleteVars, pruneVars, streamVars
<1>3. CASE CacheContainers(p)
  BY <1>0, <1>3 DEF CacheContainers, Put, TypeInv, TypeOK, OneCatalog, PublishSteps,
     notPublish, clockVars, historyVars, storeVars, deleteVars, pruneVars, streamVars
<1>4. CASE FillServices(p)
  <2>1. DeriveServices(snap[p].host) \in Int
    BY <1>0, DeriveType DEF TypeInv, Snapshot
  <2>2. snap' \in [Publishers -> Snapshot]
    BY <1>4, <2>1 DEF FillServices, TypeInv, TypeOK, Snapshot
  <2> QED BY <1>4, <2>2 DEF FillServices, TypeInv, TypeOK, OneCatalog, PublishSteps,
     notPublish, clockVars, historyVars, cacheVars, storeVars, deleteVars, pruneVars, streamVars
<1>5. CASE SetLatest(p)
  BY <1>0, <1>5 DEF SetLatest, Put, TypeInv, TypeOK, OneCatalog, PublishSteps,
     notPublish, clockVars, historyVars, storeVars, deleteVars, pruneVars, streamVars
<1>6. CASE Insert(p)
  BY <1>0, <1>6 DEF Insert, TypeInv, TypeOK, OneCatalog, PublishSteps,
     notPublish, clockVars, historyVars, cacheVars, storeVars, deleteVars, pruneVars, streamVars
<1>7. CASE CheckDisk(p)
  BY <1>7 DEF CheckDisk, TypeInv, TypeOK, OneCatalog, PublishSteps,
     notPublish, clockVars, historyVars, cacheVars, storeVars, deleteVars, pruneVars, streamVars
<1>8. CASE SetDiskAt(p)
  BY <1>0, <1>8 DEF SetDiskAt, DiskAtBecomes, Put, TypeInv, TypeOK, OneCatalog, PublishSteps,
     notPublish, clockVars, historyVars, storeVars, deleteVars, pruneVars, streamVars
<1>9. CASE InsertDisks(p)
  <2>1. [host |-> snap[p].host, ts |-> snap[p].ts, run |-> restarts] \in DiskRow
    BY <1>0 DEF TypeInv, TypeOK, Snapshot, DiskRow
  <2>2. diskRows' \subseteq DiskRow
    BY <1>9, <2>1 DEF InsertDisks, TypeInv, TypeOK
  <2> QED BY <1>9, <2>2 DEF InsertDisks, TypeInv, TypeOK, OneCatalog, PublishSteps,
     notPublish, clockVars, historyVars, cacheVars, storeVars, deleteVars, pruneVars, streamVars
<1>10. CASE FanOut(p)
  BY <1>10 DEF FanOut, FanOutTo, Open, TypeInv, TypeOK, OneCatalog, PublishSteps,
     notPublish, clockVars, historyVars, cacheVars, storeVars, deleteVars, pruneVars, streamVars
<1>11. CASE Return(p)
  BY <1>11 DEF Return, TypeInv, TypeOK, OneCatalog, PublishSteps,
     notPublish, clockVars, historyVars, cacheVars, storeVars, deleteVars, pruneVars, streamVars
<1>12. ASSUME NEW b \in Browsers, TryWrite(p, b) PROVE TypeInv'
  <2> DEFINE over == Len(queue[b]) >= Capacity
  <2>1. queue[b] \in Seq(Snapshot) /\ Len(queue[b]) \in Nat
    BY DEF TypeInv, TypeOK
  <2>2. over => queue[b] # <<>>
    BY <2>1
  <2>3. over => Tail(queue[b]) \in Seq(Snapshot) /\ Head(queue[b]) \in Snapshot
    BY <2>1, <2>2
  <2>4. queue' \in [Browsers -> Seq(Snapshot)] /\ dropped' \in [Browsers -> SUBSET Snapshot]
    BY <1>0, <1>12, <2>1, <2>3 DEF TryWrite, Write, TypeInv, TypeOK
  <2> QED BY <1>12, <2>4 DEF TryWrite, Write, TypeInv, TypeOK, OneCatalog,
     notPublish, clockVars, historyVars, cacheVars, storeVars, deleteVars, pruneVars
<1> QED BY <1>1, <1>2, <1>3, <1>4, <1>5, <1>6, <1>7, <1>8, <1>9, <1>10, <1>11, <1>12 DEF Publish

(* So does each step of a removal, of pruning, of a stream, of the rest.   *)
LEMMA TypeOthers ==
    ASSUME TypeInv,
           \/ Tick \/ Restart \/ DeleteRest \/ Prune
           \/ \E h \in Deletable : DeleteSamples(h)
           \/ \E h \in Hosts : SaveLayout(h)
    PROVE  TypeInv'
<1> USE HubAssumption DEF TypeInv, TypeOK, OneCatalog
<1>1. CASE Tick
  BY <1>1 DEF Tick, publisherVars, cacheVars, storeVars, deleteVars, pruneVars, streamVars, historyVars
<1>2. CASE Restart
  BY <1>2 DEF Restart, PublishSteps, DeleteSteps, PruneSteps, Connection, storeVars, historyVars
<1>3. CASE \E h \in Deletable : DeleteSamples(h)
  BY <1>3 DEF DeleteSamples, DeleteSteps, Drop, clockVars, publisherVars, cacheVars, pruneVars, streamVars
<1>4. CASE DeleteDiskRows
  BY <1>4 DEF DeleteDiskRows, DeleteSteps, Drop, clockVars, publisherVars, cacheVars, pruneVars, streamVars
<1>5. CASE Forget
  BY <1>5 DEF Forget, ForgetCatalog, ForgetContainers, ForgetDiskAt, ForgetLatest, LatestBecomes,
     DeleteSteps, Drop, notForget, clockVars, publisherVars, storeVars, pruneVars, streamVars, historyVars
<1>6. CASE DeleteLayout
  BY <1>6 DEF DeleteLayout, DeleteSteps, clockVars, publisherVars, cacheVars, storeVars, pruneVars,
     streamVars, historyVars
<1>7. CASE \E h \in Hosts : SaveLayout(h)
  BY <1>7 DEF SaveLayout, clockVars, publisherVars, cacheVars, storeVars, pruneVars, streamVars, historyVars
<1>8. CASE Prune
  BY <1>8 DEF Prune, PruneStart, PruneBefore, PruneSamples, SamplesBecome, PruneDiskRows, PruneSteps,
     notPrune, clockVars, publisherVars, cacheVars, storeVars, deleteVars, streamVars, historyVars
<1> QED BY <1>1, <1>2, <1>3, <1>4, <1>5, <1>6, <1>7, <1>8 DEF DeleteRest

LEMMA TypeStream ==
    ASSUME TypeInv, NEW b \in Browsers, Subscribe(b) \/ Deliver(b) \/ Disconnect(b)
    PROVE  TypeInv'
<1> USE HubAssumption
       DEF TypeInv, TypeOK, OneCatalog, Connection, notStream, clockVars, publisherVars, cacheVars,
           storeVars, deleteVars, pruneVars, historyVars
<1>1. CASE Subscribe(b)
  BY <1>1 DEF Subscribe
<1>2. CASE StartPriming(b)
  BY <1>2 DEF StartPriming, PrimeWith
<1>3. CASE PrimeOne(b)
  BY <1>3 DEF PrimeOne, Put
<1>4. CASE Primed(b)
  BY <1>4 DEF Primed
<1>5. CASE Drain(b)
  <2>1. Head(queue[b]) \in Snapshot /\ Tail(queue[b]) \in Seq(Snapshot)
    BY <1>5 DEF Drain
  <2> QED BY <1>5, <2>1 DEF Drain, Put
<1>6. CASE Disconnect(b)
  BY <1>6 DEF Disconnect
<1> QED BY <1>1, <1>2, <1>3, <1>4, <1>5, <1>6 DEF Deliver

LEMMA TypeStep == TypeInv /\ [Next]_vars => TypeInv'
<1> SUFFICES ASSUME TypeInv, [Next]_vars PROVE TypeInv'
  OBVIOUS
<1>1. CASE Next
  BY <1>1, TypePublish, TypeOthers, TypeStream DEF Next
<1>2. CASE UNCHANGED vars
  BY <1>2 DEF vars, TypeInv, TypeOK, OneCatalog, clockVars, publisherVars, cacheVars, storeVars,
     deleteVars, pruneVars, streamVars, historyVars
<1> QED BY <1>1, <1>2

LEMMA TypeInvariant == Spec => []TypeInv
BY TypeInit, TypeStep, PTL DEF Spec

(* Every variable keeps its type, whatever the interleaving of publishers, *)
(* removals, pruning, streams and restarts.                                *)
THEOREM TypeCorrect == Spec => []TypeOK
BY TypeInvariant, PTL DEF TypeInv

-----------------------------------------------------------------------------
(* The channels.                                                           *)

(* A channel never holds more than its capacity, however many publishers   *)
(* write to it and however slowly the browser reads.                       *)
QueueBounded == \A b \in Browsers : Len(queue[b]) <= Capacity

(* However many publishers write to the channel of a browser that does not *)
(* read, it holds no more than Capacity snapshots.                         *)
THEOREM ChannelsBounded == Spec => []QueueBounded
<1>1. Init => QueueBounded
  BY HubAssumption DEF Init, QueueBounded
<1>2. TypeInv /\ QueueBounded /\ [Next]_vars => QueueBounded'
  <2> SUFFICES ASSUME TypeInv, QueueBounded, [Next]_vars PROVE QueueBounded'
    OBVIOUS
  <2> USE HubAssumption
  <2>0. queue \in [Browsers -> Seq(Snapshot)]
    BY DEF TypeInv, TypeOK
  <2>1. ASSUME NEW p \in Publishers, NEW b \in Browsers, TryWrite(p, b) PROVE QueueBounded'
    <3>1. queue[b] \in Seq(Snapshot) /\ snap[p] \in Snapshot
      BY DEF TypeInv, TypeOK
    <3>2. Len(queue'[b]) <= Capacity
      BY <2>0, <2>1, <3>1 DEF TryWrite, Write, QueueBounded
    <3> QED BY <2>0, <2>1, <3>2 DEF TryWrite, Write, QueueBounded
  <2>2. ASSUME NEW b \in Browsers, Drain(b) PROVE QueueBounded'
    <3>1. queue[b] \in Seq(Snapshot) /\ queue[b] # <<>>
      BY <2>0, <2>2 DEF Drain
    <3>2. Len(Tail(queue[b])) <= Capacity
      BY <3>1 DEF QueueBounded
    <3> QED BY <2>0, <2>2, <3>2 DEF Drain, QueueBounded
  <2>3. ASSUME NEW b \in Browsers, Subscribe(b) \/ Disconnect(b) PROVE QueueBounded'
    <3>1. queue' = [queue EXCEPT ![b] = <<>>]
      BY <2>3 DEF Subscribe, Disconnect
    <3>2. Len(<<>>) = 0
      OBVIOUS
    <3> QED BY <2>0, <3>1, <3>2 DEF QueueBounded
  <2>4. CASE Restart
    BY <2>4 DEF Restart, QueueBounded
  <2>5. CASE UNCHANGED queue
    BY <2>5 DEF QueueBounded
  <2>6. ASSUME NEW p \in Publishers, Receive(p) \/ Publish(p) PROVE QueueBounded'
    BY <2>1, <2>5, <2>6
       DEF Publish, Receive, Accept, CacheCatalog, CatalogBecomes, CacheContainers, FillServices,
           SetLatest, Insert, CheckDisk, SetDiskAt, DiskAtBecomes, InsertDisks, FanOut, FanOutTo,
           Return, streamVars
  <2>7. ASSUME NEW b \in Browsers, Subscribe(b) \/ Deliver(b) \/ Disconnect(b) PROVE QueueBounded'
    BY <2>2, <2>3, <2>5, <2>7 DEF Deliver, StartPriming, PrimeWith, PrimeOne, Primed
  <2>8. CASE \/ Tick \/ DeleteRest \/ Prune
             \/ \E h \in Deletable : DeleteSamples(h)
             \/ \E h \in Hosts : SaveLayout(h)
    BY <2>5, <2>8
       DEF Tick, DeleteRest, DeleteDiskRows, Forget, ForgetCatalog, ForgetContainers, ForgetDiskAt,
           ForgetLatest, LatestBecomes, DeleteLayout, DeleteSamples, SaveLayout, Prune, PruneStart,
           PruneBefore, PruneSamples, SamplesBecome, PruneDiskRows, notForget, notPrune, streamVars
  <2>9. CASE UNCHANGED vars
    BY <2>5, <2>9 DEF vars, streamVars
  <2> QED BY <2>4, <2>6, <2>7, <2>8, <2>9 DEF Next
<1> QED BY <1>1, <1>2, TypeInvariant, PTL DEF Spec

-----------------------------------------------------------------------------
(* Removal.  A host with samples or a latest snapshot, and a host of which *)
(* a push is being handled, is excused: it pushed since its removal began, *)
(* or while it ran.  While DeleteHost holds the lock, after its first      *)
(* statement, there is no sample of the host for it to excuse.             *)

SnapHost == \A p \in Publishers : snap[p].host = HostOf[p]
Excused(h) == h \in pushed \/ h \in raced
Halfway(h) == delStep = "diskrows" /\ delHost = h

RemovalInv ==
    /\ SnapHost
    /\ \A p \in Publishers : pc[p] # "idle" => Excused(HostOf[p]) \/ Halfway(HostOf[p])
    /\ \A r \in samples : Excused(r.host) /\ ~Halfway(r.host)
    /\ \A m \in latest : Excused(m.host) \/ (Deleting(m.host) /\ delStep # "layout")

LEMMA RemovalPublish ==
    ASSUME TypeInv, RemovalInv, NEW p \in Publishers, Receive(p) \/ Publish(p)
    PROVE  RemovalInv'
<1> USE DEF RemovalInv, Excused, Halfway, Deleting, SnapHost, notPublish, clockVars, deleteVars,
            historyVars, At, Goto
<1>0. pc \in [Publishers -> PublishSteps] /\ snap \in [Publishers -> Snapshot]
  BY DEF TypeInv, TypeOK
<1>1. CASE Receive(p)
  BY <1>0, <1>1 DEF Receive, Accept, cacheVars, storeVars
<1>2. CASE FillServices(p)
  BY <1>0, <1>2 DEF FillServices, cacheVars, storeVars, Snapshot
<1>3. CASE SetLatest(p)
  BY <1>0, <1>3 DEF SetLatest, Put, storeVars
<1>4. CASE Insert(p)
  BY <1>0, <1>4 DEF Insert, StoreFree, cacheVars
<1>5. CASE \/ CacheCatalog(p) \/ CacheContainers(p) \/ CheckDisk(p) \/ SetDiskAt(p)
           \/ InsertDisks(p) \/ FanOut(p) \/ Return(p)
           \/ \E b \in Browsers : TryWrite(p, b)
  <2>1. UNCHANGED <<snap, samples, latest, delStep, delHost, pushed, raced>>
    BY <1>5 DEF CacheCatalog, CatalogBecomes, CacheContainers, CheckDisk, SetDiskAt, DiskAtBecomes,
       InsertDisks, FanOut, FanOutTo, Return, TryWrite, Write, cacheVars, storeVars
  <2>2. \A q \in Publishers : pc'[q] # "idle" => pc[q] # "idle"
    BY <1>0, <1>5 DEF CacheCatalog, CatalogBecomes, CacheContainers, CheckDisk, SetDiskAt,
       DiskAtBecomes, InsertDisks, FanOut, FanOutTo, Return, TryWrite, Write
  <2> QED BY <2>1, <2>2
<1> QED BY <1>1, <1>2, <1>3, <1>4, <1>5 DEF Publish

LEMMA RemovalOthers ==
    ASSUME TypeInv, RemovalInv, [Next]_vars,
           ~ \E p \in Publishers : Receive(p) \/ Publish(p)
    PROVE  RemovalInv'
<1> USE DEF RemovalInv, Excused, Halfway, Deleting, SnapHost
<1>0. pc \in [Publishers -> PublishSteps] /\ snap \in [Publishers -> Snapshot] /\ delStep \in DeleteSteps
  BY DEF TypeInv, TypeOK
<1>1. ASSUME NEW h \in Deletable, DeleteSamples(h) PROVE RemovalInv'
  BY <1>0, <1>1 DEF DeleteSamples, Drop, publisherVars, cacheVars
<1>2. CASE DeleteDiskRows
  BY <1>0, <1>2 DEF DeleteDiskRows, InFlight, publisherVars, cacheVars
<1>3. CASE Forget
  BY <1>0, <1>3 DEF Forget, ForgetCatalog, ForgetContainers, ForgetDiskAt, ForgetLatest, LatestBecomes,
     Drop, notForget, publisherVars, storeVars, historyVars
<1>4. CASE DeleteLayout
  BY <1>0, <1>4 DEF DeleteLayout, publisherVars, cacheVars, storeVars, historyVars
<1>5. CASE Prune
  BY <1>0, <1>5 DEF Prune, PruneStart, PruneBefore, PruneSamples, SamplesBecome, PruneDiskRows,
     notPrune, publisherVars, cacheVars, storeVars, deleteVars, historyVars
<1>6. CASE Restart
  BY <1>0, <1>6 DEF Restart, storeVars, historyVars
<1>7. CASE UNCHANGED <<pc, snap, samples, latest, delStep, delHost, pushed, raced>>
  BY <1>7
<1>8. CASE Tick \/ \E h \in Hosts : SaveLayout(h)
  BY <1>7, <1>8 DEF Tick, SaveLayout, publisherVars, cacheVars, storeVars, deleteVars, historyVars
<1>9. CASE \E b \in Browsers : Subscribe(b) \/ Deliver(b) \/ Disconnect(b)
  BY <1>7, <1>9 DEF Subscribe, Deliver, StartPriming, PrimeWith, PrimeOne, Primed, Drain, Disconnect,
     notStream, publisherVars, cacheVars, storeVars, deleteVars, historyVars
<1>10. CASE UNCHANGED vars
  BY <1>7, <1>10 DEF vars, publisherVars, cacheVars, storeVars, deleteVars, historyVars
<1> QED BY <1>1, <1>2, <1>3, <1>4, <1>5, <1>6, <1>8, <1>9, <1>10 DEF Next, DeleteRest

(* A removed host is listed again only if it pushed since its removal      *)
(* began or a push of it was being handled while the removal ran, for any  *)
(* number of publishers, of one host or of several, and any restarts.      *)
THEOREM RemovalSound == Spec => []GoneUnlessPushed
<1>1. Init => RemovalInv
  BY DEF Init, RemovalInv, SnapHost
<1>2. TypeInv /\ RemovalInv /\ [Next]_vars => RemovalInv'
  BY RemovalPublish, RemovalOthers
<1>3. RemovalInv => GoneUnlessPushed
  BY DEF RemovalInv, GoneUnlessPushed, Listed, Excused
<1> QED BY <1>1, <1>2, <1>3, TypeInvariant, PTL DEF Spec

-----------------------------------------------------------------------------
(* The feed.  One publisher per host: an agent waits for the answer to a   *)
(* push before the next, and two machines do not share a name.             *)

OnePublisherPerHost == \A p, q \in Publishers : HostOf[p] = HostOf[q] => p = q

(* Steps of Publish after the latest snapshot is set.                      *)
AfterLatest == {"insert", "disk", "diskset", "diskrow", "fanout", "write"}

Current(b, m) ==
    m \in dropped[b] \/ StillToWrite(b, m) \/ LastInQueue(b, m) \/ PrimedOrShown(b, m)

FeedInv ==
    /\ SnapHost
    /\ \A m, n \in latest : m.host = n.host => m = n
    /\ \A b \in Browsers : \A m, n \in prime[b] : m.host = n.host => m = n
    /\ \A b \in Browsers : conn[b] # "priming" => prime[b] = {}
    /\ \A p \in Publishers, m \in latest :
           pc[p] \in AfterLatest /\ m.host = HostOf[p] => m = snap[p]

FeedTypes ==
    /\ pc \in [Publishers -> PublishSteps] /\ snap \in [Publishers -> Snapshot]
    /\ fan \in [Publishers -> SUBSET Browsers] /\ latest \subseteq Snapshot
    /\ conn \in [Browsers -> Connection] /\ queue \in [Browsers -> Seq(Snapshot)]
    /\ prime \in [Browsers -> SUBSET Snapshot] /\ view \in [Browsers -> SUBSET Snapshot]
    /\ dropped \in [Browsers -> SUBSET Snapshot]

LEMMA FeedTyped == TypeInv => FeedTypes
BY DEF TypeInv, TypeOK, FeedTypes

(* What surrounds the feed is kept by every step.                          *)
LEMMA FeedInvPublish ==
    ASSUME OnePublisherPerHost, FeedTypes, FeedInv, NEW p \in Publishers, Receive(p) \/ Publish(p)
    PROVE  FeedInv'
<1> USE DEF FeedTypes, FeedInv, SnapHost, AfterLatest, OnePublisherPerHost, At, Goto
<1>1. CASE Receive(p)
  BY <1>1 DEF Receive, Accept, cacheVars, streamVars
<1>2. CASE FillServices(p)
  BY <1>2 DEF FillServices, cacheVars, streamVars, Snapshot
<1>3. CASE SetLatest(p)
  BY <1>3 DEF SetLatest, Put, streamVars
<1>4. CASE CacheCatalog(p) \/ CacheContainers(p)
  BY <1>4 DEF CacheCatalog, CatalogBecomes, CacheContainers, streamVars
<1>5. CASE Insert(p) \/ CheckDisk(p) \/ SetDiskAt(p) \/ InsertDisks(p)
  BY <1>5 DEF Insert, CheckDisk, SetDiskAt, DiskAtBecomes, InsertDisks, cacheVars, streamVars
<1>6. CASE FanOut(p) \/ Return(p)
  BY <1>6 DEF FanOut, FanOutTo, Return, cacheVars, streamVars
<1>7. CASE \E b \in Browsers : TryWrite(p, b)
  BY <1>7 DEF TryWrite, Write, cacheVars
<1> QED BY <1>1, <1>2, <1>3, <1>4, <1>5, <1>6, <1>7 DEF Publish

LEMMA FeedInvOthers ==
    ASSUME FeedTypes, FeedInv, [Next]_vars, ~ \E p \in Publishers : Receive(p) \/ Publish(p)
    PROVE  FeedInv'
<1> USE DEF FeedTypes, FeedInv, SnapHost, AfterLatest
<1>1. CASE Restart
  BY <1>1 DEF Restart
<1>2. CASE Forget
  BY <1>2 DEF Forget, ForgetCatalog, ForgetContainers, ForgetDiskAt, ForgetLatest, LatestBecomes, Drop,
     notForget, publisherVars, streamVars
<1>3. ASSUME NEW b \in Browsers, Subscribe(b) \/ Deliver(b) \/ Disconnect(b) PROVE FeedInv'
  <2> USE DEF notStream, cacheVars, publisherVars
  <2>1. CASE StartPriming(b)
    BY <2>1 DEF StartPriming, PrimeWith
  <2>2. CASE PrimeOne(b)
    BY <2>2 DEF PrimeOne
  <2>3. CASE Primed(b) \/ Subscribe(b)
    BY <2>3 DEF Primed, Subscribe
  <2>4. CASE Drain(b)
    BY <2>4 DEF Drain
  <2>5. CASE Disconnect(b)
    BY <2>5 DEF Disconnect
  <2> QED BY <1>3, <2>1, <2>2, <2>3, <2>4, <2>5 DEF Deliver
<1>4. CASE UNCHANGED <<pc, snap, latest, conn, prime>>
  BY <1>4
<1>5. CASE \/ Tick \/ Prune \/ DeleteDiskRows \/ DeleteLayout
           \/ \E h \in Deletable : DeleteSamples(h)
           \/ \E h \in Hosts : SaveLayout(h)
  BY <1>4, <1>5 DEF Tick, Prune, PruneStart, PruneBefore, PruneSamples, SamplesBecome, PruneDiskRows,
     DeleteDiskRows, DeleteLayout, DeleteSamples, SaveLayout, notPrune, publisherVars, cacheVars,
     streamVars
<1>6. CASE UNCHANGED vars
  BY <1>4, <1>6 DEF vars, publisherVars, cacheVars, streamVars
<1> QED BY <1>1, <1>2, <1>3, <1>5, <1>6 DEF Next, DeleteRest

-----------------------------------------------------------------------------
(* What a browser gets is kept by every step.                              *)

(* A step of Publish that writes to no channel.                            *)
LEMMA LostPublish ==
    ASSUME OnePublisherPerHost, FeedTypes, FeedInv, NoLostUpdate, NEW p \in Publishers,
           \/ Receive(p) \/ CacheCatalog(p) \/ CacheContainers(p) \/ FillServices(p) \/ SetLatest(p)
           \/ Insert(p) \/ CheckDisk(p) \/ SetDiskAt(p) \/ InsertDisks(p) \/ FanOut(p) \/ Return(p)
    PROVE  NoLostUpdate'
<1> USE DEF FeedTypes, At, Goto
<1>1. UNCHANGED <<conn, queue, prime, view, dropped>>
  BY DEF Receive, Accept, CacheCatalog, CatalogBecomes, CacheContainers, FillServices, SetLatest,
     Insert, CheckDisk, SetDiskAt, DiskAtBecomes, InsertDisks, FanOut, FanOutTo, Return, streamVars
<1>2. SUFFICES ASSUME NEW b \in Open, NEW m \in latest', conn[b] # "closed"
               PROVE  Current(b, m)'
  BY <1>1 DEF NoLostUpdate, Current, Open
<1>3. ASSUME m \in latest, StillToWrite(b, m) PROVE StillToWrite(b, m)'
  <2>1. PICK q \in Publishers :
            /\ snap[q] = m
            /\ \/ pc[q] \in {"insert", "disk", "diskset", "diskrow", "fanout"}
               \/ pc[q] = "write" /\ b \in fan[q]
    BY <1>3 DEF StillToWrite
  <2>2. CASE q # p
    <3>1. snap'[q] = snap[q] /\ pc'[q] = pc[q] /\ fan'[q] = fan[q]
      BY <2>2 DEF Receive, Accept, CacheCatalog, CatalogBecomes, CacheContainers, FillServices,
         SetLatest, Insert, CheckDisk, SetDiskAt, DiskAtBecomes, InsertDisks, FanOut, FanOutTo, Return
    <3> QED BY <2>1, <3>1 DEF StillToWrite
  <2>3. CASE q = p
    <3>1. Insert(p) \/ CheckDisk(p) \/ SetDiskAt(p) \/ InsertDisks(p) \/ FanOut(p)
      BY <2>1, <2>3 DEF Receive, Accept, CacheCatalog, CatalogBecomes, CacheContainers, FillServices,
         SetLatest, Return
    <3>2. snap' = snap
      BY <3>1 DEF Insert, CheckDisk, SetDiskAt, DiskAtBecomes, InsertDisks, FanOut, FanOutTo
    <3>3. \/ pc'[p] \in {"insert", "disk", "diskset", "diskrow", "fanout"}
          \/ pc'[p] = "write" /\ b \in fan'[p]
      BY <3>1 DEF Insert, CheckDisk, SetDiskAt, DiskAtBecomes, InsertDisks, FanOut, FanOutTo, Open
    <3> QED BY <2>1, <2>3, <3>2, <3>3 DEF StillToWrite
  <2> QED BY <2>2, <2>3
<1>4. CASE m \in latest
  BY <1>1, <1>3, <1>4 DEF NoLostUpdate, Current, LastInQueue, PrimedOrShown, OfHost
<1>5. CASE m \notin latest
  <2>1. SetLatest(p) /\ m = snap[p]
    BY <1>5 DEF Receive, Accept, CacheCatalog, CatalogBecomes, CacheContainers, FillServices,
       SetLatest, Insert, CheckDisk, SetDiskAt, DiskAtBecomes, InsertDisks, FanOut, FanOutTo,
       Return, cacheVars, Put
  <2>2. StillToWrite(b, m)'
    BY <2>1 DEF SetLatest, StillToWrite
  <2> QED BY <2>2 DEF Current
<1> QED BY <1>4, <1>5

(* What is appended to a channel is all that comes after its entries.      *)
LEMMA AfterAppend ==
    ASSUME NEW r, NEW s, NEW n \in Nat, NEW k \in Nat \ {0}, NEW h,
           \A j \in 1..n : s[j] = r[j], s[n + 1].host # h,
           \A j \in k..n : r[j].host # h
    PROVE  \A j \in k..(n + 1) : s[j].host # h
<1> TAKE j \in k..(n + 1)
<1>1. CASE j = n + 1
  BY <1>1
<1>2. CASE j # n + 1
  <2>1. j \in k..n /\ j \in 1..n
    BY <1>2
  <2>2. r[j].host # h
    BY <2>1
  <2>3. s[j] = r[j]
    BY <2>1
  <2> QED BY <2>2, <2>3
<1> QED BY <1>1, <1>2

(* A write to the channel of c, over its oldest entry when it is full.     *)
LEMMA LostWrite ==
    ASSUME OnePublisherPerHost, FeedTypes, FeedInv, NoLostUpdate,
           NEW p \in Publishers, NEW c \in Browsers, TryWrite(p, c)
    PROVE  NoLostUpdate'
<1> USE HubAssumption DEF FeedTypes
<1>1. /\ UNCHANGED <<pc, snap, latest, conn, prime, view>>
      /\ pc[p] = "write"
      /\ fan' = [fan EXCEPT ![p] = @ \ {c}]
  BY DEF TryWrite, Write, At, cacheVars
<1> SUFFICES ASSUME NEW b \in Open, NEW m \in latest PROVE Current(b, m)'
  BY <1>1 DEF NoLostUpdate, Current, Open
<1>2. Current(b, m)
  BY DEF NoLostUpdate, Current
<1>3. ASSUME StillToWrite(b, m), m.host # HostOf[p] \/ b # c PROVE StillToWrite(b, m)'
  BY <1>1, <1>3 DEF StillToWrite, FeedInv, SnapHost
<1>4. CASE b # c
  <2>1. queue'[b] = queue[b] /\ dropped'[b] = dropped[b]
    BY <1>4 DEF TryWrite, Write, Open
  <2> QED BY <1>1, <1>2, <1>3, <1>4, <2>1 DEF Current, LastInQueue, PrimedOrShown, OfHost
<1>5. CASE b = c
  <2> DEFINE q == queue[b]
             over == Len(q) >= Capacity
             rest == IF over THEN Tail(q) ELSE q
  <2>1. q \in Seq(Snapshot) /\ snap[p] \in Snapshot /\ (over => q # <<>>)
    <3>1. q \in Seq(Snapshot) /\ snap[p] \in Snapshot
      BY DEF Open
    <3>2. over => Len(q) # 0
      BY <3>1
    <3> QED BY <3>1, <3>2
  <2>2. queue'[b] = Append(rest, snap[p]) /\ (over => Head(q) \in dropped'[b])
        /\ dropped[b] \subseteq dropped'[b]
    BY <1>5 DEF TryWrite, Write
  <2>3. rest \in Seq(Snapshot)
    BY <2>1
  <2>4. /\ Len(queue'[b]) = Len(rest) + 1
        /\ \A i \in 1..Len(rest) : queue'[b][i] = rest[i]
        /\ queue'[b][Len(rest) + 1] = snap[p]
    BY <2>1, <2>2, <2>3
  <2>5. CASE m.host = HostOf[p]
    <3>1. m = snap[p]
      BY <1>1, <2>5 DEF FeedInv, AfterLatest
    <3>2. Len(rest) \in Nat
      BY <2>3
    <3>3. /\ Len(rest) + 1 \in 1..Len(queue'[b])
          /\ ((Len(rest) + 1) + 1)..Len(queue'[b]) = {}
      BY <2>4, <3>2
    <3>4. LastInQueue(b, m)'
      BY <2>4, <3>1, <3>3 DEF LastInQueue
    <3> QED BY <3>4 DEF Current
  <2>6. CASE m.host # HostOf[p]
    <3> USE <2>6
    <3>0. snap[p].host # m.host
      BY DEF FeedInv, SnapHost
    <3>1. CASE m \in dropped[b]
      BY <2>2, <3>1 DEF Current
    <3>2. CASE StillToWrite(b, m)
      BY <1>3, <3>2 DEF Current
    <3>3. CASE LastInQueue(b, m)
      <4>1. PICK i \in 1..Len(q) : q[i] = m /\ \A j \in (i + 1)..Len(q) : q[j].host # m.host
        BY <3>3 DEF LastInQueue
      <4>2. CASE ~over
        <5>1. rest = q /\ Len(q) \in Nat /\ Len(rest) \in Nat
          BY <2>1, <4>2
        <5>2. Len(rest) = Len(q) /\ \A j \in 1..Len(rest) : rest[j] = q[j]
          BY <5>1
        <5> DEFINE n == Len(rest)
                   s == queue'[b]
                   k == i + 1
        <5>3. n \in Nat /\ k \in Nat \ {0}
          BY <4>1, <5>1
        <5>4. \A j \in 1..n : s[j] = rest[j]
          BY <2>4
        <5>5. s[n + 1].host # m.host
          BY <2>4, <3>0
        <5>6. \A j \in k..n : rest[j].host # m.host
          BY <4>1, <5>1, <5>2
        <5>7. \A j \in k..(n + 1) : s[j].host # m.host
          <6> HIDE DEF n, s, k, q, rest
          <6> QED BY <5>3, <5>4, <5>5, <5>6, AfterAppend
        <5>8. i \in 1..Len(s)
          BY <2>4, <4>1, <5>1
        <5>9. s[i] = m
          BY <2>4, <4>1, <5>1
        <5> QED BY <2>4, <5>8, <5>9, <5>7 DEF Current, LastInQueue
      <4>3. CASE over /\ i = 1
        BY <2>1, <2>2, <4>1, <4>3 DEF Current
      <4>4. CASE over /\ i # 1
        <5>1. i - 1 \in 1..Len(rest) /\ rest[i - 1] = m
          BY <2>1, <4>1, <4>4
        <5>2. \A j \in i..Len(rest) : rest[j].host # m.host
          BY <2>1, <4>1, <4>4
        <5>3. queue'[b][i - 1] = m
          BY <2>4, <5>1
        <5> DEFINE n == Len(rest)
                   s == queue'[b]
        <5>4. \A j \in i..(n + 1) : s[j].host # m.host
          <6>1. n \in Nat /\ i \in Nat \ {0}
            BY <2>1, <2>3, <4>1
          <6>2. s[n + 1].host # m.host
            BY <2>4, <3>0
          <6>3. \A j \in 1..n : s[j] = rest[j]
            BY <2>4
          <6>4. \A j \in i..n : rest[j].host # m.host
            BY <5>2
          <6> HIDE DEF n, s, q, rest
          <6> TAKE j \in i..(n + 1)
          <6>5. CASE j = n + 1
            BY <6>2, <6>5
          <6>6. CASE j # n + 1
            <7>1. j \in i..n /\ j \in 1..n
              BY <6>1, <6>6
            <7> QED BY <6>3, <6>4, <7>1
          <6> QED BY <6>5, <6>6
        <5>5. i - 1 \in 1..Len(queue'[b]) /\ (i - 1) + 1 = i
          BY <2>3, <2>4, <5>1
        <5> QED BY <2>4, <5>3, <5>4, <5>5 DEF Current, LastInQueue
      <4> QED BY <4>2, <4>3, <4>4
    <3>4. CASE PrimedOrShown(b, m)
      <4>1. \A i \in 1..Len(rest) : rest[i].host # m.host
        BY <2>1, <3>4 DEF PrimedOrShown
      <4>2. \A i \in 1..Len(queue'[b]) : queue'[b][i].host # m.host
        <5> DEFINE n == Len(rest)
                   s == queue'[b]
        <5>1. n \in Nat /\ 1 \in Nat \ {0}
          BY <2>3
        <5>2. s[n + 1].host # m.host
          BY <2>4, <3>0
        <5>3. \A i \in 1..n : s[i] = rest[i]
          BY <2>4
        <5>4. \A i \in 1..n : rest[i].host # m.host
          BY <4>1
        <5>5. \A i \in 1..(n + 1) : s[i].host # m.host
          <6> HIDE DEF n, s, q, rest
          <6> QED BY <5>1, <5>2, <5>3, <5>4, AfterAppend
        <5> QED BY <2>4, <5>5
      <4> QED BY <1>1, <3>4, <4>2 DEF Current, PrimedOrShown, OfHost
    <3> QED BY <1>2, <3>1, <3>2, <3>3, <3>4 DEF Current
  <2> QED BY <2>5, <2>6
<1> QED BY <1>4, <1>5

(* A step of the stream of c.                                              *)
LEMMA LostStream ==
    ASSUME FeedTypes, FeedInv, NoLostUpdate, NEW c \in Browsers,
           Subscribe(c) \/ Deliver(c) \/ Disconnect(c)
    PROVE  NoLostUpdate'
<1> USE DEF FeedTypes
<1>1. UNCHANGED <<latest, snap, pc>>
  BY DEF Subscribe, Deliver, StartPriming, PrimeWith, PrimeOne, Primed, Drain, Disconnect, notStream,
     cacheVars, publisherVars
<1> SUFFICES ASSUME NEW b \in Browsers, conn'[b] # "closed", NEW m \in latest
             PROVE  Current(b, m)'
  BY <1>1 DEF NoLostUpdate, Current, Open
<1>2. CASE b # c
  <2>1. /\ conn'[b] = conn[b] /\ queue'[b] = queue[b] /\ prime'[b] = prime[b] /\ view'[b] = view[b]
        /\ dropped'[b] = dropped[b]
        /\ \A p \in Publishers : b \in fan[p] => b \in fan'[p]
    BY <1>2 DEF Subscribe, Deliver, StartPriming, PrimeWith, PrimeOne, Primed, Drain, Disconnect,
       publisherVars
  <2>2. Current(b, m)
    BY <2>1 DEF NoLostUpdate, Current, Open
  <2> QED BY <1>1, <2>1, <2>2 DEF Current, StillToWrite, LastInQueue, PrimedOrShown, OfHost
<1>3. CASE b = c /\ Subscribe(c)
  <2>1. queue'[b] = <<>> /\ conn'[b] = "subscribed"
    BY <1>3 DEF Subscribe
  <2>2. Len(<<>>) = 0
    OBVIOUS
  <2> QED BY <2>1, <2>2 DEF Current, PrimedOrShown
<1>4. CASE b = c /\ Disconnect(c)
  BY <1>4 DEF Disconnect
<1>5. CASE b = c /\ Deliver(c)
  <2>1. Current(b, m) /\ UNCHANGED <<fan, dropped>>
    BY <1>5 DEF NoLostUpdate, Current, Open, Deliver, StartPriming, PrimeWith, PrimeOne, Primed, Drain,
       publisherVars
  <2>2. CASE m \in dropped[b] \/ StillToWrite(b, m)
    BY <1>1, <2>1, <2>2 DEF Current, StillToWrite
  <2>3. CASE LastInQueue(b, m) /\ ~Drain(b)
    <3>1. queue' = queue
      BY <1>5, <2>3 DEF Deliver, StartPriming, PrimeWith, PrimeOne, Primed
    <3> QED BY <2>3, <3>1 DEF Current, LastInQueue
  <2>4. CASE PrimedOrShown(b, m) /\ ~Drain(b)
    <3>1. queue' = queue
      BY <1>5, <2>4 DEF Deliver, StartPriming, PrimeWith, PrimeOne, Primed
    <3>2. CASE StartPriming(b)
      BY <2>4, <3>1, <3>2 DEF StartPriming, PrimeWith, Current, PrimedOrShown
    <3>3. CASE PrimeOne(b)
      <4>1. PICK n \in prime[b] :
                /\ prime' = [prime EXCEPT ![b] = @ \ {n}]
                /\ view' = [view EXCEPT ![b] = Put(@, n)]
        BY <3>3 DEF PrimeOne
      <4>2. CASE m \in prime[b] /\ m = n
        <5>1. OfHost(prime'[b], m.host) = {}
          BY <4>1, <4>2 DEF OfHost, FeedInv
        <5>2. m \in view'[b]
          BY <4>1, <4>2 DEF Put
        <5> QED BY <2>4, <3>1, <5>1, <5>2 DEF Current, PrimedOrShown, OfHost
      <4>3. CASE m \in prime[b] /\ m # n
        BY <2>4, <3>1, <4>1, <4>3 DEF Current, PrimedOrShown
      <4>4. CASE m \in view[b] /\ OfHost(prime[b], m.host) = {}
        BY <2>4, <3>1, <4>1, <4>4 DEF Current, PrimedOrShown, OfHost, Put
      <4> QED BY <2>4, <3>3, <4>2, <4>3, <4>4 DEF PrimedOrShown, PrimeOne
    <3>4. CASE Primed(b)
      BY <2>4, <3>1, <3>4 DEF Primed, Current, PrimedOrShown, OfHost
    <3> QED BY <1>5, <2>4, <3>2, <3>3, <3>4 DEF Deliver
  <2>5. CASE Drain(b) /\ (LastInQueue(b, m) \/ PrimedOrShown(b, m))
    <3> DEFINE q == queue[b]
    <3>1. /\ q \in Seq(Snapshot) /\ q # <<>> /\ conn[b] = "live" /\ prime[b] = {}
          /\ queue'[b] = Tail(q) /\ view'[b] = Put(view[b], Head(q))
          /\ conn'[b] = conn[b] /\ prime'[b] = prime[b]
      BY <2>5 DEF Drain, FeedInv
    <3>2. Len(queue'[b]) = Len(q) - 1 /\ \A i \in 1..Len(queue'[b]) : queue'[b][i] = q[i + 1]
      BY <3>1
    <3>3. CASE LastInQueue(b, m)
      <4>1. PICK i \in 1..Len(q) : q[i] = m /\ \A j \in (i + 1)..Len(q) : q[j].host # m.host
        BY <3>3 DEF LastInQueue
      <4>2. CASE i = 1
        <5>1. m \in view'[b]
          BY <3>1, <4>1, <4>2 DEF Put
        <5>2. \A k \in 1..Len(queue'[b]) : queue'[b][k].host # m.host
          BY <3>1, <3>2, <4>1, <4>2
        <5> QED BY <3>1, <5>1, <5>2 DEF Current, PrimedOrShown, OfHost
      <4>3. CASE i # 1
        <5>1. i - 1 \in 1..Len(queue'[b]) /\ queue'[b][i - 1] = m
          BY <3>1, <3>2, <4>1, <4>3
        <5>2. \A j \in ((i - 1) + 1)..Len(queue'[b]) : queue'[b][j].host # m.host
          BY <3>1, <3>2, <4>1, <4>3
        <5> QED BY <5>1, <5>2 DEF Current, LastInQueue
      <4> QED BY <4>2, <4>3
    <3>4. CASE PrimedOrShown(b, m)
      <4>1. m \in view[b] /\ \A i \in 1..Len(q) : q[i].host # m.host
        BY <3>1, <3>4 DEF PrimedOrShown
      <4>2. Head(q).host # m.host
        BY <3>1, <4>1
      <4>3. m \in view'[b]
        BY <3>1, <4>1, <4>2 DEF Put
      <4>4. \A i \in 1..Len(queue'[b]) : queue'[b][i].host # m.host
        BY <3>1, <3>2, <4>1
      <4> QED BY <3>1, <4>3, <4>4 DEF Current, PrimedOrShown, OfHost
    <3> QED BY <2>5, <3>3, <3>4
  <2> QED BY <1>5, <2>1, <2>2, <2>3, <2>4, <2>5 DEF Current
<1> QED BY <1>2, <1>3, <1>4, <1>5

LEMMA LostOthers ==
    ASSUME FeedTypes, NoLostUpdate,
           \/ Tick \/ Restart \/ DeleteRest \/ Prune \/ UNCHANGED vars
           \/ \E h \in Deletable : DeleteSamples(h)
           \/ \E h \in Hosts : SaveLayout(h)
    PROVE  NoLostUpdate'
<1>1. CASE Restart
  BY <1>1 DEF Restart, NoLostUpdate
<1>2. CASE ~Restart
  <2>1. latest' \subseteq latest /\ UNCHANGED <<pc, snap, fan, conn, queue, prime, view, dropped>>
    BY <1>2 DEF Tick, DeleteRest, DeleteDiskRows, Forget, ForgetCatalog, ForgetContainers, ForgetDiskAt,
       ForgetLatest, LatestBecomes, Drop, DeleteLayout, DeleteSamples, SaveLayout, Prune, PruneStart,
       PruneBefore, PruneSamples, SamplesBecome, PruneDiskRows, notForget, notPrune, vars,
       publisherVars, cacheVars, streamVars
  <2> QED BY <2>1 DEF NoLostUpdate, Open, StillToWrite, LastInQueue, PrimedOrShown, OfHost
<1> QED BY <1>1, <1>2

(* With one publisher per host, what every open stream will end up showing *)
(* for a host is its latest snapshot, unless a full channel dropped it:    *)
(* for any number of hosts and browsers and any capacity.                  *)
THEOREM FeedComplete == ASSUME OnePublisherPerHost PROVE Spec => []NoLostUpdate
<1>1. Init => FeedInv /\ NoLostUpdate
  BY DEF Init, FeedInv, SnapHost, NoLostUpdate
<1>2. TypeInv /\ FeedInv /\ NoLostUpdate /\ [Next]_vars => (FeedInv /\ NoLostUpdate)'
  <2> SUFFICES ASSUME TypeInv, FeedInv, NoLostUpdate, [Next]_vars PROVE (FeedInv /\ NoLostUpdate)'
    OBVIOUS
  <2>1. FeedTypes
    BY FeedTyped
  <2>2. FeedInv'
    BY <2>1, FeedInvPublish, FeedInvOthers
  <2>3. NoLostUpdate'
    BY <2>1, LostPublish, LostWrite, LostStream, LostOthers DEF Next, Publish
  <2> QED BY <2>2, <2>3
<1> QED BY <1>1, <1>2, TypeInvariant, PTL DEF Spec

-----------------------------------------------------------------------------
(* The order of a channel.  With one publisher per host, what a publisher  *)
(* has still to write to a channel is later than all the snapshots of its  *)
(* host that wait there; what it wrote last is the latest of them.         *)

Pending(p, b) ==
    \/ pc[p] \notin {"idle", "write"}
    \/ pc[p] = "write" /\ b \in fan[p]

Behind(p, b) ==
    \A i \in 1..Len(queue[b]) :
        queue[b][i].host = HostOf[p] =>
            /\ queue[b][i].ts <= snap[p].ts
            /\ Pending(p, b) => queue[b][i].ts < snap[p].ts

Ordered(s) ==
    \A i, j \in 1..Len(s) : i < j /\ s[i].host = s[j].host => s[i].ts < s[j].ts

OrderInv ==
    /\ \A b \in Browsers : Ordered(queue[b])
    /\ \A p \in Publishers, b \in Browsers : Behind(p, b)

(* A channel stays ordered when its oldest snapshot leaves it ...          *)
LEMMA TailOrdered ==
    ASSUME NEW s \in Seq(Snapshot), s # <<>>, Ordered(s)
    PROVE  Ordered(Tail(s))
<1>1. /\ Tail(s) \in Seq(Snapshot) /\ Len(s) \in Nat \ {0} /\ Len(Tail(s)) = Len(s) - 1
      /\ \A i \in 1..Len(Tail(s)) : i + 1 \in 1..Len(s) /\ Tail(s)[i] = s[i + 1]
  OBVIOUS
<1>2. ASSUME NEW i \in 1..Len(Tail(s)), NEW j \in 1..Len(Tail(s)), i < j,
             Tail(s)[i].host = Tail(s)[j].host
      PROVE  Tail(s)[i].ts < Tail(s)[j].ts
  <2>1. s[i + 1].host = s[j + 1].host /\ i + 1 < j + 1
    BY <1>1, <1>2
  <2>2. s[i + 1].ts < s[j + 1].ts
    BY <1>1, <2>1 DEF Ordered
  <2> QED
    BY <1>1, <2>2
<1> QED
  BY <1>2 DEF Ordered

(* ... and when a later one of its host joins it.                          *)
LEMMA AppendOrdered ==
    ASSUME NEW s \in Seq(Snapshot), NEW m \in Snapshot, Ordered(s),
           \A i \in 1..Len(s) : s[i].host = m.host => s[i].ts < m.ts
    PROVE  Ordered(Append(s, m))
<1> DEFINE new == Append(s, m)
<1>1. /\ Len(s) \in Nat /\ Len(new) = Len(s) + 1 /\ new[Len(s) + 1] = m
      /\ \A i \in 1..Len(s) : new[i] = s[i]
  OBVIOUS
<1>2. ASSUME NEW i \in 1..Len(new), NEW j \in 1..Len(new), i < j, new[i].host = new[j].host
      PROVE  new[i].ts < new[j].ts
  <2> HIDE DEF new
  <2>1. i \in 1..Len(s) /\ (j = Len(s) + 1 \/ j \in 1..Len(s))
    BY <1>1, <1>2
  <2>2. CASE j = Len(s) + 1
    BY <1>1, <1>2, <2>1, <2>2
  <2>3. CASE j \in 1..Len(s)
    <3>1. s[i].host = s[j].host
      BY <1>1, <1>2, <2>1, <2>3
    <3>2. s[i].ts < s[j].ts
      BY <1>2, <2>1, <2>3, <3>1 DEF Ordered
    <3> QED
      BY <1>1, <2>1, <2>3, <3>2
  <2> QED
    BY <2>1, <2>2, <2>3
<1> QED
  BY <1>2 DEF Ordered

(* A step of Publish that writes to no channel.                            *)
LEMMA OrderPublish ==
    ASSUME OnePublisherPerHost, TypeInv, FeedInv, OrderInv, NEW p \in Publishers,
           \/ Receive(p) \/ CacheCatalog(p) \/ CacheContainers(p) \/ FillServices(p) \/ SetLatest(p)
           \/ Insert(p) \/ CheckDisk(p) \/ SetDiskAt(p) \/ InsertDisks(p) \/ FanOut(p) \/ Return(p)
    PROVE  OrderInv'
<1>0. FeedTypes /\ now \in Nat /\ Skew \in [Hosts -> Int] /\ HostOf[p] \in Hosts
  BY HubAssumption, FeedTyped DEF TypeInv, TypeOK
<1> USE <1>0 DEF FeedTypes, At, Goto
<1>1. UNCHANGED queue
  BY DEF Receive, Accept, CacheCatalog, CatalogBecomes, CacheContainers, FillServices, SetLatest,
     Insert, CheckDisk, SetDiskAt, DiskAtBecomes, InsertDisks, FanOut, FanOutTo, Return, streamVars
<1>2. ASSUME NEW q \in Publishers, q # p
      PROVE  snap'[q] = snap[q] /\ pc'[q] = pc[q] /\ fan'[q] = fan[q]
  BY <1>2 DEF Receive, Accept, CacheCatalog, CatalogBecomes, CacheContainers, FillServices, SetLatest,
     Insert, CheckDisk, SetDiskAt, DiskAtBecomes, InsertDisks, FanOut, FanOutTo, Return
<1>3. \/ snap[p].ts < snap'[p].ts
      \/ /\ snap'[p].ts = snap[p].ts
         /\ \A b \in Browsers : Pending(p, b)' => Pending(p, b)
  <2>1. CASE Receive(p)
    BY <2>1 DEF Receive, Accept
  <2>2. CASE FillServices(p)
    BY <2>2 DEF FillServices, Pending
  <2>3. CASE CacheCatalog(p) \/ CacheContainers(p) \/ SetLatest(p)
    BY <2>3 DEF CacheCatalog, CatalogBecomes, CacheContainers, SetLatest, Pending
  <2>4. CASE Insert(p) \/ CheckDisk(p) \/ SetDiskAt(p) \/ InsertDisks(p)
    BY <2>4 DEF Insert, CheckDisk, SetDiskAt, DiskAtBecomes, InsertDisks, Pending
  <2>5. CASE FanOut(p) \/ Return(p)
    BY <2>5 DEF FanOut, FanOutTo, Return, Pending
  <2> QED
    BY <2>1, <2>2, <2>3, <2>4, <2>5
<1>4. snap[p].ts \in Int /\ snap'[p].ts \in Int
  <2>1. snap[p].ts \in Int
    BY DEF Snapshot
  <2>2. snap'[p].ts = snap[p].ts \/ Receive(p)
    BY DEF CacheCatalog, CatalogBecomes, CacheContainers, FillServices, SetLatest,
       Insert, CheckDisk, SetDiskAt, DiskAtBecomes, InsertDisks, FanOut, FanOutTo, Return
  <2>3. CASE Receive(p)
    <3>1. snap'[p].ts = now + Skew[HostOf[p]] /\ Skew[HostOf[p]] \in Int
      BY <2>3 DEF Receive, Accept
    <3> QED
      BY <2>1, <3>1
  <2> QED
    BY <2>1, <2>2, <2>3
<1>5. ASSUME NEW b \in Browsers PROVE Behind(p, b)'
  <2> SUFFICES ASSUME NEW i \in 1..Len(queue[b]), queue[b][i].host = HostOf[p]
               PROVE  /\ queue[b][i].ts <= snap'[p].ts
                      /\ Pending(p, b)' => queue[b][i].ts < snap'[p].ts
    BY <1>1 DEF Behind
  <2>1. /\ queue[b][i].ts <= snap[p].ts
        /\ Pending(p, b) => queue[b][i].ts < snap[p].ts
    BY DEF OrderInv, Behind
  <2>2. queue[b][i].ts \in Int
    <3>1. queue[b] \in Seq(Snapshot)
      OBVIOUS
    <3>2. queue[b][i] \in Snapshot
      BY <3>1
    <3> QED
      BY <3>2 DEF Snapshot
  <2> QED
    BY <1>3, <1>4, <2>1, <2>2
<1>6. ASSUME NEW q \in Publishers, q # p, NEW b \in Browsers PROVE Behind(q, b)'
  BY <1>1, <1>2, <1>6 DEF OrderInv, Behind, Pending
<1> QED
  BY <1>1, <1>5, <1>6 DEF OrderInv

(* A write to the channel of c, over its oldest entry when it is full.     *)
LEMMA OrderWrite ==
    ASSUME OnePublisherPerHost, TypeInv, FeedInv, OrderInv,
           NEW p \in Publishers, NEW c \in Browsers, TryWrite(p, c)
    PROVE  OrderInv'
<1>0. FeedTypes /\ Capacity \in Nat \ {0}
  BY HubAssumption, FeedTyped
<1> USE <1>0 DEF FeedTypes
<1>1. /\ UNCHANGED <<pc, snap>>
      /\ pc[p] = "write" /\ c \in fan[p]
      /\ fan' = [fan EXCEPT ![p] = @ \ {c}]
  BY DEF TryWrite, Write, At
<1> DEFINE s == queue[c]
           rest == IF Len(s) >= Capacity THEN Tail(s) ELSE s
           m == snap[p]
<1>2. queue' = [queue EXCEPT ![c] = Append(rest, m)]
  BY DEF TryWrite, Write
<1>3. /\ s \in Seq(Snapshot) /\ m \in Snapshot /\ m.host = HostOf[p] /\ m.ts \in Int
      /\ Len(s) >= Capacity => s # <<>>
  <2>1. s \in Seq(Snapshot) /\ m \in Snapshot /\ m.host = HostOf[p]
    BY DEF FeedInv, SnapHost
  <2>2. Len(s) >= Capacity => Len(s) # 0
    BY <2>1
  <2> QED
    BY <2>1, <2>2 DEF Snapshot
<1>4. /\ rest \in Seq(Snapshot) /\ Len(rest) \in Nat
      /\ \A i \in 1..Len(rest) : \E k \in 1..Len(s) : rest[i] = s[k]
  <2>1. CASE Len(s) >= Capacity
    <3>1. /\ rest = Tail(s) /\ Tail(s) \in Seq(Snapshot) /\ Len(Tail(s)) \in Nat
          /\ \A i \in 1..Len(Tail(s)) : i + 1 \in 1..Len(s) /\ Tail(s)[i] = s[i + 1]
      BY <1>3, <2>1
    <3> HIDE DEF s
    <3> QED
      BY <3>1
  <2>2. CASE ~(Len(s) >= Capacity)
    BY <1>3, <2>2
  <2> QED
    BY <2>1, <2>2
<1>5. Ordered(rest)
  <2>1. Ordered(s)
    BY DEF OrderInv
  <2> QED
    BY <1>3, <2>1, TailOrdered
<1>6. \A i \in 1..Len(s) : s[i].host = m.host => s[i].ts < m.ts
  BY <1>1, <1>3 DEF OrderInv, Behind, Pending
<1>7. \A b \in Browsers : Ordered(queue'[b])
  <2>1. Ordered(Append(rest, m))
    <3>1. \A i \in 1..Len(rest) : rest[i].host = m.host => rest[i].ts < m.ts
      BY <1>4, <1>6
    <3> HIDE DEF rest, m
    <3> QED
      BY <1>3, <1>4, <1>5, <3>1, AppendOrdered
  <2> HIDE DEF rest, m
  <2> QED
    BY <1>2, <2>1 DEF OrderInv
<1>8. /\ Len(Append(rest, m)) = Len(rest) + 1 /\ Append(rest, m)[Len(rest) + 1] = m
      /\ \A i \in 1..Len(rest) : Append(rest, m)[i] = rest[i]
  <2> HIDE DEF rest, m
  <2> QED
    BY <1>3, <1>4
<1>9. ASSUME NEW q \in Publishers, NEW b \in Browsers PROVE Behind(q, b)'
  <2>1. CASE b # c
    BY <1>1, <1>2, <2>1 DEF OrderInv, Behind, Pending
  <2>2. CASE b = c
    <3>1. queue'[b] = Append(rest, m)
      BY <1>2, <2>2
    <3>2. ASSUME NEW i \in 1..(Len(rest) + 1), Append(rest, m)[i].host = HostOf[q]
          PROVE  /\ Append(rest, m)[i].ts <= snap[q].ts
                 /\ Pending(q, b)' => Append(rest, m)[i].ts < snap[q].ts
      <4>1. CASE i = Len(rest) + 1
        <5>1. q = p
          BY <1>3, <1>8, <3>2, <4>1 DEF OnePublisherPerHost
        <5>2. ~Pending(q, b)'
          BY <1>1, <2>2, <5>1 DEF Pending
        <5> QED
          BY <1>3, <1>8, <4>1, <5>1, <5>2
      <4>2. CASE i # Len(rest) + 1
        <5>1. i \in 1..Len(rest)
          BY <1>4, <4>2
        <5>2. PICK k \in 1..Len(s) : Append(rest, m)[i] = s[k]
          BY <1>4, <1>8, <5>1
        <5>3. /\ s[k].ts <= snap[q].ts
              /\ Pending(q, b) => s[k].ts < snap[q].ts
          BY <2>2, <3>2, <5>2 DEF OrderInv, Behind
        <5>4. Pending(q, b)' => Pending(q, b)
          BY <1>1 DEF Pending
        <5> QED
          BY <5>2, <5>3, <5>4
      <4> QED
        BY <4>1, <4>2
    <3> HIDE DEF rest, m
    <3> QED
      BY <1>1, <1>8, <3>1, <3>2 DEF Behind
  <2> QED
    BY <2>1, <2>2
<1> QED
  BY <1>7, <1>9 DEF OrderInv

(* Every other step leaves the publishers alone, or stops them, and leaves *)
(* each channel as it is, or empties it, or takes its oldest entry.        *)
LEMMA OrderOthers ==
    ASSUME TypeInv, OrderInv, [Next]_vars, ~ \E p \in Publishers : Receive(p) \/ Publish(p)
    PROVE  OrderInv'
<1>0. FeedTypes
  BY FeedTyped
<1> USE <1>0 DEF FeedTypes
<1>1. ASSUME NEW b \in Browsers, Drain(b) PROVE OrderInv'
  <2>1. /\ UNCHANGED <<pc, snap, fan>>
        /\ queue' = [queue EXCEPT ![b] = Tail(@)] /\ queue[b] # <<>> /\ queue[b] \in Seq(Snapshot)
    BY <1>1 DEF Drain, publisherVars
  <2>2. \A i \in 1..Len(Tail(queue[b])) :
            i + 1 \in 1..Len(queue[b]) /\ Tail(queue[b])[i] = queue[b][i + 1]
    BY <2>1
  <2>3. Ordered(Tail(queue[b]))
    BY <2>1, TailOrdered DEF OrderInv
  <2>4. ASSUME NEW p \in Publishers PROVE Behind(p, b)'
    <3>1. queue'[b] = Tail(queue[b])
      BY <2>1
    <3> QED
      BY <2>1, <2>2, <3>1 DEF OrderInv, Behind, Pending
  <2>5. ASSUME NEW p \in Publishers, NEW c \in Browsers, c # b PROVE Behind(p, c)'
    BY <2>1, <2>5 DEF OrderInv, Behind, Pending
  <2> QED
    BY <2>1, <2>3, <2>4, <2>5 DEF OrderInv
<1>2. ASSUME NEW b \in Browsers, Subscribe(b) \/ Disconnect(b) PROVE OrderInv'
  <2>1. /\ UNCHANGED <<pc, snap>> /\ queue' = [queue EXCEPT ![b] = <<>>] /\ Len(<<>>) = 0
        /\ \A p \in Publishers : fan'[p] \subseteq fan[p]
    BY <1>2 DEF Subscribe, Disconnect, publisherVars
  <2>2. \A c \in Browsers : queue'[c] = IF c = b THEN <<>> ELSE queue[c]
    BY <2>1
  <2> QED
    BY <2>1, <2>2 DEF OrderInv, Ordered, Behind, Pending
<1>3. CASE Restart
  <2>1. UNCHANGED snap /\ \A b \in Browsers : Len(queue'[b]) = 0
    BY <1>3 DEF Restart
  <2> QED
    BY <2>1 DEF OrderInv, Ordered, Behind
<1>4. CASE UNCHANGED <<pc, snap, fan, queue>>
  BY <1>4 DEF OrderInv, Ordered, Behind, Pending
<1>5. ASSUME NEW b \in Browsers, StartPriming(b) \/ PrimeOne(b) \/ Primed(b) PROVE OrderInv'
  BY <1>4, <1>5 DEF StartPriming, PrimeWith, PrimeOne, Primed, publisherVars
<1>6. CASE Tick \/ Prune \/ DeleteRest
  BY <1>4, <1>6 DEF Tick, Prune, PruneStart, PruneBefore, PruneSamples, SamplesBecome, PruneDiskRows,
     DeleteRest, DeleteDiskRows, Forget, ForgetCatalog, ForgetContainers, ForgetDiskAt, ForgetLatest,
     LatestBecomes, DeleteLayout, notPrune, notForget, publisherVars, streamVars
<1>7. CASE (\E h \in Deletable : DeleteSamples(h)) \/ (\E h \in Hosts : SaveLayout(h))
  BY <1>4, <1>7 DEF DeleteSamples, SaveLayout, publisherVars, streamVars
<1>8. CASE UNCHANGED vars
  BY <1>4, <1>8 DEF vars, publisherVars, streamVars
<1> QED
  BY <1>1, <1>2, <1>3, <1>5, <1>6, <1>7, <1>8 DEF Next, Deliver

LEMMA OrderInvariant == ASSUME OnePublisherPerHost PROVE Spec => [](FeedInv /\ OrderInv)
<1>1. Init => FeedInv /\ OrderInv
  <2>1. Init => FeedInv
    BY DEF Init, FeedInv, SnapHost, AfterLatest
  <2>2. Init => OrderInv
    BY DEF Init, OrderInv, Ordered, Behind
  <2> QED
    BY <2>1, <2>2
<1>2. TypeInv /\ FeedInv /\ OrderInv /\ [Next]_vars => FeedInv' /\ OrderInv'
  <2> SUFFICES ASSUME TypeInv, FeedInv, OrderInv, [Next]_vars PROVE FeedInv' /\ OrderInv'
    OBVIOUS
  <2>1. FeedInv'
    BY FeedTyped, FeedInvPublish, FeedInvOthers
  <2>2. OrderInv'
    BY OrderPublish, OrderWrite, OrderOthers DEF Publish
  <2> QED
    BY <2>1, <2>2
<1> QED
  BY <1>1, <1>2, TypeInvariant, PTL DEF Spec

(* The snapshots of a host wait in a channel in the order of their         *)
(* timestamps, with any number of hosts and browsers, if a host pushes one *)
(* snapshot at a time: what a full channel drops is the oldest, and no     *)
(* browser ever replaces a snapshot of a host by an earlier one from there.*)
THEOREM ChannelsInOrder == ASSUME OnePublisherPerHost PROVE Spec => []QueueOrdered
<1>1. OrderInv => QueueOrdered
  BY DEF OrderInv, Ordered, QueueOrdered
<1> QED
  BY <1>1, OrderInvariant, PTL

-----------------------------------------------------------------------------
(* The throttle of the disk history.  Outside a removal that a push raced, *)
(* the time remembered for a host is no earlier than any row of this run,  *)
(* and who found a sample due still has it a full DiskLogMs after them:    *)
(* nobody else logs for the host in between.                               *)

RowsApart(r, s) == r.ts < s.ts => s.ts - r.ts >= DiskLogMs

(* What is remembered of a row of this run.                                *)
Remembered(r) ==
    /\ \E e \in diskAt : e.host = r.host /\ r.ts <= e.ts
    /\ \A p \in Publishers :
           HostOf[p] = r.host /\ pc[p] \in {"diskset", "diskrow"} => snap[p].ts - r.ts >= DiskLogMs

(* The rows are gone and the time of the last one is yet to be forgotten.  *)
Forgetting == delStep \in {"catalogs", "containers", "diskat"}

DiskInv ==
    /\ SnapHost
    /\ \A x, y \in diskAt : x.host = y.host => x = y
    /\ \A r \in diskRows : r.run <= restarts
    /\ \A r, s \in diskRows :
           r.host = s.host /\ r.run = s.run /\ r.host \notin raced => RowsApart(r, s)
    /\ \A r \in diskRows : r.run = restarts /\ r.host \notin raced => Remembered(r)
    /\ \A p \in Publishers : pc[p] = "diskrow" /\ HostOf[p] \notin raced => Stamp(p) \in diskAt
    /\ Forgetting /\ delHost \notin raced =>
           ~InFlight(delHost) /\ \A r \in diskRows : r.host # delHost

DiskTypes ==
    /\ pc \in [Publishers -> PublishSteps] /\ snap \in [Publishers -> Snapshot]
    /\ \A p \in Publishers : snap[p].ts \in Int
    /\ diskRows \subseteq DiskRow /\ \A r \in diskRows : r.ts \in Int /\ r.run \in Nat
    /\ diskAt \subseteq HostStamp /\ \A e \in diskAt : e.ts \in Int
    /\ restarts \in Nat /\ DiskLogMs \in Nat

LEMMA DiskTyped == TypeInv => DiskTypes
BY HubAssumption DEF TypeInv, TypeOK, DiskTypes, Snapshot, DiskRow, HostStamp

LEMMA OneStamp ==
    ASSUME NEW S, NEW e \in S, e.ts \in Int, \A x \in S : x = e
    PROVE  MaxTs(S) = e.ts
<1>1. {x.ts : x \in S} = {e.ts} /\ \A x \in S : x.ts <= e.ts
  OBVIOUS
<1>2. S # {}
  OBVIOUS
<1> QED
  BY <1>1, <1>2 DEF MaxTs

(* A sample that is due is DiskLogMs after what is remembered.             *)
LEMMA DueApart ==
    ASSUME DiskTypes, DiskInv, NEW p \in Publishers, CheckDisk(p), pc'[p] = "diskset",
           NEW r \in diskRows, r.run = restarts, r.host = HostOf[p], r.host \notin raced
    PROVE  snap[p].ts - r.ts >= DiskLogMs
<1>1. PICK e \in diskAt : e.host = HostOf[p] /\ r.ts <= e.ts
  BY DEF DiskInv, Remembered
<1>2. snap[p].host = HostOf[p]
  BY DEF DiskInv, SnapHost
<1>3. e \in OfHost(diskAt, snap[p].host) /\ \A x \in OfHost(diskAt, snap[p].host) : x = e
  BY <1>1, <1>2 DEF OfHost, DiskInv
<1>4. MaxTs(OfHost(diskAt, snap[p].host)) = e.ts
  <2>1. e.ts \in Int
    BY DEF DiskTypes
  <2> QED
    BY <1>3, <2>1, OneStamp
<1>5. snap[p].ts - e.ts >= DiskLogMs
  <2>1. OfHost(diskAt, snap[p].host) # {}
    BY <1>3
  <2>2. \/ OfHost(diskAt, snap[p].host) = {}
        \/ snap[p].ts - MaxTs(OfHost(diskAt, snap[p].host)) >= DiskLogMs
    BY DEF CheckDisk, Goto, DiskTypes
  <2> QED
    BY <1>4, <2>1, <2>2
<1> QED
  BY <1>1, <1>5 DEF DiskTypes

LEMMA DiskPublish ==
    ASSUME OnePublisherPerHost, DiskTypes, DiskInv, NEW p \in Publishers, Receive(p) \/ Publish(p)
    PROVE  DiskInv'
<1> USE DEF DiskInv, DiskTypes, At, Goto, notPublish, clockVars, deleteVars, historyVars
<1>1. CASE Receive(p)
  <2>1. /\ UNCHANGED <<diskAt, diskRows, restarts, delStep, delHost>> /\ raced \subseteq raced'
        /\ \A q \in Publishers : q # p => pc'[q] = pc[q] /\ snap'[q] = snap[q]
        /\ pc'[p] = "catalog" /\ snap'[p].host = HostOf[p]
        /\ Deleting(HostOf[p]) => HostOf[p] \in raced'
    BY <1>1 DEF Receive, Accept, cacheVars, storeVars
  <2>2. ASSUME Forgetting', delHost' \notin raced'
        PROVE  ~InFlight(delHost)' /\ \A r \in diskRows' : r.host # delHost'
    <3>1. HostOf[p] # delHost
      BY <2>1, <2>2 DEF Forgetting, Deleting
    <3> QED
      BY <2>1, <2>2, <3>1 DEF Forgetting, InFlight
  <2>3. ASSUME NEW r \in diskRows, Remembered(r) PROVE Remembered(r)'
    BY <2>1, <2>3 DEF Remembered
  <2>4. SnapHost'
    BY <2>1 DEF SnapHost
  <2>5. \A q \in Publishers : pc'[q] = "diskrow" => pc[q] = "diskrow" /\ Stamp(q)' = Stamp(q)
    BY <2>1 DEF Stamp
  <2>6. \A r, s \in diskRows : RowsApart(r, s)' <=> RowsApart(r, s)
    BY DEF RowsApart
  <2> QED
    BY <2>1, <2>2, <2>3, <2>4, <2>5, <2>6
<1>2. CASE \/ CacheCatalog(p) \/ CacheContainers(p) \/ FillServices(p) \/ SetLatest(p)
           \/ Insert(p) \/ FanOut(p) \/ Return(p) \/ \E b \in Browsers : TryWrite(p, b)
  <2>1. UNCHANGED <<diskAt, diskRows, restarts, delStep, delHost, raced>>
    BY <1>2 DEF CacheCatalog, CatalogBecomes, CacheContainers, FillServices, SetLatest, Insert, FanOut,
       FanOutTo, Return, TryWrite, Write, cacheVars, storeVars
  <2>2. \A q \in Publishers :
            /\ snap'[q].host = snap[q].host /\ snap'[q].ts = snap[q].ts
            /\ pc'[q] = pc[q] \/ pc'[q] \notin {"diskset", "diskrow"}
            /\ pc'[q] # "idle" => pc[q] # "idle"
    <3>1. CASE FillServices(p)
      BY <3>1 DEF FillServices
    <3>2. CASE CacheCatalog(p) \/ CacheContainers(p) \/ SetLatest(p) \/ Insert(p)
      BY <3>2 DEF CacheCatalog, CatalogBecomes, CacheContainers, SetLatest, Insert
    <3>3. CASE FanOut(p) \/ Return(p) \/ \E b \in Browsers : TryWrite(p, b)
      BY <3>3 DEF FanOut, FanOutTo, Return, TryWrite, Write
    <3> QED
      BY <1>2, <3>1, <3>2, <3>3
  <2>3. ASSUME NEW r \in diskRows, Remembered(r) PROVE Remembered(r)'
    BY <2>1, <2>2, <2>3 DEF Remembered
  <2>4. SnapHost'
    BY <2>2 DEF SnapHost
  <2>5. \A q \in Publishers : pc'[q] = "diskrow" => pc[q] = "diskrow" /\ Stamp(q)' = Stamp(q)
    BY <2>2 DEF Stamp
  <2>6. InFlight(delHost)' => InFlight(delHost)
    BY <2>1, <2>2 DEF InFlight
  <2>7. \A r, s \in diskRows : RowsApart(r, s)' <=> RowsApart(r, s)
    BY DEF RowsApart
  <2>8. Forgetting' <=> Forgetting
    BY <2>1 DEF Forgetting
  <2> QED
    BY <2>1, <2>3, <2>4, <2>5, <2>6, <2>7, <2>8
<1>3. CASE CheckDisk(p)
  <2>1. /\ UNCHANGED <<snap, diskAt, diskRows, restarts, delStep, delHost, raced>>
        /\ pc[p] = "disk" /\ pc'[p] \in {"diskset", "fanout"}
        /\ \A q \in Publishers : q # p => pc'[q] = pc[q]
    BY <1>3 DEF CheckDisk, cacheVars, storeVars
  <2>2. ASSUME NEW r \in diskRows, r.run = restarts, r.host \notin raced PROVE Remembered(r)'
    <3>1. Remembered(r)
      BY <2>2
    <3>2. ASSUME HostOf[p] = r.host, pc'[p] = "diskset" PROVE snap[p].ts - r.ts >= DiskLogMs
      BY <1>3, <2>2, <3>2, DueApart
    <3> QED
      BY <2>1, <3>1, <3>2 DEF Remembered
  <2>3. InFlight(delHost)' => InFlight(delHost)
    BY <2>1 DEF InFlight
  <2> QED
    BY <2>1, <2>2, <2>3 DEF SnapHost, Stamp, Forgetting, RowsApart
<1>4. CASE SetDiskAt(p)
  <2>1. /\ UNCHANGED <<snap, diskRows, restarts, delStep, delHost, raced>>
        /\ pc[p] = "diskset" /\ pc' = [pc EXCEPT ![p] = "diskrow"]
        /\ diskAt' = {x \in diskAt : x.host # HostOf[p]} \cup {Stamp(p)}
        /\ Stamp(p).host = HostOf[p] /\ Stamp(p).ts = snap[p].ts
    BY <1>4 DEF SetDiskAt, DiskAtBecomes, Put, storeVars, SnapHost, Stamp
  <2>2. ASSUME NEW r \in diskRows, r.run = restarts, r.host \notin raced PROVE Remembered(r)'
    <3>1. Remembered(r)
      BY <2>2
    <3>2. \E e \in diskAt' : e.host = r.host /\ r.ts <= e.ts
      <4>1. CASE r.host = HostOf[p]
        <5>1. snap[p].ts - r.ts >= DiskLogMs
          BY <2>1, <3>1, <4>1 DEF Remembered
        <5>2. r.ts <= Stamp(p).ts
          BY <2>1, <5>1
        <5> QED
          BY <2>1, <4>1, <5>2
      <4>2. CASE r.host # HostOf[p]
        BY <2>1, <3>1, <4>2 DEF Remembered
      <4> QED
        BY <4>1, <4>2
    <3>3. \A q \in Publishers :
              pc'[q] \in {"diskset", "diskrow"} => pc[q] \in {"diskset", "diskrow"}
      BY <2>1
    <3> QED
      BY <2>1, <3>1, <3>2, <3>3 DEF Remembered
  <2>3. ASSUME NEW q \in Publishers, pc'[q] = "diskrow", HostOf[q] \notin raced
        PROVE  Stamp(q)' \in diskAt'
    <3>1. CASE q = p
      BY <2>1, <3>1 DEF Stamp
    <3>2. CASE q # p
      <4>1. Stamp(q) \in diskAt /\ Stamp(q).host # HostOf[p] /\ Stamp(q)' = Stamp(q)
        BY <2>1, <2>3, <3>2 DEF Stamp, SnapHost, OnePublisherPerHost
      <4> QED
        BY <2>1, <4>1
    <3> QED
      BY <3>1, <3>2
  <2>4. InFlight(delHost)' => InFlight(delHost)
    BY <2>1 DEF InFlight
  <2> QED
    BY <2>1, <2>2, <2>3, <2>4 DEF SnapHost, Forgetting, RowsApart
<1>5. CASE InsertDisks(p)
  <2> DEFINE row == [host |-> snap[p].host, ts |-> snap[p].ts, run |-> restarts]
  <2>1. /\ UNCHANGED <<snap, diskAt, restarts, delStep, delHost, raced>>
        /\ pc[p] = "diskrow" /\ pc' = [pc EXCEPT ![p] = "fanout"]
        /\ diskRows' \subseteq diskRows \cup {row}
        /\ row.host = HostOf[p] /\ row.ts = snap[p].ts /\ row.run = restarts
    BY <1>5 DEF InsertDisks, cacheVars, SnapHost
  <2> HIDE DEF row
  <2>2. ASSUME HostOf[p] \notin raced, NEW r \in diskRows, r.run = restarts, r.host = HostOf[p]
        PROVE  snap[p].ts - r.ts >= DiskLogMs
    BY <2>1, <2>2 DEF Remembered
  <2>3. ASSUME NEW r \in diskRows', NEW s \in diskRows', r.host = s.host, r.run = s.run,
               r.host \notin raced
        PROVE  RowsApart(r, s)
    <3>1. CASE r \in diskRows /\ s \in diskRows
      BY <2>3, <3>1
    <3>2. CASE r \in diskRows /\ s = row
      BY <2>1, <2>2, <2>3, <3>2 DEF RowsApart
    <3>3. CASE r = row /\ s \in diskRows
      <4>1. snap[p].ts - s.ts >= DiskLogMs
        BY <2>1, <2>2, <2>3, <3>3
      <4>2. ~(snap[p].ts < s.ts)
        BY <3>3, <4>1
      <4> QED
        BY <2>1, <3>3, <4>2 DEF RowsApart
    <3>4. CASE r = row /\ s = row
      BY <2>1, <3>4 DEF RowsApart
    <3> QED
      BY <2>1, <3>1, <3>2, <3>3, <3>4
  <2>4. ASSUME NEW r \in diskRows', r.run = restarts, r.host \notin raced PROVE Remembered(r)'
    <3>1. CASE r \in diskRows
      <4>1. Remembered(r)
        BY <2>4, <3>1
      <4> QED
        BY <2>1, <4>1 DEF Remembered
    <3>2. CASE r = row
      <4>1. Stamp(p) \in diskAt /\ Stamp(p).host = HostOf[p] /\ Stamp(p).ts = snap[p].ts
        BY <2>1, <2>4, <3>2 DEF Stamp, SnapHost
      <4>2. \A q \in Publishers : HostOf[q] = HostOf[p] => pc'[q] = "fanout"
        BY <2>1 DEF OnePublisherPerHost
      <4> QED
        BY <2>1, <3>2, <4>1, <4>2 DEF Remembered
    <3> QED
      BY <2>1, <3>1, <3>2
  <2>5. InFlight(delHost)' => InFlight(delHost)
    BY <2>1 DEF InFlight
  <2>6. ~InFlight(delHost) => row.host # delHost
    BY <2>1 DEF InFlight
  <2>7. \A r \in diskRows' : r.run <= restarts
    BY <2>1
  <2>8. \A q \in Publishers : pc'[q] = "diskrow" => pc[q] = "diskrow" /\ Stamp(q)' = Stamp(q)
    BY <2>1 DEF Stamp
  <2> QED
    BY <2>1, <2>3, <2>4, <2>5, <2>6, <2>7, <2>8 DEF SnapHost, Forgetting, RowsApart
<1> QED
  BY <1>1, <1>2, <1>3, <1>4, <1>5 DEF Publish

LEMMA DiskOthers ==
    ASSUME DiskTypes, DiskInv, [Next]_vars, ~ \E p \in Publishers : Receive(p) \/ Publish(p)
    PROVE  DiskInv'
<1> USE DEF DiskInv, DiskTypes
<1>1. CASE DeleteDiskRows
  <2>1. /\ UNCHANGED <<pc, snap, diskAt, restarts, delHost>>
        /\ delStep' = "catalogs" /\ diskRows' = {r \in diskRows : r.host # delHost}
        /\ raced' = IF InFlight(delHost) THEN raced \cup {delHost} ELSE raced \ {delHost}
    BY <1>1 DEF DeleteDiskRows, Drop, publisherVars, cacheVars, clockVars
  <2>2. \A r \in diskRows' : r \in diskRows /\ r.host # delHost /\ (r.host \in raced' <=> r.host \in raced)
    BY <2>1
  <2>3. ASSUME NEW r \in diskRows', r.run = restarts, r.host \notin raced' PROVE Remembered(r)'
    BY <2>1, <2>2, <2>3 DEF Remembered
  <2>4. ASSUME NEW p \in Publishers, pc'[p] = "diskrow", HostOf[p] \notin raced' PROVE Stamp(p)' \in diskAt'
    BY <2>1, <2>4 DEF Stamp, InFlight
  <2>5. delHost' \notin raced' => ~InFlight(delHost)'
    BY <2>1 DEF InFlight
  <2> QED
    BY <2>1, <2>2, <2>3, <2>4, <2>5 DEF SnapHost, RowsApart
<1>2. CASE ForgetDiskAt
  <2>1. /\ UNCHANGED <<pc, snap, diskRows, restarts, delHost, raced>>
        /\ delStep = "diskat" /\ delStep' = "latest"
        /\ diskAt' = {x \in diskAt : x.host # delHost}
    BY <1>2 DEF ForgetDiskAt, Drop, notForget, publisherVars, storeVars, historyVars, clockVars
  <2>2. delHost \notin raced => ~InFlight(delHost) /\ \A r \in diskRows : r.host # delHost
    BY <2>1 DEF Forgetting
  <2>3. ASSUME NEW r \in diskRows, r.run = restarts, r.host \notin raced PROVE Remembered(r)'
    BY <2>1, <2>2, <2>3 DEF Remembered
  <2>4. ASSUME NEW p \in Publishers, pc[p] = "diskrow", HostOf[p] \notin raced PROVE Stamp(p)' \in diskAt'
    BY <2>1, <2>2, <2>4 DEF Stamp, InFlight, SnapHost
  <2> QED
    BY <2>1, <2>3, <2>4 DEF SnapHost, RowsApart, Forgetting
<1>3. CASE Restart
  <2>1. /\ UNCHANGED <<snap, diskRows, raced>>
        /\ restarts' = restarts + 1 /\ diskAt' = {} /\ delStep' = "idle"
        /\ \A p \in Publishers : pc'[p] = "idle"
    BY <1>3 DEF Restart, storeVars, historyVars
  <2>2. \A r \in diskRows : r.run <= restarts' /\ r.run # restarts'
    BY <2>1
  <2> QED
    BY <2>1, <2>2 DEF SnapHost, RowsApart, Forgetting
<1>4. ASSUME /\ UNCHANGED <<pc, snap, diskAt, restarts, raced>>
             /\ diskRows' \subseteq diskRows
             /\ Forgetting' => Forgetting /\ delHost' = delHost
      PROVE  DiskInv'
  <2>1. \A r \in diskRows' : Remembered(r) => Remembered(r)'
    BY <1>4 DEF Remembered
  <2>2. \A h \in Hosts : InFlight(h)' <=> InFlight(h)
    BY <1>4 DEF InFlight
  <2> QED
    BY <1>4, <2>1, <2>2 DEF SnapHost, RowsApart, Stamp, InFlight
<1>5. ASSUME NEW h \in Deletable, DeleteSamples(h) PROVE DiskInv'
  BY <1>4, <1>5 DEF DeleteSamples, Forgetting, clockVars, publisherVars, cacheVars
<1>6. CASE ForgetCatalog \/ ForgetContainers \/ ForgetLatest
  BY <1>4, <1>6 DEF ForgetCatalog, ForgetContainers, ForgetLatest, LatestBecomes, Forgetting, notForget,
     clockVars, publisherVars, storeVars, historyVars
<1>7. CASE DeleteLayout \/ Tick \/ \E h \in Hosts : SaveLayout(h)
  BY <1>4, <1>7 DEF DeleteLayout, Tick, SaveLayout, Forgetting, clockVars, publisherVars, cacheVars,
     storeVars, deleteVars, historyVars
<1>8. CASE Prune
  BY <1>4, <1>8 DEF Prune, PruneStart, PruneBefore, PruneSamples, SamplesBecome, PruneDiskRows, Forgetting,
     notPrune, clockVars, publisherVars, cacheVars, storeVars, deleteVars, historyVars
<1>9. ASSUME NEW b \in Browsers, Subscribe(b) \/ Deliver(b) \/ Disconnect(b) PROVE DiskInv'
  BY <1>4, <1>9 DEF Subscribe, Deliver, StartPriming, PrimeWith, PrimeOne, Primed, Drain, Disconnect,
     Forgetting, notStream, clockVars, publisherVars, cacheVars, storeVars, deleteVars, historyVars
<1>10. CASE UNCHANGED vars
  BY <1>4, <1>10 DEF vars, Forgetting, clockVars, publisherVars, cacheVars, storeVars, deleteVars, historyVars
<1> QED
  BY <1>1, <1>2, <1>3, <1>5, <1>6, <1>7, <1>8, <1>9, <1>10 DEF Next, DeleteRest, Forget

(* Two disk samples of a host in one run of the hub are DiskLogMs apart if *)
(* the host pushes one snapshot at a time, whatever storage errors, prunes *)
(* and restarts come between them; a removal that a push raced is excused, *)
(* as it forgets when the host last logged after its rows are gone.        *)
THEOREM DiskHistorySparse == ASSUME OnePublisherPerHost PROVE Spec => []DiskThrottled
<1>1. Init => DiskInv
  BY DEF Init, DiskInv, SnapHost, Forgetting
<1>2. TypeInv /\ DiskInv /\ [Next]_vars => DiskInv'
  BY DiskTyped, DiskPublish, DiskOthers
<1>3. DiskInv => DiskThrottled
  BY DEF DiskInv, DiskThrottled, RowsApart
<1> QED
  BY <1>1, <1>2, <1>3, TypeInvariant, PTL DEF Spec

-----------------------------------------------------------------------------
(* Pruning.  The cutoff was taken from an earlier clock.                   *)

CutoffPassed == pruneStep # "idle" => cutoff <= now - RetentionMs

(* No sample or disk row younger than the retention is pruned, however     *)
(* long the prune waits for the lock after it took the time.               *)
THEOREM RecentKept == Spec => PruneKeepsRecent
<1>1. Init => CutoffPassed
  BY DEF Init, CutoffPassed
<1>2. TypeInv /\ CutoffPassed /\ [Next]_vars => CutoffPassed'
  <2> SUFFICES ASSUME TypeInv, CutoffPassed, [Next]_vars PROVE CutoffPassed'
    OBVIOUS
  <2>0. now \in Nat /\ cutoff \in Int /\ RetentionMs \in Nat
    BY HubAssumption DEF TypeInv, TypeOK
  <2>1. CASE PruneStart
    BY <2>0, <2>1 DEF PruneStart, PruneBefore, notPrune, clockVars, CutoffPassed
  <2>2. CASE Tick
    BY <2>0, <2>2 DEF Tick, pruneVars, CutoffPassed
  <2>3. CASE Restart
    BY <2>3 DEF Restart, CutoffPassed
  <2>4. CASE PruneSamples \/ PruneDiskRows
    BY <2>4 DEF PruneSamples, SamplesBecome, PruneDiskRows, notPrune, clockVars, CutoffPassed
  <2>5. CASE UNCHANGED <<now, cutoff, pruneStep>>
    BY <2>5 DEF CutoffPassed
  <2>6. ASSUME NEW p \in Publishers, Receive(p) \/ Publish(p) PROVE CutoffPassed'
    BY <2>5, <2>6 DEF Receive, Accept, Publish, CacheCatalog, CatalogBecomes, CacheContainers,
       FillServices, SetLatest, Insert, CheckDisk, SetDiskAt, DiskAtBecomes, InsertDisks, FanOut, FanOutTo,
       Return, TryWrite, Write, notPublish, clockVars, pruneVars
  <2>7. CASE DeleteRest \/ (\E h \in Deletable : DeleteSamples(h)) \/ (\E h \in Hosts : SaveLayout(h))
    BY <2>5, <2>7 DEF DeleteRest, DeleteDiskRows, Forget, ForgetCatalog, ForgetContainers, ForgetDiskAt,
       ForgetLatest, LatestBecomes, DeleteLayout, DeleteSamples, SaveLayout, notForget, clockVars, pruneVars
  <2>8. ASSUME NEW b \in Browsers, Subscribe(b) \/ Deliver(b) \/ Disconnect(b) PROVE CutoffPassed'
    BY <2>5, <2>8 DEF Subscribe, Deliver, StartPriming, PrimeWith, PrimeOne, Primed, Drain, Disconnect,
       notStream, clockVars, pruneVars
  <2>9. CASE UNCHANGED vars
    BY <2>5, <2>9 DEF vars, clockVars, pruneVars
  <2> QED
    BY <2>1, <2>2, <2>3, <2>4, <2>6, <2>7, <2>8, <2>9 DEF Next, Prune
<1>3. TypeInv /\ CutoffPassed /\ (PruneSamples \/ PruneDiskRows) =>
          /\ {r \in samples : r.ts >= now - RetentionMs} \subseteq samples'
          /\ {r \in diskRows : r.ts >= now - RetentionMs} \subseteq diskRows'
  <2> SUFFICES ASSUME TypeInv, CutoffPassed, PruneSamples \/ PruneDiskRows
               PROVE  /\ {r \in samples : r.ts >= now - RetentionMs} \subseteq samples'
                      /\ {r \in diskRows : r.ts >= now - RetentionMs} \subseteq diskRows'
    OBVIOUS
  <2>1. /\ now \in Nat /\ cutoff \in Int /\ RetentionMs \in Nat
        /\ (\A r \in samples : r.ts \in Int) /\ (\A r \in diskRows : r.ts \in Int)
    BY HubAssumption DEF TypeInv, TypeOK, Snapshot, DiskRow
  <2>2. cutoff <= now - RetentionMs
    BY DEF CutoffPassed, PruneSamples, SamplesBecome, PruneDiskRows
  <2>3. \A t \in Int : t >= now - RetentionMs => t >= cutoff
    BY <2>1, <2>2
  <2> QED
    BY <2>1, <2>3 DEF PruneSamples, SamplesBecome, PruneDiskRows
<1> QED
  BY <1>1, <1>2, <1>3, TypeInvariant, PTL DEF Spec, PruneKeepsRecent

-----------------------------------------------------------------------------
(* Service status.  Outside a removal that a push raced, what a host shows *)
(* is at most what its cached catalog says, and what a publisher is about  *)
(* to show is exactly that.  The hub's own machine needs no catalog.       *)

(* A host stamps in milliseconds since 1970.                               *)
ClocksForward == \A h \in Hosts : Skew[h] \in Nat

Early == {"catalog", "containers", "services"}

(* The catalog of h is gone, or what h shows is not bounded by it yet.     *)
Clearing(h) == delHost = h /\ delStep \in {"catalogs", "containers", "diskat", "latest"}

StatusInv ==
    /\ SnapHost
    /\ now >= 1 /\ \A p \in Publishers : snap[p].ts >= 0
    /\ \A m, n \in latest : m.host = n.host => m = n
    /\ \A e \in catalogs : e.ts >= 0
    /\ \A e \in catalogs, p \in Publishers : e.host = HostOf[p] => e.ts <= snap[p].ts
    /\ \A p \in Publishers : HostOf[p] = HubHost =>
           /\ pc[p] \in Early \cup {"latest"} => snap[p].svc = snap[p].ts /\ snap[p].ts >= 1
           /\ \A m \in latest : m.host = HubHost => m.svc <= snap[p].ts
    /\ \A p \in Publishers : HostOf[p] # HubHost =>
           /\ pc[p] \in Early => snap[p].svc = NoStatus
           /\ pc[p] = "latest" /\ HostOf[p] \notin raced => snap[p].svc = DeriveServices(HostOf[p])
    /\ \A m \in latest : m.host # HubHost /\ m.host \notin raced =>
           /\ m.svc <= DeriveServices(m.host) \/ Clearing(m.host)
           /\ ~(delStep = "layout" /\ delHost = m.host)
    /\ \A h \in Hosts : Clearing(h) /\ h \notin raced => ~InFlight(h)
    /\ delStep = "layout" /\ delHost \notin raced => ~InFlight(delHost)

StatusTypes ==
    /\ pc \in [Publishers -> PublishSteps] /\ snap \in [Publishers -> Snapshot]
    /\ \A p \in Publishers : snap[p].ts \in Int /\ snap[p].svc \in Int
    /\ latest \subseteq Snapshot /\ \A m \in latest : m.svc \in Int /\ m.host \in Hosts
    /\ catalogs \subseteq HostStamp /\ \A e \in catalogs : e.ts \in Int
    /\ OneCatalog /\ now \in Nat /\ HubHost \in Hosts /\ HostOf \in [Publishers -> Hosts]
    /\ delHost \in Hosts
    /\ \A h \in Hosts : DeriveServices(h) \in Int

LEMMA StatusTyped == TypeInv => StatusTypes
<1> SUFFICES ASSUME TypeInv PROVE StatusTypes
  OBVIOUS
<1>1. \A h \in Hosts : DeriveServices(h) \in Int
  BY DeriveType DEF TypeInv
<1> QED
  BY <1>1, HubAssumption DEF TypeInv, TypeOK, StatusTypes, Snapshot, HostStamp

(* What a cached catalog says.                                             *)
LEMMA DeriveOf ==
    ASSUME StatusTypes, NEW e \in catalogs, e.host \in Watched
    PROVE  DeriveServices(e.host) = e.ts
<1>1. e \in OfHost(catalogs, e.host) /\ \A x \in OfHost(catalogs, e.host) : x = e
  BY DEF OfHost, StatusTypes, OneCatalog
<1>2. MaxTs(OfHost(catalogs, e.host)) = e.ts
  BY <1>1, OneStamp DEF StatusTypes
<1> QED
  BY <1>2 DEF DeriveServices

LEMMA DeriveNone ==
    ASSUME NEW h, h \notin Watched \/ \A e \in catalogs : e.host # h
    PROVE  DeriveServices(h) = NoStatus
<1>1. h \in Watched => OfHost(catalogs, h) = {}
  BY DEF OfHost
<1> QED
  BY <1>1 DEF DeriveServices, MaxTs, NoStatus

LEMMA DeriveSame ==
    ASSUME NEW h, \A e : e \in catalogs' /\ e.host = h <=> e \in catalogs /\ e.host = h
    PROVE  DeriveServices(h)' = DeriveServices(h)
<1>1. OfHost(catalogs, h)' = OfHost(catalogs, h)
  BY DEF OfHost
<1> QED
  BY <1>1 DEF DeriveServices, MaxTs

(* A catalog is no later than the snapshot of its host's publisher.        *)
LEMMA DeriveBound ==
    ASSUME StatusTypes, StatusInv, NEW p \in Publishers
    PROVE  DeriveServices(HostOf[p]) <= snap[p].ts
<1>1. CASE \E e \in catalogs : e.host = HostOf[p] /\ HostOf[p] \in Watched
  <2>1. PICK e \in catalogs : e.host = HostOf[p] /\ HostOf[p] \in Watched
    BY <1>1
  <2>2. DeriveServices(e.host) = e.ts
    BY <2>1, DeriveOf
  <2> QED
    BY <2>1, <2>2 DEF StatusInv
<1>2. CASE HostOf[p] \notin Watched \/ \A e \in catalogs : e.host # HostOf[p]
  <2>1. DeriveServices(HostOf[p]) = NoStatus
    BY <1>2, DeriveNone
  <2> QED
    BY <2>1 DEF StatusInv, NoStatus
<1> QED
  BY <1>1, <1>2

(* The catalog that p caches says no less than the one before.             *)
LEMMA CatalogAdvances ==
    ASSUME OnePublisherPerHost, StatusTypes, StatusInv, NEW p \in Publishers, CacheCatalog(p)
    PROVE  /\ DeriveServices(HostOf[p]) <= DeriveServices(HostOf[p])'
           /\ DeriveServices(HostOf[p])' \in Int
           /\ \A h \in Hosts : h # HostOf[p] => DeriveServices(h)' = DeriveServices(h)
<1>1. \/ catalogs' = catalogs
      \/ catalogs' = {x \in catalogs : x.host # HostOf[p]} \cup {Stamp(p)}
  BY DEF CacheCatalog, CatalogBecomes, Put, Stamp, StatusInv, SnapHost
<1>2. Stamp(p).host = HostOf[p] /\ Stamp(p).ts = snap[p].ts
  BY DEF Stamp, StatusInv, SnapHost
<1>3. ASSUME NEW h \in Hosts, h # HostOf[p] PROVE DeriveServices(h)' = DeriveServices(h)
  BY <1>1, <1>2, <1>3, DeriveSame
<1>4. CASE catalogs' = catalogs
  <2>1. DeriveServices(HostOf[p])' = DeriveServices(HostOf[p])
    BY <1>4 DEF DeriveServices, MaxTs, OfHost
  <2> QED
    BY <1>3, <2>1 DEF StatusTypes
<1>5. CASE catalogs' = {x \in catalogs : x.host # HostOf[p]} \cup {Stamp(p)}
  <2>1. Stamp(p) \in OfHost(catalogs', HostOf[p])
        /\ \A x \in OfHost(catalogs', HostOf[p]) : x = Stamp(p)
    BY <1>2, <1>5 DEF OfHost
  <2>2. MaxTs(OfHost(catalogs', HostOf[p])) = snap[p].ts
    BY <1>2, <2>1, OneStamp DEF StatusTypes
  <2>3. CASE HostOf[p] \in Watched
    <3>1. DeriveServices(HostOf[p])' = snap[p].ts
      BY <2>2, <2>3 DEF DeriveServices
    <3> QED
      BY <1>3, <3>1, DeriveBound DEF StatusTypes
  <2>4. CASE HostOf[p] \notin Watched
    <3>1. DeriveServices(HostOf[p])' = DeriveServices(HostOf[p])
      BY <2>4 DEF DeriveServices
    <3> QED
      BY <1>3, <3>1 DEF StatusTypes
  <2> QED
    BY <2>3, <2>4
<1> QED
  BY <1>1, <1>4, <1>5

LEMMA StatusPublish ==
    ASSUME OnePublisherPerHost, ClocksForward, StatusTypes, StatusInv, NEW p \in Publishers,
           Receive(p) \/ Publish(p)
    PROVE  StatusInv'
<1> USE DEF StatusTypes, At, Goto
<1>0. HostOf[p] \in Hosts
  OBVIOUS
<1>1. CASE Receive(p)
  <2>1. /\ UNCHANGED <<latest, catalogs, now, delStep, delHost>> /\ raced \subseteq raced'
        /\ \A q \in Publishers : q # p => pc'[q] = pc[q] /\ snap'[q] = snap[q]
        /\ pc'[p] = "catalog" /\ snap'[p].host = HostOf[p]
        /\ Deleting(HostOf[p]) => HostOf[p] \in raced'
        /\ raced' \subseteq raced \cup {HostOf[p]}
    BY <1>1 DEF Receive, Accept, cacheVars, deleteVars, clockVars
  <2>2. /\ snap[p].ts < snap'[p].ts /\ snap'[p].ts \in Int /\ snap'[p].ts >= 1
        /\ snap'[p].svc = IF HostOf[p] = HubHost THEN snap'[p].ts ELSE NoStatus
    <3>1. Skew[HostOf[p]] \in Nat /\ now >= 1
      BY <1>0 DEF ClocksForward, StatusInv
    <3>2. snap'[p].ts = now + Skew[HostOf[p]] /\ snap[p].ts < now + Skew[HostOf[p]]
      BY <1>1 DEF Receive, Accept
    <3>3. snap'[p].svc = IF HostOf[p] = HubHost THEN snap'[p].ts ELSE NoStatus
      BY <1>1 DEF Receive, Accept
    <3> QED
      BY <3>1, <3>2, <3>3
  <2>3. \A h \in Hosts : DeriveServices(h)' = DeriveServices(h)
    BY <2>1, DeriveSame
  <2>4. \A h \in Hosts : (Clearing(h)' <=> Clearing(h)) /\ (Clearing(h) => Deleting(h))
    BY <2>1 DEF Clearing, Deleting
  <2>5. \A h \in Hosts : h # HostOf[p] => (InFlight(h)' <=> InFlight(h))
    BY <2>1 DEF InFlight
  <2>6. /\ \A q \in Publishers : snap'[q].ts >= 0 /\ snap'[q].host = HostOf[q]
        /\ \A e \in catalogs, q \in Publishers : e.host = HostOf[q] => e.ts <= snap'[q].ts
    BY <2>1, <2>2 DEF StatusInv, SnapHost
  <2>7. \A q \in Publishers : HostOf[q] = HubHost =>
           /\ pc'[q] \in Early \cup {"latest"} => snap'[q].svc = snap'[q].ts /\ snap'[q].ts >= 1
           /\ \A m \in latest : m.host = HubHost => m.svc <= snap'[q].ts
    BY <2>1, <2>2 DEF StatusInv, Early
  <2>8. \A q \in Publishers : HostOf[q] # HubHost =>
           /\ pc'[q] \in Early => snap'[q].svc = NoStatus
           /\ pc'[q] = "latest" /\ HostOf[q] \notin raced' => snap'[q].svc = DeriveServices(HostOf[q])'
    BY <2>1, <2>2, <2>3 DEF StatusInv, Early
  <2>9. \A m \in latest : m.host # HubHost /\ m.host \notin raced' =>
           /\ m.svc <= DeriveServices(m.host)' \/ Clearing(m.host)'
           /\ ~(delStep' = "layout" /\ delHost' = m.host)
    BY <2>1, <2>3, <2>4 DEF StatusInv
  <2>10. /\ \A h \in Hosts : Clearing(h)' /\ h \notin raced' => ~InFlight(h)'
         /\ delStep' = "layout" /\ delHost' \notin raced' => ~InFlight(delHost)'
    BY <2>1, <2>4, <2>5 DEF StatusInv, Deleting
  <2> QED
    BY <2>1, <2>6, <2>7, <2>8, <2>9, <2>10 DEF StatusInv, SnapHost
<1>2. ASSUME UNCHANGED <<now, delStep, delHost, raced>>,
             \A q \in Publishers : pc'[q] # "idle" => pc[q] # "idle"
      PROVE  /\ now' >= 1
             /\ \A h \in Hosts : (Clearing(h)' <=> Clearing(h)) /\ (InFlight(h)' => InFlight(h))
             /\ \A h \in Hosts : Clearing(h)' /\ h \notin raced' => ~InFlight(h)'
             /\ delStep' = "layout" /\ delHost' \notin raced' => ~InFlight(delHost)'
  <2>1. \A h \in Hosts : (Clearing(h)' <=> Clearing(h)) /\ (InFlight(h)' => InFlight(h))
    BY <1>2 DEF Clearing, InFlight
  <2> QED
    BY <1>2, <2>1 DEF StatusInv
<1>3. CASE CacheCatalog(p)
  <2>1. /\ UNCHANGED <<snap, latest, now, delStep, delHost, raced>>
        /\ pc[p] = "catalog" /\ pc' = [pc EXCEPT ![p] = "containers"]
        /\ \A e \in catalogs' : e \in catalogs \/ e = Stamp(p)
        /\ Stamp(p).host = HostOf[p] /\ Stamp(p).ts = snap[p].ts
    BY <1>3 DEF CacheCatalog, CatalogBecomes, Put, Stamp, notPublish, clockVars, deleteVars, historyVars,
       StatusInv, SnapHost
  <2>2. InFlight(HostOf[p])
    BY <2>1 DEF InFlight
  <2>3. /\ \A e \in catalogs' : e.ts >= 0 /\ e.ts \in Int
        /\ \A e \in catalogs', q \in Publishers : e.host = HostOf[q] => e.ts <= snap[q].ts
    BY <2>1 DEF StatusInv, OnePublisherPerHost
  <2>4. /\ DeriveServices(HostOf[p]) <= DeriveServices(HostOf[p])'
        /\ DeriveServices(HostOf[p]) \in Int /\ DeriveServices(HostOf[p])' \in Int
        /\ \A h \in Hosts : h # HostOf[p] => DeriveServices(h)' = DeriveServices(h)
    BY <1>3, CatalogAdvances
  <2>5. \A m \in latest : m.host # HubHost /\ m.host \notin raced =>
           m.svc <= DeriveServices(m.host)' \/ Clearing(m.host)
    BY <2>4 DEF StatusInv
  <2>6. \A q \in Publishers : HostOf[q] # HubHost =>
           /\ pc'[q] \in Early => snap[q].svc = NoStatus
           /\ pc'[q] = "latest" /\ HostOf[q] \notin raced => snap[q].svc = DeriveServices(HostOf[q])'
    BY <2>1, <2>4 DEF StatusInv, Early, OnePublisherPerHost
  <2>7. \A q \in Publishers : HostOf[q] = HubHost /\ pc'[q] \in Early \cup {"latest"} =>
           pc[q] \in Early \cup {"latest"}
    BY <2>1 DEF Early
  <2>8. \A q \in Publishers : pc'[q] # "idle" => pc[q] # "idle"
    BY <2>1
  <2> QED
    BY <1>2, <2>1, <2>3, <2>5, <2>6, <2>7, <2>8 DEF StatusInv, SnapHost
<1>4. CASE FillServices(p)
  <2>1. /\ UNCHANGED <<latest, catalogs, now, delStep, delHost, raced>>
        /\ pc[p] = "services" /\ pc' = [pc EXCEPT ![p] = "latest"]
        /\ \A q \in Publishers : q # p => snap'[q] = snap[q]
        /\ snap'[p].host = HostOf[p] /\ snap'[p].ts = snap[p].ts
        /\ snap'[p].svc = IF snap[p].svc = NoStatus THEN DeriveServices(HostOf[p]) ELSE snap[p].svc
    BY <1>4 DEF FillServices, notPublish, clockVars, deleteVars, historyVars, cacheVars, StatusInv, SnapHost
  <2>2. \A h \in Hosts : DeriveServices(h)' = DeriveServices(h)
    BY <2>1, DeriveSame
  <2>3. ASSUME NEW q \in Publishers, HostOf[q] = HubHost, pc'[q] \in Early \cup {"latest"}
        PROVE  snap'[q].svc = snap'[q].ts /\ snap'[q].ts >= 1
    BY <2>1, <2>3 DEF StatusInv, Early, NoStatus
  <2>4. ASSUME NEW q \in Publishers, HostOf[q] # HubHost
        PROVE  /\ pc'[q] \in Early => snap'[q].svc = NoStatus
               /\ pc'[q] = "latest" /\ HostOf[q] \notin raced => snap'[q].svc = DeriveServices(HostOf[q])'
    BY <2>1, <2>2, <2>4 DEF StatusInv, Early
  <2>5. \A q \in Publishers : snap'[q].host = HostOf[q] /\ snap'[q].ts = snap[q].ts
    BY <2>1 DEF StatusInv, SnapHost
  <2>6. \A q \in Publishers : pc'[q] # "idle" => pc[q] # "idle"
    BY <2>1
  <2> QED
    BY <1>2, <2>1, <2>2, <2>3, <2>4, <2>5, <2>6 DEF StatusInv, SnapHost
<1>5. CASE SetLatest(p)
  <2>1. /\ UNCHANGED <<snap, catalogs, now, delStep, delHost, raced>>
        /\ pc[p] = "latest" /\ pc' = [pc EXCEPT ![p] = "insert"]
        /\ latest' = {x \in latest : x.host # HostOf[p]} \cup {snap[p]}
        /\ snap[p].host = HostOf[p]
    BY <1>5 DEF SetLatest, Put, notPublish, clockVars, deleteVars, historyVars, StatusInv, SnapHost
  <2>2. \A h \in Hosts : DeriveServices(h)' = DeriveServices(h)
    BY <2>1, DeriveSame
  <2>3. InFlight(HostOf[p])
    BY <2>1 DEF InFlight
  <2>4. \A m \in latest', q \in Publishers : m.host = HubHost /\ HostOf[q] = HubHost => m.svc <= snap[q].ts
    BY <2>1 DEF StatusInv, OnePublisherPerHost
  <2>5. ASSUME NEW m \in latest', m.host # HubHost, m.host \notin raced
        PROVE  /\ m.svc <= DeriveServices(m.host)' \/ Clearing(m.host)
               /\ ~(delStep = "layout" /\ delHost = m.host)
    <3>1. CASE m = snap[p]
      BY <1>0, <2>1, <2>2, <2>3, <2>5, <3>1 DEF StatusInv
    <3>2. CASE m \in latest
      BY <2>2, <2>5, <3>2 DEF StatusInv
    <3> QED
      BY <2>1, <3>1, <3>2
  <2>6. \A q \in Publishers : /\ pc'[q] # "idle" => pc[q] # "idle"
                              /\ pc'[q] \in Early \cup {"latest"} => pc'[q] = pc[q]
    BY <2>1 DEF Early
  <2>7. \A m, n \in latest' : m.host = n.host => m = n
    BY <2>1 DEF StatusInv
  <2> QED
    BY <1>2, <2>1, <2>2, <2>4, <2>5, <2>6, <2>7 DEF StatusInv, SnapHost
<1>6. CASE \/ CacheContainers(p) \/ Insert(p) \/ CheckDisk(p) \/ SetDiskAt(p) \/ InsertDisks(p)
           \/ FanOut(p) \/ Return(p) \/ \E b \in Browsers : TryWrite(p, b)
  <2>1. UNCHANGED <<snap, latest, catalogs, now, delStep, delHost, raced>>
    BY <1>6 DEF CacheContainers, Insert, CheckDisk, SetDiskAt, DiskAtBecomes, InsertDisks, FanOut, FanOutTo,
       Return, TryWrite, Write, notPublish, clockVars, deleteVars, historyVars, cacheVars
  <2>2. \A q \in Publishers :
            /\ pc'[q] # "idle" => pc[q] # "idle"
            /\ pc'[q] \in Early => pc[q] \in Early
            /\ pc'[q] = "latest" => pc[q] = "latest"
    <3>1. CASE CacheContainers(p) \/ Insert(p) \/ CheckDisk(p)
      BY <3>1 DEF CacheContainers, Insert, CheckDisk, Early
    <3>2. CASE SetDiskAt(p) \/ InsertDisks(p) \/ FanOut(p) \/ Return(p)
      BY <3>2 DEF SetDiskAt, DiskAtBecomes, InsertDisks, FanOut, FanOutTo, Return, Early
    <3>3. CASE \E b \in Browsers : TryWrite(p, b)
      BY <3>3 DEF TryWrite, Write
    <3> QED
      BY <1>6, <3>1, <3>2, <3>3
  <2>3. \A h \in Hosts : DeriveServices(h)' = DeriveServices(h)
    BY <2>1, DeriveSame
  <2> QED
    BY <1>2, <2>1, <2>2, <2>3 DEF StatusInv, SnapHost
<1> QED
  BY <1>1, <1>3, <1>4, <1>5, <1>6 DEF Publish

LEMMA StatusOthers ==
    ASSUME StatusTypes, StatusInv, [Next]_vars, ~ \E p \in Publishers : Receive(p) \/ Publish(p)
    PROVE  StatusInv'
<1> USE DEF StatusTypes
<1>1. CASE DeleteDiskRows
  <2>1. /\ UNCHANGED <<pc, snap, latest, catalogs, now, delHost>>
        /\ delStep = "diskrows" /\ delStep' = "catalogs"
        /\ raced' = IF InFlight(delHost) THEN raced \cup {delHost} ELSE raced \ {delHost}
    BY <1>1 DEF DeleteDiskRows, publisherVars, cacheVars, clockVars
  <2>2. \A h \in Hosts : /\ DeriveServices(h)' = DeriveServices(h)
                         /\ InFlight(h)' <=> InFlight(h)
                         /\ Clearing(h)' <=> h = delHost
                         /\ ~Clearing(h)
                         /\ h # delHost => (h \in raced' <=> h \in raced)
    BY <2>1, DeriveSame DEF InFlight, Clearing
  <2>3. ASSUME NEW p \in Publishers, pc[p] = "latest", HostOf[p] \notin raced' PROVE HostOf[p] \notin raced
    BY <2>1, <2>3 DEF InFlight
  <2>4. ASSUME NEW m \in latest, m.host # HubHost, m.host \notin raced'
        PROVE  m.svc <= DeriveServices(m.host)' \/ Clearing(m.host)'
    BY <2>2, <2>4 DEF StatusInv
  <2>5. \A h \in Hosts : Clearing(h)' /\ h \notin raced' => ~InFlight(h)'
    BY <2>1, <2>2
  <2> QED
    BY <2>1, <2>2, <2>3, <2>4, <2>5 DEF StatusInv, SnapHost
<1>2. CASE Forget
  <2>1. /\ UNCHANGED <<pc, snap, now, delHost, raced>>
        /\ latest' \subseteq latest
        /\ \/ /\ Clearing(delHost) /\ Clearing(delHost)'
              /\ catalogs' = catalogs \/ catalogs' = {x \in catalogs : x.host # delHost}
              /\ delStep' # "layout"
           \/ /\ Clearing(delHost) /\ catalogs' = catalogs /\ latest' = {x \in latest : x.host # delHost}
              /\ delStep' = "layout"
    BY <1>2 DEF Forget, ForgetCatalog, ForgetContainers, ForgetDiskAt, ForgetLatest, LatestBecomes, Drop,
       Clearing, notForget, publisherVars, historyVars, clockVars
  <2>2. \A h \in Hosts : h # delHost => DeriveServices(h)' = DeriveServices(h)
    BY <2>1, DeriveSame
  <2>3. \A h \in Hosts : /\ InFlight(h)' <=> InFlight(h)
                         /\ Clearing(h)' => Clearing(h)
                         /\ Clearing(h) => h = delHost
    BY <2>1 DEF InFlight, Clearing
  <2>4. delHost \notin raced => ~InFlight(delHost)
    BY <2>1 DEF StatusInv
  <2>5. ASSUME NEW p \in Publishers, HostOf[p] # HubHost, pc[p] = "latest", HostOf[p] \notin raced
        PROVE  snap[p].svc = DeriveServices(HostOf[p])'
    <3>1. HostOf[p] # delHost
      BY <2>4, <2>5 DEF InFlight
    <3> QED
      BY <2>2, <2>5, <3>1 DEF StatusInv
  <2>6. ASSUME NEW m \in latest', m.host # HubHost, m.host \notin raced
        PROVE  /\ m.svc <= DeriveServices(m.host)' \/ Clearing(m.host)'
               /\ ~(delStep' = "layout" /\ delHost = m.host)
    <3>1. CASE m.host = delHost
      BY <2>1, <3>1
    <3>2. CASE m.host # delHost
      <4>1. m.svc <= DeriveServices(m.host)
        BY <2>1, <2>3, <2>6, <3>2 DEF StatusInv
      <4> QED
        BY <2>1, <2>2, <3>2, <4>1
    <3> QED
      BY <3>1, <3>2
  <2>7. \A e \in catalogs' : e \in catalogs
    BY <2>1
  <2> QED
    BY <2>1, <2>3, <2>4, <2>5, <2>6, <2>7 DEF StatusInv, SnapHost
<1>3. CASE DeleteLayout
  <2>1. /\ UNCHANGED <<pc, snap, latest, catalogs, now, delHost, raced>>
        /\ delStep = "layout" /\ delStep' = "idle"
    BY <1>3 DEF DeleteLayout, publisherVars, cacheVars, historyVars, clockVars
  <2>2. \A h \in Hosts : DeriveServices(h)' = DeriveServices(h) /\ ~Clearing(h)' /\ ~Clearing(h)
    BY <2>1, DeriveSame DEF Clearing
  <2> QED
    BY <2>1, <2>2 DEF StatusInv, SnapHost
<1>4. CASE Restart
  <2>1. /\ UNCHANGED <<snap, now, raced>>
        /\ latest' = {} /\ catalogs' = {} /\ delStep' = "idle"
        /\ \A p \in Publishers : pc'[p] = "idle"
    BY <1>4 DEF Restart, historyVars
  <2> QED
    BY <2>1 DEF StatusInv, SnapHost, Early, Clearing
<1>5. ASSUME /\ UNCHANGED <<pc, snap, latest, catalogs, raced>>
             /\ now' >= 1
             /\ UNCHANGED <<delStep, delHost>> \/ (delStep = "idle" /\ delStep' = "diskrows")
      PROVE  StatusInv'
  <2>1. \A h \in Hosts : /\ DeriveServices(h)' = DeriveServices(h)
                         /\ Clearing(h)' <=> Clearing(h)
                         /\ InFlight(h)' <=> InFlight(h)
    BY <1>5, DeriveSame DEF Clearing, InFlight
  <2>2. delStep' = "layout" => delStep = "layout" /\ delHost' = delHost
    BY <1>5
  <2> QED
    BY <1>5, <2>1, <2>2 DEF StatusInv, SnapHost
<1>6. now' >= 1
  <2>1. now' = now \/ now' = now + 1
    BY DEF Next, Tick, DeleteSamples, DeleteRest, DeleteDiskRows, Forget, ForgetCatalog, ForgetContainers,
       ForgetDiskAt, ForgetLatest, LatestBecomes, DeleteLayout, SaveLayout, Prune, PruneStart, PruneBefore,
       PruneSamples, SamplesBecome, PruneDiskRows, Subscribe, Deliver, StartPriming, PrimeWith, PrimeOne,
       Primed, Drain, Disconnect, Restart, notForget, notPrune, notStream, clockVars, vars
  <2> QED
    BY <2>1 DEF StatusInv
<1>7. ASSUME NEW h \in Deletable, DeleteSamples(h) PROVE StatusInv'
  BY <1>5, <1>6, <1>7 DEF DeleteSamples, publisherVars, cacheVars
<1>8. CASE Tick \/ \E h \in Hosts : SaveLayout(h)
  BY <1>5, <1>6, <1>8 DEF Tick, SaveLayout, publisherVars, cacheVars, deleteVars, historyVars
<1>9. CASE Prune
  BY <1>5, <1>6, <1>9 DEF Prune, PruneStart, PruneBefore, PruneSamples, SamplesBecome, PruneDiskRows,
     notPrune, publisherVars, cacheVars, deleteVars, historyVars
<1>10. ASSUME NEW b \in Browsers, Subscribe(b) \/ Deliver(b) \/ Disconnect(b) PROVE StatusInv'
  BY <1>5, <1>6, <1>10 DEF Subscribe, Deliver, StartPriming, PrimeWith, PrimeOne, Primed, Drain,
     Disconnect, notStream, publisherVars, cacheVars, deleteVars, historyVars
<1>11. CASE UNCHANGED vars
  BY <1>5, <1>6, <1>11 DEF vars, publisherVars, cacheVars, deleteVars, historyVars
<1> QED
  BY <1>1, <1>2, <1>3, <1>4, <1>7, <1>8, <1>9, <1>10, <1>11 DEF Next, DeleteRest

(* Only a publisher replaces the latest snapshot of a host, by its own.    *)
LEMMA StatusReplaced ==
    ASSUME OnePublisherPerHost, StatusTypes, StatusInv, [Next]_vars,
           NEW m \in latest, NEW n \in latest', m.host = n.host,
           ~Deleting(m.host), m.host \notin raced
    PROVE  n.svc >= m.svc
<1> USE DEF StatusTypes
<1>1. CASE latest' \subseteq latest
  <2>1. n = m
    BY <1>1 DEF StatusInv
  <2> QED
    BY <2>1
<1>2. ASSUME NEW p \in Publishers, SetLatest(p) PROVE n.svc >= m.svc
  <2>1. /\ pc[p] = "latest" /\ latest' = {x \in latest : x.host # HostOf[p]} \cup {snap[p]}
        /\ snap[p].host = HostOf[p]
    BY <1>2 DEF SetLatest, Put, At, StatusInv, SnapHost
  <2>2. CASE m.host # HostOf[p]
    <3>1. n = m
      BY <2>1, <2>2 DEF StatusInv
    <3> QED
      BY <3>1
  <2>3. CASE m.host = HostOf[p]
    <3>1. n = snap[p]
      BY <2>1, <2>3
    <3>2. CASE m.host = HubHost
      BY <2>1, <2>3, <3>1, <3>2 DEF StatusInv
    <3>3. CASE m.host # HubHost
      <4>1. snap[p].svc = DeriveServices(m.host)
        BY <2>1, <2>3, <3>3 DEF StatusInv
      <4>2. ~Clearing(m.host)
        BY DEF Clearing, Deleting
      <4>3. m.svc <= DeriveServices(m.host)
        BY <3>3, <4>2 DEF StatusInv
      <4> QED
        BY <3>1, <4>1, <4>3
    <3> QED
      BY <3>2, <3>3
  <2> QED
    BY <2>2, <2>3
<1>3. ASSUME NEW p \in Publishers, Receive(p) \/ Publish(p), ~SetLatest(p) PROVE latest' \subseteq latest
  BY <1>3 DEF Receive, Accept, Publish, CacheCatalog, CatalogBecomes, CacheContainers, FillServices, Insert,
     CheckDisk, SetDiskAt, DiskAtBecomes, InsertDisks, FanOut, FanOutTo, Return, TryWrite, Write, cacheVars
<1>4. ASSUME ~ \E p \in Publishers : Receive(p) \/ Publish(p) PROVE latest' \subseteq latest
  BY <1>4 DEF Next, Tick, DeleteSamples, DeleteRest, DeleteDiskRows, Forget, ForgetCatalog,
     ForgetContainers, ForgetDiskAt, ForgetLatest, LatestBecomes, Drop, DeleteLayout, SaveLayout, Prune,
     PruneStart, PruneBefore, PruneSamples, SamplesBecome, PruneDiskRows, Subscribe, Deliver, StartPriming,
     PrimeWith, PrimeOne, Primed, Drain, Disconnect, Restart, notForget, notPrune, notStream, cacheVars, vars
<1> QED
  BY <1>1, <1>2, <1>3, <1>4

(* The service status that a host shows never falls back to an older       *)
(* catalog or to "unknown" if the host pushes one snapshot at a time, for  *)
(* any number of hosts, and whichever of their snapshots carry a catalog;  *)
(* a host that is being removed, or was while it pushed, is excused.       *)
THEOREM StatusAdvances ==
    ASSUME OnePublisherPerHost, ClocksForward
    PROVE  Spec => StatusNeverRegresses
<1>1. Init => StatusInv
  BY HubAssumption DEF Init, StatusInv, SnapHost, Early, Clearing, ClocksForward
<1>2. TypeInv /\ StatusInv /\ [Next]_vars => StatusInv'
  BY StatusTyped, StatusPublish, StatusOthers
<1>3. TypeInv /\ StatusInv /\ [Next]_vars =>
          [\A m \in latest, n \in latest' :
               m.host = n.host =>
                   n.svc >= m.svc \/ Deleting(m.host) \/ m.host \in raced]_vars
  BY StatusTyped, StatusReplaced
<1> QED
  BY <1>1, <1>2, <1>3, TypeInvariant, PTL DEF Spec, StatusNeverRegresses
=============================================================================

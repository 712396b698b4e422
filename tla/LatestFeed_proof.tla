-------------------------- MODULE LatestFeed_proof --------------------------
(* MetricsHub implements LatestFeed: what a dashboard is promised holds    *)
(* for any number of hosts, publishers and browsers and any capacity.      *)
EXTENDS MetricsHub_proof

(* m waits in the channel of b.                                            *)
Waits(b, m) == \E i \in 1..Len(queue[b]) : queue[b][i] = m

(* What b shows or will be primed with, or is latest.                      *)
Known(b) == view[b] \cup prime[b] \cup latest

(* Steps of Publish before the latest snapshot is set.                     *)
BeforeLatest == {"catalog", "containers", "services", "latest"}

(* A publisher carries nothing earlier than the latest snapshot of its     *)
(* host or than what a browser knows, and something later until it has set *)
(* the latest snapshot.                                                    *)
Carries(p, y) ==
    y.host = HostOf[p] =>
        /\ y.ts <= snap[p].ts
        /\ pc[p] \in BeforeLatest => y.ts < snap[p].ts

CarriesNewest ==
    \A p \in Publishers :
        /\ \A y \in latest : Carries(p, y)
        /\ \A b \in Browsers : \A y \in Known(b) : Carries(p, y)

(* Nothing is later than the latest snapshot of its host ...               *)
LatestIsLast ==
    \A m \in latest, b \in Browsers : \A y \in view[b] \cup prime[b] :
        y.host = m.host => y.ts <= m.ts

LatestIsLastWaiting ==
    \A m \in latest, b \in Browsers : \A i \in 1..Len(queue[b]) :
        queue[b][i].host = m.host => queue[b][i].ts <= m.ts

(* ... and priming takes no browser back.                                  *)
PrimingAdvances ==
    \A b \in Browsers : \A x \in prime[b], y \in view[b] : x.host = y.host => y.ts <= x.ts

(* Whatever is newer than a snapshot that waits, waits as well.            *)
NewerIsBehind ==
    \A b \in Open : \A y \in Known(b), i \in 1..Len(queue[b]) :
        queue[b][i].host = y.host /\ queue[b][i].ts < y.ts
            => StillToWrite(b, y) \/ Waits(b, y)

FallInv ==
    CarriesNewest /\ LatestIsLast /\ LatestIsLastWaiting /\ PrimingAdvances /\ NewerIsBehind

-----------------------------------------------------------------------------
(* The steps that no browser hears of.                                     *)

Quiet ==
    /\ UNCHANGED <<latest, conn, queue, prime, view>>
    /\ \A b \in Open : \A m : StillToWrite(b, m)' <=> StillToWrite(b, m)
    /\ \A q \in Publishers :
           /\ snap[q].ts <= snap'[q].ts
           /\ pc'[q] \in BeforeLatest => pc[q] \in BeforeLatest \/ snap[q].ts < snap'[q].ts

StreamStep(b) == Subscribe(b) \/ Deliver(b) \/ Disconnect(b)

LEMMA QuietPublish ==
    ASSUME TypeInv, NEW p \in Publishers,
           \/ Receive(p) \/ CacheCatalog(p) \/ CacheContainers(p) \/ FillServices(p)
           \/ Insert(p) \/ CheckDisk(p) \/ SetDiskAt(p) \/ InsertDisks(p) \/ FanOut(p) \/ Return(p)
    PROVE  Quiet
<1>0. /\ FeedTypes /\ now \in Nat /\ Skew \in [Hosts -> Int] /\ HostOf[p] \in Hosts
      /\ \A q \in Publishers : snap[q].ts \in Int
  BY HubAssumption, FeedTyped DEF TypeInv, TypeOK, FeedTypes, Snapshot
<1> USE <1>0 DEF FeedTypes, At, Goto
<1>1. UNCHANGED <<latest, conn, queue, prime, view>>
  BY DEF Receive, Accept, CacheCatalog, CatalogBecomes, CacheContainers, FillServices,
     Insert, CheckDisk, SetDiskAt, DiskAtBecomes, InsertDisks, FanOut, FanOutTo, Return, streamVars,
     cacheVars
<1>2. ASSUME NEW q \in Publishers, q # p
      PROVE  snap'[q] = snap[q] /\ pc'[q] = pc[q] /\ fan'[q] = fan[q]
  BY <1>2 DEF Receive, Accept, CacheCatalog, CatalogBecomes, CacheContainers, FillServices,
     Insert, CheckDisk, SetDiskAt, DiskAtBecomes, InsertDisks, FanOut, FanOutTo, Return
<1> DEFINE Writes(b) == \/ pc[p] \in {"insert", "disk", "diskset", "diskrow", "fanout"}
                        \/ pc[p] = "write" /\ b \in fan[p]
<1>3. /\ \A b \in Open : Writes(b)' <=> Writes(b)
      /\ snap'[p] = snap[p] \/ \A b \in Open : ~Writes(b) /\ ~Writes(b)'
      /\ snap[p].ts <= snap'[p].ts
      /\ pc'[p] \in BeforeLatest => pc[p] \in BeforeLatest \/ snap[p].ts < snap'[p].ts
  <2>1. CASE Receive(p)
    BY <2>1 DEF Receive, Accept
  <2>2. CASE FillServices(p)
    BY <2>2 DEF FillServices, BeforeLatest
  <2>3. CASE CacheCatalog(p) \/ CacheContainers(p)
    BY <2>3 DEF CacheCatalog, CatalogBecomes, CacheContainers, BeforeLatest
  <2>4. CASE Insert(p) \/ CheckDisk(p) \/ SetDiskAt(p) \/ InsertDisks(p)
    BY <2>4 DEF Insert, CheckDisk, SetDiskAt, DiskAtBecomes, InsertDisks, BeforeLatest
  <2>5. CASE FanOut(p)
    BY <2>5 DEF FanOut, FanOutTo, Open, BeforeLatest
  <2>6. CASE Return(p)
    BY <2>6 DEF Return, BeforeLatest
  <2> QED BY <2>1, <2>2, <2>3, <2>4, <2>5, <2>6
<1>4. ASSUME NEW b \in Open, NEW m PROVE StillToWrite(b, m)' <=> StillToWrite(b, m)
  BY <1>2, <1>3 DEF StillToWrite
<1> QED BY <1>1, <1>2, <1>3, <1>4 DEF Quiet

LEMMA QuietOthers ==
    ASSUME TypeInv,
           \/ Tick \/ DeleteDiskRows \/ ForgetCatalog \/ ForgetContainers \/ ForgetDiskAt
           \/ DeleteLayout \/ Prune \/ UNCHANGED vars
           \/ \E h \in Deletable : DeleteSamples(h)
           \/ \E h \in Hosts : SaveLayout(h)
    PROVE  Quiet
<1>1. UNCHANGED <<latest, conn, queue, prime, view, pc, snap, fan>>
  BY DEF Tick, DeleteDiskRows, ForgetCatalog, ForgetContainers, ForgetDiskAt, DeleteLayout,
     DeleteSamples, SaveLayout, Prune, PruneStart, PruneBefore, PruneSamples, SamplesBecome,
     PruneDiskRows, notForget, notPrune, vars, publisherVars, cacheVars, streamVars
<1>2. \A q \in Publishers : snap[q].ts <= snap'[q].ts
  BY <1>1 DEF TypeInv, TypeOK, Snapshot
<1> QED BY <1>1, <1>2 DEF Quiet, StillToWrite

(* Every step is quiet or one of ten.                                      *)
LEMMA QuietOrTold ==
    ASSUME TypeInv, [Next]_vars
    PROVE  \/ Quiet
           \/ \E p \in Publishers : SetLatest(p) \/ \E b \in Browsers : TryWrite(p, b)
           \/ \E b \in Browsers : StreamStep(b)
           \/ ForgetLatest \/ Restart
<1>1. ASSUME NEW p \in Publishers, Receive(p) \/ Publish(p)
      PROVE  Quiet \/ SetLatest(p) \/ \E b \in Browsers : TryWrite(p, b)
  BY <1>1, QuietPublish DEF Publish
<1>2. CASE ~ \E p \in Publishers : Receive(p) \/ Publish(p)
  BY <1>2, QuietOthers DEF Next, DeleteRest, Forget, StreamStep
<1> QED BY <1>1, <1>2

(* What was published goes on to be owed through a quiet step.             *)
LEMMA FallQuiet == FeedTypes /\ FeedTypes' /\ FallInv /\ Quiet => FallInv'
<1> SUFFICES ASSUME FeedTypes, FeedTypes', FallInv, Quiet PROVE FallInv'
  OBVIOUS
<1>1. UNCHANGED <<latest, conn, queue, prime, view>>
  BY DEF Quiet
<1>2. LatestIsLast' /\ LatestIsLastWaiting' /\ PrimingAdvances'
  BY <1>1 DEF FallInv, LatestIsLast, LatestIsLastWaiting, PrimingAdvances
<1>3. CarriesNewest'
  <2>1. ASSUME NEW p \in Publishers, NEW y \in Snapshot, Carries(p, y) PROVE Carries(p, y)'
    <3>1. y.ts \in Int /\ snap[p].ts \in Int /\ snap'[p].ts \in Int
      BY DEF FeedTypes, Snapshot
    <3> QED BY <2>1, <3>1 DEF Quiet, Carries
  <2>2. latest \subseteq Snapshot /\ \A b \in Browsers : Known(b) \subseteq Snapshot
    BY DEF FeedTypes, Known
  <2> QED BY <1>1, <2>1, <2>2 DEF FallInv, CarriesNewest, Known
<1>4. NewerIsBehind'
  BY <1>1 DEF FallInv, NewerIsBehind, Quiet, Known, Open, Waits
<1> QED BY <1>2, <1>3, <1>4 DEF FallInv

-----------------------------------------------------------------------------
(* The steps that matter keep what was known in order.                     *)

(* The latest snapshot is set: it is later than all that was known, and    *)
(* its publisher has yet to write it to every open stream.                 *)
LEMMA FallSetLatest ==
    ASSUME OnePublisherPerHost, FeedTypes, FeedInv, OrderInv, FallInv,
           NEW p \in Publishers, SetLatest(p)
    PROVE  FallInv'
<1>1. /\ UNCHANGED <<snap, fan, conn, queue, prime, view>>
      /\ latest' = Put(latest, snap[p])
      /\ pc[p] = "latest" /\ pc' = [pc EXCEPT ![p] = "insert"]
  BY DEF SetLatest, At, Goto, streamVars
<1>2. /\ snap[p] \in Snapshot /\ snap[p].host = HostOf[p] /\ snap[p].ts \in Int
      /\ pc'[p] = "insert"
  BY <1>1 DEF FeedTypes, FeedInv, SnapHost, Snapshot
<1>3. \A m \in latest' : m = snap[p] \/ (m \in latest /\ m.host # snap[p].host)
  BY <1>1 DEF Put
<1>4. CarriesNewest'
  <2>1. ASSUME NEW q \in Publishers PROVE Carries(q, snap[p])'
    <3>1. CASE HostOf[q] = HostOf[p]
      BY <1>1, <1>2, <3>1 DEF OnePublisherPerHost, Carries, BeforeLatest
    <3> QED BY <1>1, <1>2, <3>1 DEF Carries
  <2>2. ASSUME NEW q \in Publishers, NEW y, Carries(q, y) PROVE Carries(q, y)'
    <3>1. pc'[q] \in BeforeLatest => pc[q] \in BeforeLatest
      BY <1>1, <1>2 DEF FeedTypes, BeforeLatest
    <3> QED BY <1>1, <2>2, <3>1 DEF Carries
  <2> QED BY <1>1, <1>3, <2>1, <2>2 DEF FallInv, CarriesNewest, Known
<1>5. LatestIsLast'
  <2> SUFFICES ASSUME NEW m \in latest', NEW b \in Browsers, NEW y \in view[b] \cup prime[b],
                      y.host = m.host
               PROVE  y.ts <= m.ts
    BY <1>1 DEF LatestIsLast
  <2>1. CASE m = snap[p]
    BY <1>2, <2>1 DEF FallInv, CarriesNewest, Known, Carries
  <2>2. CASE m \in latest
    BY <2>2 DEF FallInv, LatestIsLast
  <2> QED BY <1>3, <2>1, <2>2
<1>6. LatestIsLastWaiting'
  <2> SUFFICES ASSUME NEW m \in latest', NEW b \in Browsers, NEW i \in 1..Len(queue[b]),
                      queue[b][i].host = m.host
               PROVE  queue[b][i].ts <= m.ts
    BY <1>1 DEF LatestIsLastWaiting
  <2>1. CASE m = snap[p]
    BY <1>2, <2>1 DEF OrderInv, Behind
  <2>2. CASE m \in latest
    BY <2>2 DEF FallInv, LatestIsLastWaiting
  <2> QED BY <1>3, <2>1, <2>2
<1>7. PrimingAdvances'
  BY <1>1 DEF FallInv, PrimingAdvances
<1>8. NewerIsBehind'
  <2> SUFFICES ASSUME NEW b \in Open, NEW y \in Known(b)', NEW i \in 1..Len(queue[b]),
                      queue[b][i].host = y.host, queue[b][i].ts < y.ts
               PROVE  StillToWrite(b, y)' \/ Waits(b, y)
    BY <1>1 DEF NewerIsBehind, Open, Waits
  <2>1. CASE y = snap[p]
    BY <1>1, <1>2, <2>1 DEF StillToWrite
  <2>2. CASE y \in Known(b)
    <3>1. StillToWrite(b, y) \/ Waits(b, y)
      BY <2>2 DEF FallInv, NewerIsBehind
    <3>2. StillToWrite(b, y) => StillToWrite(b, y)'
      BY <1>1, <1>2 DEF StillToWrite, FeedTypes
    <3> QED BY <3>1, <3>2
  <2> QED BY <1>1, <1>3, <2>1, <2>2 DEF Known
<1> QED BY <1>4, <1>5, <1>6, <1>7, <1>8 DEF FallInv

(* What a full channel leaves of its snapshots, and what a write makes.    *)
Left(c) == IF Len(queue[c]) >= Capacity THEN Tail(queue[c]) ELSE queue[c]

LEMMA Written ==
    ASSUME FeedTypes, FeedInv, NEW p \in Publishers, NEW c \in Browsers, TryWrite(p, c)
    PROVE  /\ UNCHANGED <<latest, pc, snap, conn, prime, view>>
           /\ pc[p] = "write" /\ c \in fan[p] /\ fan' = [fan EXCEPT ![p] = @ \ {c}]
           /\ queue' = [queue EXCEPT ![c] = Append(Left(c), snap[p])]
           /\ Left(c) \in Seq(Snapshot) /\ Len(Left(c)) \in Nat
           /\ Len(queue'[c]) = Len(Left(c)) + 1 /\ queue'[c][Len(Left(c)) + 1] = snap[p]
           /\ \A i \in 1..Len(Left(c)) : queue'[c][i] = Left(c)[i]
           /\ IF Len(queue[c]) >= Capacity
              THEN /\ Len(queue[c]) = Len(Left(c)) + 1
                   /\ \A i \in 1..Len(Left(c)) : Left(c)[i] = queue[c][i + 1]
              ELSE Left(c) = queue[c]
<1>1. /\ UNCHANGED <<latest, pc, snap, conn, prime, view>>
      /\ pc[p] = "write" /\ c \in fan[p] /\ fan' = [fan EXCEPT ![p] = @ \ {c}]
      /\ queue' = [queue EXCEPT ![c] = Append(Left(c), snap[p])]
  BY DEF TryWrite, Write, At, cacheVars, Left
<1>2. queue[c] \in Seq(Snapshot) /\ snap[p] \in Snapshot /\ Capacity \in Nat \ {0}
  BY HubAssumption DEF FeedTypes
<1>3. /\ Left(c) \in Seq(Snapshot) /\ Len(Left(c)) \in Nat
      /\ IF Len(queue[c]) >= Capacity
         THEN /\ Len(queue[c]) = Len(Left(c)) + 1
              /\ \A i \in 1..Len(Left(c)) : Left(c)[i] = queue[c][i + 1]
         ELSE Left(c) = queue[c]
  <2>1. CASE Len(queue[c]) >= Capacity
    <3>1. queue[c] # <<>>
      BY <1>2, <2>1
    <3> QED BY <1>2, <2>1, <3>1 DEF Left
  <2>2. CASE ~(Len(queue[c]) >= Capacity)
    BY <1>2, <2>2 DEF Left
  <2> QED BY <2>1, <2>2
<1>4. queue'[c] = Append(Left(c), snap[p])
  BY <1>1 DEF FeedTypes
<1>5. /\ Len(queue'[c]) = Len(Left(c)) + 1 /\ queue'[c][Len(Left(c)) + 1] = snap[p]
      /\ \A i \in 1..Len(Left(c)) : queue'[c][i] = Left(c)[i]
  BY <1>2, <1>3, <1>4
<1> QED BY <1>1, <1>3, <1>5

(* A write: the snapshot is the last of its host in the channel, and what  *)
(* is dropped was followed by all that waits.                              *)
LEMMA FallWrite ==
    ASSUME OnePublisherPerHost, FeedTypes, FeedInv, OrderInv, FallInv,
           NEW p \in Publishers, NEW c \in Browsers, TryWrite(p, c)
    PROVE  FallInv'
<1> DEFINE n == Len(Left(c))
           k == IF Len(queue[c]) >= Capacity THEN 1 ELSE 0
<1>1. /\ UNCHANGED <<latest, pc, snap, conn, prime, view>>
      /\ pc[p] = "write" /\ c \in fan[p] /\ fan' = [fan EXCEPT ![p] = @ \ {c}]
      /\ \A b \in Browsers : b # c => queue'[b] = queue[b]
      /\ n \in Nat /\ Len(queue'[c]) = n + 1 /\ queue'[c][n + 1] = snap[p]
  BY Written DEF FeedTypes
<1>2. k \in {0, 1} /\ Len(queue[c]) = n + k
  BY Written
<1>3. \A i \in 1..n : i + k \in 1..Len(queue[c]) /\ queue'[c][i] = queue[c][i + k]
  BY Written, <1>1, <1>2
<1>4. /\ snap[p] \in Snapshot /\ snap[p].host = HostOf[p] /\ snap[p].ts \in Int
      /\ \A b \in Browsers : \A y \in Known(b) : y \in Snapshot /\ y.ts \in Int
      /\ \A b \in Browsers : \A i \in 1..Len(queue[b]) : queue[b][i].ts \in Int
  <2>1. \A b \in Browsers : queue[b] \in Seq(Snapshot)
    BY DEF FeedTypes
  <2>2. \A b \in Browsers : \A i \in 1..Len(queue[b]) : queue[b][i] \in Snapshot
    BY <2>1
  <2> QED BY <2>2 DEF FeedTypes, FeedInv, SnapHost, Snapshot, Known
<1> HIDE DEF n, k
<1>5. CarriesNewest' /\ LatestIsLast' /\ PrimingAdvances'
  BY <1>1 DEF FallInv, CarriesNewest, Carries, LatestIsLast, PrimingAdvances, Known
<1>6. LatestIsLastWaiting'
  <2> SUFFICES ASSUME NEW m \in latest, NEW i \in 1..(n + 1), queue'[c][i].host = m.host
               PROVE  queue'[c][i].ts <= m.ts
    BY <1>1 DEF FallInv, LatestIsLastWaiting
  <2>1. CASE i = n + 1
    <3>1. m = snap[p]
      BY <1>1, <1>4, <2>1 DEF FeedInv, AfterLatest
    <3> QED BY <1>1, <1>4, <2>1, <3>1
  <2>2. CASE i \in 1..n
    BY <1>3, <2>2 DEF FallInv, LatestIsLastWaiting
  <2> QED BY <1>1, <2>1, <2>2
<1>7. NewerIsBehind'
  <2> SUFFICES ASSUME NEW b \in Open, NEW y \in Known(b), NEW i \in 1..Len(queue'[b]),
                      queue'[b][i].host = y.host, queue'[b][i].ts < y.ts
               PROVE  StillToWrite(b, y)' \/ Waits(b, y)'
    BY <1>1 DEF NewerIsBehind, Open, Known
  <2>0. b \in Browsers
    BY DEF Open
  <2>1. CASE b # c
    <3>1. StillToWrite(b, y) \/ Waits(b, y)
      BY <1>1, <2>0, <2>1 DEF FallInv, NewerIsBehind
    <3>2. StillToWrite(b, y) => StillToWrite(b, y)'
      BY <1>1, <2>1 DEF StillToWrite, FeedTypes
    <3> QED BY <1>1, <2>0, <2>1, <3>1, <3>2 DEF Waits
  <2>2. CASE b = c
    <3>1. i # n + 1
      <4> SUFFICES ASSUME i = n + 1 PROVE FALSE
        OBVIOUS
      <4>1. y.host = HostOf[p] /\ snap[p].ts < y.ts
        BY <1>1, <1>4, <2>2
      <4> QED BY <1>4, <2>0, <4>1 DEF FallInv, CarriesNewest, Carries
    <3>2. i \in 1..n
      BY <1>1, <2>2, <3>1
    <3>3. /\ i + k \in 1..Len(queue[c])
          /\ queue[c][i + k].host = y.host /\ queue[c][i + k].ts < y.ts
      BY <1>3, <2>2, <3>2
    <3>4. StillToWrite(c, y) \/ Waits(c, y)
      BY <2>2, <3>3 DEF FallInv, NewerIsBehind
    <3>5. CASE y = snap[p]
      BY <1>1, <2>2, <3>5 DEF Waits
    <3>6. CASE y # snap[p] /\ StillToWrite(c, y)
      BY <1>1, <2>2, <3>6 DEF StillToWrite, FeedTypes
    <3>7. CASE Waits(c, y)
      <4>1. PICK j \in 1..Len(queue[c]) : queue[c][j] = y
        BY <3>7 DEF Waits
      <4>2. ~(j < i + k)
        <5>1. j < i + k => queue[c][j].ts < queue[c][i + k].ts
          BY <2>0, <2>2, <3>3, <4>1 DEF OrderInv, Ordered
        <5>2. y.ts \in Int /\ queue[c][i + k].ts \in Int
          BY <1>4, <2>0, <2>2, <3>3
        <5> QED BY <3>3, <4>1, <5>1, <5>2
      <4>3. j # k /\ j - k \in 1..n /\ (j - k) + k = j
        BY <1>1, <1>2, <3>2, <4>1, <4>2
      <4>4. queue'[c][j - k] = y
        BY <1>3, <4>1, <4>3
      <4>5. j - k \in 1..Len(queue'[c])
        BY <1>1, <4>3
      <4> QED BY <2>2, <4>4, <4>5 DEF Waits
    <3> QED BY <2>2, <3>4, <3>5, <3>6, <3>7
  <2> QED BY <2>1, <2>2
<1> QED BY <1>5, <1>6, <1>7 DEF FallInv

(* A host is forgotten, or all of them.                                    *)
LEMMA FallForget ==
    ASSUME FallInv, ForgetLatest \/ Restart
    PROVE  FallInv'
<1>1. CASE ForgetLatest
  <2>1. latest' \subseteq latest /\ UNCHANGED <<pc, snap, fan, conn, queue, prime, view>>
    BY <1>1 DEF ForgetLatest, LatestBecomes, Drop, notForget, publisherVars, streamVars
  <2>2. \A b \in Browsers : Known(b)' \subseteq Known(b)
    BY <2>1 DEF Known
  <2>3. CarriesNewest' /\ LatestIsLast' /\ LatestIsLastWaiting' /\ PrimingAdvances'
    BY <2>1, <2>2 DEF FallInv, CarriesNewest, Carries, LatestIsLast, LatestIsLastWaiting,
       PrimingAdvances
  <2>4. NewerIsBehind'
    BY <2>1, <2>2 DEF FallInv, NewerIsBehind, StillToWrite, Waits, Open
  <2> QED BY <2>3, <2>4 DEF FallInv
<1>2. CASE Restart
  <2>1. /\ latest' = {} /\ UNCHANGED <<snap, view>>
        /\ \A p \in Publishers : pc'[p] = "idle"
        /\ \A b \in Browsers : conn'[b] = "closed" /\ prime'[b] = {} /\ Len(queue'[b]) = 0
    BY <1>2 DEF Restart
  <2>2. \A b \in Browsers : Known(b)' \subseteq Known(b)
    BY <2>1 DEF Known
  <2>3. CarriesNewest'
    BY <2>1, <2>2 DEF FallInv, CarriesNewest, Carries, BeforeLatest
  <2> QED BY <2>1, <2>3 DEF FallInv, LatestIsLast, LatestIsLastWaiting, PrimingAdvances, NewerIsBehind,
     Open
<1> QED BY <1>1, <1>2

(* A stream's own steps.                                                   *)
LEMMA FallStream ==
    ASSUME FeedTypes, FeedInv, OrderInv, FallInv, NEW c \in Browsers, StreamStep(c)
    PROVE  FallInv'
<1>1. /\ UNCHANGED <<latest, snap, pc>>
      /\ \A b \in Browsers : b # c =>
             /\ conn'[b] = conn[b] /\ queue'[b] = queue[b] /\ prime'[b] = prime[b]
             /\ view'[b] = view[b]
             /\ \A p \in Publishers : b \in fan[p] => b \in fan'[p]
  BY DEF FeedTypes, StreamStep, Subscribe, Deliver, StartPriming, PrimeWith, PrimeOne, Primed, Drain,
     Disconnect, notStream, cacheVars, publisherVars
<1> DEFINE Same == /\ Known(c)' \subseteq Known(c)
                   /\ queue'[c] = queue[c] /\ UNCHANGED fan
                   /\ \A x \in view'[c] \cup prime'[c] :
                          x \in view[c] \cup prime[c] \/ x \in latest
                   /\ \A x \in prime'[c], y \in view'[c] : x.host = y.host => y.ts <= x.ts
                   /\ conn'[c] # "closed" => conn[c] # "closed"
           Emptied == /\ Len(queue'[c]) = 0
                      /\ view'[c] = view[c] /\ prime'[c] \subseteq prime[c]
           Read == /\ queue[c] # <<>> /\ queue'[c] = Tail(queue[c])
                   /\ view'[c] = Put(view[c], Head(queue[c])) /\ prime[c] = {} /\ prime'[c] = {}
                   /\ conn'[c] = conn[c] /\ UNCHANGED fan
<1>2. Same \/ Emptied \/ Read
  <2>1. CASE Subscribe(c) \/ Disconnect(c)
    <3>1. /\ queue'[c] = <<>> /\ view'[c] = view[c] /\ prime'[c] \subseteq prime[c]
          /\ Len(<<>>) = 0
      BY <2>1 DEF FeedTypes, Subscribe, Disconnect
    <3> QED BY <3>1
  <2>2. CASE StartPriming(c)
    <3>1. /\ prime'[c] = latest /\ view' = view /\ queue' = queue /\ UNCHANGED fan
          /\ conn[c] = "subscribed"
      BY <2>2 DEF FeedTypes, StartPriming, PrimeWith, publisherVars
    <3>2. \A x \in prime'[c], y \in view'[c] : x.host = y.host => y.ts <= x.ts
      BY <3>1 DEF FallInv, LatestIsLast
    <3> QED BY <1>1, <3>1, <3>2 DEF Known
  <2>3. CASE PrimeOne(c)
    <3>1. PICK n \in prime[c] : /\ prime'[c] = prime[c] \ {n} /\ view'[c] = Put(view[c], n)
      BY <2>3 DEF PrimeOne, FeedTypes
    <3>2. queue' = queue /\ UNCHANGED fan /\ conn' = conn
      BY <2>3 DEF PrimeOne, publisherVars
    <3>3. view'[c] \subseteq view[c] \cup {n}
      BY <3>1 DEF Put
    <3>4. \A x \in prime'[c], y \in view'[c] : x.host = y.host => y.ts <= x.ts
      BY <3>1, <3>3 DEF FallInv, PrimingAdvances, FeedInv
    <3> QED BY <1>1, <3>1, <3>2, <3>3, <3>4 DEF Known
  <2>4. CASE Primed(c)
    <3>1. UNCHANGED <<queue, prime, view, fan>> /\ conn[c] = "priming"
      BY <2>4 DEF Primed, publisherVars
    <3> QED BY <1>1, <3>1 DEF Known, FallInv, PrimingAdvances
  <2>5. CASE Drain(c)
    BY <2>5 DEF Drain, FeedTypes, FeedInv, publisherVars
  <2> QED BY <2>1, <2>2, <2>3, <2>4, <2>5 DEF StreamStep, Deliver
<1> HIDE DEF Same, Emptied, Read
<1>3. \A b \in Browsers : b # c => Known(b)' = Known(b)
  BY <1>1 DEF Known
<1>4. ASSUME NEW b \in Browsers, b # c
      PROVE  /\ \A y : StillToWrite(b, y) => StillToWrite(b, y)'
             /\ \A y : Waits(b, y) => Waits(b, y)'
             /\ b \in Open' <=> b \in Open
  BY <1>1, <1>4 DEF StillToWrite, Waits, Open
<1>5. \A y : StillToWrite(c, y) /\ UNCHANGED fan => StillToWrite(c, y)'
  BY <1>1 DEF StillToWrite
<1>6. CASE Same
  <2> USE DEF Same
  <2>1. \A b \in Browsers : Known(b)' \subseteq Known(b) /\ queue'[b] = queue[b]
    BY <1>1, <1>3, <1>6
  <2>2. CarriesNewest' /\ LatestIsLastWaiting'
    BY <1>1, <2>1 DEF FallInv, CarriesNewest, Carries, LatestIsLastWaiting
  <2>3. LatestIsLast'
    <3> SUFFICES ASSUME NEW m \in latest, NEW y \in view'[c] \cup prime'[c], y.host = m.host
                 PROVE  y.ts <= m.ts
      BY <1>1 DEF FallInv, LatestIsLast
    <3>1. CASE y \in latest
      BY <3>1 DEF FeedInv, FeedTypes, Snapshot
    <3> QED BY <1>6, <3>1 DEF FallInv, LatestIsLast
  <2>4. PrimingAdvances'
    BY <1>1, <1>6 DEF FallInv, PrimingAdvances
  <2>5. NewerIsBehind'
    <3> SUFFICES ASSUME NEW b \in Open', NEW y \in Known(b), NEW i \in 1..Len(queue[b]),
                        queue[b][i].host = y.host, queue[b][i].ts < y.ts
                 PROVE  StillToWrite(b, y)' \/ Waits(b, y)'
      BY <2>1 DEF NewerIsBehind, Open
    <3>1. b \in Browsers /\ b \in Open
      BY <1>4, <1>6 DEF Open
    <3>2. StillToWrite(b, y) \/ Waits(b, y)
      BY <3>1 DEF FallInv, NewerIsBehind
    <3> QED BY <1>4, <1>5, <1>6, <2>1, <3>1, <3>2 DEF Waits
  <2> QED BY <2>2, <2>3, <2>4, <2>5 DEF FallInv
<1>7. CASE Emptied
  <2> USE DEF Emptied
  <2>1. \A b \in Browsers : Known(b)' \subseteq Known(b)
    BY <1>1, <1>3, <1>7 DEF Known
  <2>2. CarriesNewest' /\ LatestIsLast'
    BY <1>1, <1>7, <2>1 DEF FallInv, CarriesNewest, Carries, LatestIsLast
  <2>3. LatestIsLastWaiting'
    BY <1>1, <1>7 DEF FallInv, LatestIsLastWaiting
  <2>4. PrimingAdvances'
    BY <1>1, <1>7 DEF FallInv, PrimingAdvances
  <2>5. NewerIsBehind'
    <3> SUFFICES ASSUME NEW b \in Open', NEW y \in Known(b), NEW i \in 1..Len(queue'[b]),
                        queue'[b][i].host = y.host, queue'[b][i].ts < y.ts
                 PROVE  StillToWrite(b, y)' \/ Waits(b, y)'
      BY <2>1 DEF NewerIsBehind, Open
    <3>1. b \in Browsers /\ b # c
      BY <1>7 DEF Open
    <3>2. StillToWrite(b, y) \/ Waits(b, y)
      BY <1>1, <1>4, <3>1 DEF FallInv, NewerIsBehind
    <3> QED BY <1>4, <3>1, <3>2
  <2> QED BY <2>2, <2>3, <2>4, <2>5 DEF FallInv
<1>8. CASE Read
  <2> DEFINE q == queue[c]
  <2>1. /\ q \in Seq(Snapshot) /\ q # <<>> /\ Len(q) \in Nat
        /\ Head(q) = q[1] /\ 1 \in 1..Len(q) /\ q[1] \in Snapshot
    BY <1>8 DEF Read, FeedTypes
  <2>2. /\ Len(queue'[c]) = Len(q) - 1
        /\ \A i \in 1..Len(queue'[c]) : i + 1 \in 1..Len(q) /\ queue'[c][i] = q[i + 1]
    BY <1>8, <2>1 DEF Read
  <2>3. \A y \in view'[c] : y = q[1] \/ y \in view[c]
    BY <1>8, <2>1 DEF Read, Put
  <2>4. \A y \in Known(c)' : y = q[1] \/ y \in Known(c)
    BY <1>1, <1>8, <2>3 DEF Known, Read
  <2>5. \A i \in 1..Len(q) : q[i] \in Snapshot
    BY <2>1
  <2> HIDE DEF q
  <2>6. CarriesNewest'
    <3>1. ASSUME NEW p \in Publishers PROVE Carries(p, q[1])
      BY <2>1 DEF q, OrderInv, Behind, Pending, BeforeLatest, Carries
    <3>2. ASSUME NEW p \in Publishers, NEW y PROVE Carries(p, y)' <=> Carries(p, y)
      BY <1>1 DEF Carries
    <3> QED BY <1>1, <1>3, <2>4, <3>1, <3>2 DEF FallInv, CarriesNewest
  <2>7. LatestIsLast'
    <3>1. \A m \in latest : q[1].host = m.host => q[1].ts <= m.ts
      BY <2>1 DEF q, FallInv, LatestIsLastWaiting
    <3> QED BY <1>1, <1>8, <2>3, <3>1 DEF FallInv, LatestIsLast, Read
  <2>8. LatestIsLastWaiting'
    BY <1>1, <2>2 DEF q, FallInv, LatestIsLastWaiting
  <2>9. PrimingAdvances'
    BY <1>1, <1>8 DEF FallInv, PrimingAdvances, Read
  <2>10. NewerIsBehind'
    <3> SUFFICES ASSUME NEW b \in Open', NEW y \in Known(b)', NEW i \in 1..Len(queue'[b]),
                        queue'[b][i].host = y.host, queue'[b][i].ts < y.ts
                 PROVE  StillToWrite(b, y)' \/ Waits(b, y)'
      BY DEF NewerIsBehind
    <3>0. b \in Browsers /\ b \in Open
      BY <1>4, <1>8 DEF Open, Read
    <3>1. CASE b # c
      <4>1. StillToWrite(b, y) \/ Waits(b, y)
        BY <1>1, <1>3, <3>0, <3>1 DEF FallInv, NewerIsBehind
      <4> QED BY <1>4, <3>0, <3>1, <4>1
    <3>2. CASE b = c
      <4>1. i + 1 \in 1..Len(q) /\ q[i + 1].host = y.host /\ q[i + 1].ts < y.ts
        BY <2>2, <3>2
      <4>2. y # q[1]
        <5>1. q[1].host = q[i + 1].host => q[1].ts < q[i + 1].ts
          BY <2>1, <2>2, <3>2, <4>1 DEF q, OrderInv, Ordered
        <5> QED BY <2>1, <2>5, <4>1, <5>1 DEF Snapshot
      <4>3. StillToWrite(c, y) \/ Waits(c, y)
        BY <2>4, <3>0, <3>2, <4>1, <4>2 DEF q, FallInv, NewerIsBehind
      <4>4. CASE Waits(c, y)
        <5>1. PICK j \in 1..Len(q) : q[j] = y
          BY <4>4 DEF Waits, q
        <5>2. j - 1 \in 1..Len(queue'[c]) /\ (j - 1) + 1 = j
          BY <2>1, <2>2, <4>2, <5>1
        <5> QED BY <2>2, <3>2, <5>1, <5>2 DEF Waits
      <4> QED BY <1>5, <1>8, <3>2, <4>3, <4>4 DEF Read
    <3> QED BY <3>1, <3>2
  <2> QED BY <2>6, <2>7, <2>8, <2>9, <2>10 DEF FallInv
<1> QED BY <1>2, <1>6, <1>7, <1>8

-----------------------------------------------------------------------------
(* The step simulation: what each step is to the promise.                  *)

Owes(b, m) ==
    /\ b \in Open
    /\ \/ Waits(b, m)
       \/ m \in prime[b]
       \/ conn[b] = "subscribed" /\ m \in latest
       \/ StillToWrite(b, m)

LEMMA OwedElements ==
    ASSUME NEW b \in Browsers, NEW m
    PROVE  (m \in owed[b] <=> Owes(b, m)) /\ (m \in owed'[b] <=> Owes(b, m)')
<1>1. m \in owed[b] <=> Owes(b, m)
  BY DEF owed, Owes, Waits, StillToWrite
<1>2. m \in owed'[b] <=> Owes(b, m)'
  BY DEF owed, Owes, Waits, StillToWrite
<1> QED BY <1>1, <1>2

(* A step that changes at most what the stream of b owes.                  *)
LEMMA OwedTo ==
    ASSUME NEW b \in Browsers, NEW S,
           \A c \in Browsers : c # b => \A m : Owes(c, m)' <=> Owes(c, m),
           \A m : Owes(b, m)' <=> m \in S
    PROVE  Promise!OnlyOwes(b, S)
<1>1. owed = [c \in Browsers |-> owed[c]] /\ owed' = [c \in Browsers |-> owed'[c]]
  BY DEF owed
<1>2. owed'[b] = S
  BY OwedElements
<1>3. \A c \in Browsers : c # b => owed'[c] = owed[c]
  BY OwedElements
<1> QED BY <1>1, <1>2, <1>3 DEF Promise!OnlyOwes

(* A step after which every stream owes what it did.                       *)
LEMMA OwedKept ==
    ASSUME \A b \in Browsers : \A m : Owes(b, m)' <=> Owes(b, m)
    PROVE  owed' = owed
<1>1. owed = [c \in Browsers |-> owed[c]] /\ owed' = [c \in Browsers |-> owed'[c]]
  BY DEF owed
<1>2. \A c \in Browsers : owed'[c] = owed[c]
  BY OwedElements
<1> QED BY <1>1, <1>2

LEMMA QuietStutters == Quiet => UNCHANGED Promise!vars
<1> SUFFICES ASSUME Quiet PROVE UNCHANGED Promise!vars
  OBVIOUS
<1>1. UNCHANGED <<latest, conn, queue, prime, view, Open>>
  BY DEF Quiet, Open
<1>2. \A b \in Browsers : \A m : Owes(b, m)' <=> Owes(b, m)
  BY <1>1 DEF Quiet, Owes, Waits
<1> QED BY <1>1, <1>2, OwedKept DEF Promise!vars

(* Setting the latest snapshot supersedes the earlier ones of the host.    *)
LEMMA SetLatestSupersedes ==
    ASSUME OnePublisherPerHost, FeedTypes, FeedInv, OrderInv, FallInv,
           NEW p \in Publishers, SetLatest(p)
    PROVE  snap[p] \in latest' /\ Promise!Supersede(snap[p])
<1> DEFINE m == snap[p]
<1>1. /\ UNCHANGED <<snap, fan, conn, queue, prime, view, Open>>
      /\ latest' = Put(latest, m)
      /\ pc[p] = "latest" /\ pc' = [pc EXCEPT ![p] = "insert"] /\ pc'[p] = "insert"
  BY DEF SetLatest, At, Goto, streamVars, Open, FeedTypes
<1>2. m \in Snapshot /\ m.host = HostOf[p]
  BY DEF FeedTypes, FeedInv, SnapHost
<1>3. latest' = Promise!Replace(latest, m) /\ m \in latest'
  BY <1>1 DEF Put, Promise!Replace, Promise!Of
<1>4. \A b \in Browsers : \A x \in Known(b) : x.host = m.host => x.ts < m.ts
  BY <1>1, <1>2 DEF FallInv, CarriesNewest, Carries, BeforeLatest
<1>5. ASSUME NEW b \in Browsers, NEW x, StillToWrite(b, x) PROVE x.host # m.host
  <2>1. PICK q \in Publishers : snap[q] = x /\ pc[q] # "latest"
    BY <1>5 DEF StillToWrite
  <2> QED BY <1>1, <1>2, <2>1 DEF OnePublisherPerHost, FeedInv, SnapHost
<1>6. \A b \in Browsers : \A x \in owed[b] \cup view[b] : x.host = m.host => x.ts < m.ts
  <2> SUFFICES ASSUME NEW b \in Browsers, NEW x \in owed[b] \cup view[b], x.host = m.host
               PROVE  x.ts < m.ts
    OBVIOUS
  <2>1. CASE Waits(b, x)
    BY <1>1, <1>2, <2>1 DEF Waits, OrderInv, Behind, Pending
  <2>2. CASE x \in Known(b)
    BY <1>4, <2>2
  <2> QED BY <1>5, <2>1, <2>2, OwedElements DEF Owes, Known
<1>7. \A b \in Browsers : \A x \in Promise!Of(owed[b] \cup view[b], m.host) : x.ts < m.ts
  BY <1>6 DEF Promise!Of
<1>8. ASSUME NEW b \in Browsers, NEW x, StillToWrite(b, x) PROVE StillToWrite(b, x)'
  BY <1>1, <1>8 DEF StillToWrite, FeedTypes
<1>9. ASSUME NEW b \in Browsers, NEW x, StillToWrite(b, x)' PROVE StillToWrite(b, x) \/ x = m
  BY <1>1, <1>9 DEF StillToWrite, FeedTypes
<1>10. \A x : x \in latest' <=> x = m \/ (x \in latest /\ x.host # m.host)
  BY <1>1 DEF Put
<1>11. ASSUME NEW b \in Open
       PROVE  /\ m \in owed'[b] /\ owed'[b] \subseteq owed[b] \cup {m}
              /\ owed[b] \ owed'[b] \subseteq Promise!Of(owed[b], m.host)
  <2>0. b \in Browsers
    BY DEF Open
  <2>1. m \in owed'[b]
    BY <1>1, <2>0, OwedElements DEF Owes, StillToWrite
  <2>2. ASSUME NEW x \in owed'[b] PROVE x \in owed[b] \cup {m}
    BY <1>1, <1>9, <1>10, <2>0, <2>2, OwedElements DEF Owes, Waits
  <2>3. ASSUME NEW x \in owed[b], x \notin owed'[b] PROVE x.host = m.host
    BY <1>1, <1>8, <1>10, <2>0, <2>3, OwedElements DEF Owes, Waits
  <2> QED BY <2>1, <2>2, <2>3 DEF Promise!Of
<1>12. ASSUME NEW b \in Browsers \ Open PROVE owed'[b] = owed[b]
  BY <1>1, <1>12, OwedElements DEF Owes
<1>13. \A x \in Promise!Of(latest, m.host) : x.ts < m.ts
  BY <1>1, <1>2 DEF FallInv, CarriesNewest, Carries, BeforeLatest, Promise!Of
<1> QED BY <1>1, <1>3, <1>7, <1>11, <1>12, <1>13 DEF Promise!Supersede

(* No two snapshots of a channel in order are the same.                    *)
LEMMA ChannelDiffers ==
    ASSUME NEW q \in Seq(Snapshot), Ordered(q)
    PROVE  \A i, j \in 1..Len(q) : i # j => q[i] # q[j]
<1>1. \A i \in 1..Len(q) : q[i].ts \in Int
  <2>1. \A i \in 1..Len(q) : q[i] \in Snapshot
    OBVIOUS
  <2> QED BY <2>1 DEF Snapshot
<1>2. \A i, j \in 1..Len(q) : i < j => q[i] # q[j]
  <2> SUFFICES ASSUME NEW i \in 1..Len(q), NEW j \in 1..Len(q), i < j, q[i] = q[j] PROVE FALSE
    OBVIOUS
  <2>1. q[i].ts < q[j].ts
    BY DEF Ordered
  <2> QED BY <1>1, <2>1
<1>3. \A i, j \in 1..Len(q) : i # j => i < j \/ j < i
  OBVIOUS
<1> QED BY <1>2, <1>3

(* A write pays into the channel what was owed, and loses what it drops,   *)
(* but for the snapshots that the stream owes otherwise.                   *)
LEMMA WriteLoses ==
    ASSUME OnePublisherPerHost, FeedTypes, FeedTypes', FeedInv, OrderInv', QueueBounded,
           NEW p \in Publishers, NEW c \in Browsers, TryWrite(p, c), c \in Open
    PROVE  UNCHANGED Promise!vars \/ \E m \in owed[c] : Promise!Lose(c, m)
<1> DEFINE n == Len(Left(c))
           full == Len(queue[c]) >= Capacity
<1>1. /\ UNCHANGED <<latest, pc, snap, conn, prime, view, Open>>
      /\ pc[p] = "write" /\ c \in fan[p] /\ fan' = [fan EXCEPT ![p] = @ \ {c}]
      /\ \A b \in Browsers : b # c => queue'[b] = queue[b]
      /\ n \in Nat /\ Len(queue'[c]) = n + 1 /\ queue'[c][n + 1] = snap[p]
      /\ \A i \in 1..n : queue'[c][i] = Left(c)[i]
  BY Written DEF FeedTypes, Open
<1>2. /\ full => /\ Len(queue[c]) = n + 1
                 /\ \A i \in 1..n : Left(c)[i] = queue[c][i + 1]
      /\ ~full => Left(c) = queue[c]
  BY Written
<1> HIDE DEF n, full
<1>3. \A b \in Browsers : \A m :
          StillToWrite(b, m) <=> StillToWrite(b, m)' \/ (b = c /\ m = snap[p])
  BY <1>1 DEF FeedTypes, StillToWrite
<1>4. \A b \in Browsers : b # c => \A m : Owes(b, m)' <=> Owes(b, m)
  BY <1>1, <1>3 DEF Owes, Waits
<1>5. \A m : Waits(c, m)' <=> m = snap[p] \/ \E i \in 1..n : Left(c)[i] = m
  <2> SUFFICES ASSUME NEW m
               PROVE  (\E i \in 1..(n + 1) : queue'[c][i] = m)
                          <=> m = snap[p] \/ \E i \in 1..n : Left(c)[i] = m
    BY <1>1 DEF Waits
  <2>1. \A i \in 1..(n + 1) : i = n + 1 \/ i \in 1..n
    BY <1>1
  <2>2. n + 1 \in 1..(n + 1) /\ \A i \in 1..n : i \in 1..(n + 1)
    BY <1>1
  <2> QED BY <1>1, <2>1, <2>2
<1>6. CASE ~full
  <2>1. \A m : Owes(c, m)' <=> Owes(c, m)
    BY <1>1, <1>2, <1>3, <1>5, <1>6 DEF Owes, Waits, n
  <2> QED BY <1>1, <1>4, <2>1, OwedKept DEF Promise!vars
<1>7. CASE full
  <2>0. PICK x : x = queue[c][1]
    OBVIOUS
  <2>1. \A m : Waits(c, m) <=> m = x \/ \E i \in 1..n : Left(c)[i] = m
    <3>0. Len(queue[c]) = n + 1 /\ \A i \in 1..n : Left(c)[i] = queue[c][i + 1]
      BY <1>2, <1>7
    <3> SUFFICES ASSUME NEW m
                 PROVE  (\E i \in 1..(n + 1) : queue[c][i] = m)
                            <=> m = x \/ \E i \in 1..n : queue[c][i + 1] = m
      BY <3>0 DEF Waits
    <3>1. \A i \in 1..(n + 1) : i = 1 \/ (i - 1 \in 1..n /\ (i - 1) + 1 = i)
      BY <1>1
    <3>2. 1 \in 1..(n + 1) /\ \A i \in 1..n : i + 1 \in 1..(n + 1)
      BY <1>1
    <3> QED BY <2>0, <3>1, <3>2
  <2>2. \A m : Owes(c, m) <=> Owes(c, m)' \/ m = x
    BY <1>1, <1>3, <1>5, <2>1 DEF Owes
  <2>3. CASE Owes(c, x)'
    <3>1. \A m : Owes(c, m)' <=> Owes(c, m)
      BY <2>2, <2>3
    <3> QED BY <1>1, <1>4, <3>1, OwedKept DEF Promise!vars
  <2>4. CASE ~Owes(c, x)'
    <3>1. \A m : Owes(c, m)' <=> m \in owed[c] \ {x}
      BY <2>2, <2>4, OwedElements
    <3>2. Promise!OnlyOwes(c, owed[c] \ {x})
      BY <1>4, <3>1, OwedTo
    <3>3. x \in owed[c]
      BY <2>2, OwedElements
    <3>4. \E others \in [1..Capacity -> owed'[c]] :
              \A i, j \in 1..Capacity : i # j => others[i] # others[j]
      <4> DEFINE q == queue'[c]
                 others == [i \in 1..Capacity |-> q[i]]
      <4>1. q \in Seq(Snapshot) /\ Ordered(q)
        BY DEF OrderInv, FeedTypes
      <4>2. Len(q) = Capacity
        <5>1. Len(queue[c]) = Capacity
          BY <1>1, <1>2, <1>7, HubAssumption DEF QueueBounded, full
        <5> QED BY <1>1, <1>2, <1>7, <5>1
      <4>3. \A i \in 1..Capacity : q[i] \in owed'[c]
        BY <1>1, <4>2, OwedElements DEF Owes, Waits
      <4> HIDE DEF q
      <4>4. \A i, j \in 1..Capacity : i # j => others[i] # others[j]
        BY <4>1, <4>2, ChannelDiffers
      <4>5. others \in [1..Capacity -> owed'[c]]
        BY <4>3
      <4> QED BY <4>4, <4>5
    <3>5. UNCHANGED <<latest, Open, view>>
      BY <1>1
    <3> HIDE DEF Promise!OnlyOwes
    <3>6. Promise!Lose(c, x)
      BY <3>2, <3>3, <3>4, <3>5 DEF Promise!Lose
    <3> QED BY <3>3, <3>6
  <2> QED BY <2>3, <2>4
<1> QED BY <1>6, <1>7

(* A write to a stream that is closed is owed to nobody.                   *)
LEMMA WriteToClosed ==
    ASSUME FeedTypes, FeedInv, NEW p \in Publishers, NEW c \in Browsers, TryWrite(p, c), c \notin Open
    PROVE  UNCHANGED Promise!vars
<1>1. /\ UNCHANGED <<latest, pc, snap, conn, prime, view, Open>>
      /\ fan' = [fan EXCEPT ![p] = @ \ {c}]
      /\ \A b \in Browsers : b # c => queue'[b] = queue[b]
  BY Written DEF FeedTypes, Open
<1>2. \A b \in Browsers : b # c => \A m : StillToWrite(b, m) <=> StillToWrite(b, m)'
  BY <1>1 DEF FeedTypes, StillToWrite
<1>3. \A b \in Browsers : \A m : Owes(b, m)' <=> Owes(b, m)
  BY <1>1, <1>2 DEF Owes, Waits
<1> QED BY <1>1, <1>3, OwedKept DEF Promise!vars

(* The latest snapshot of a host is forgotten.                             *)
LEMMA ForgetWithdraws ==
    ASSUME FeedInv, ForgetLatest
    PROVE  UNCHANGED Promise!vars \/ \E h \in {m.host : m \in latest} : Promise!Withdraw(h)
<1>1. /\ UNCHANGED <<pc, snap, fan, conn, queue, prime, view, Open>>
      /\ latest' = Drop(latest, delHost)
  BY DEF ForgetLatest, LatestBecomes, notForget, publisherVars, streamVars, Open
<1>2. \A b \in Browsers : \A m : StillToWrite(b, m)' <=> StillToWrite(b, m)
  BY <1>1 DEF StillToWrite
<1>3. CASE latest' = latest
  <2>1. \A b \in Browsers : \A m : Owes(b, m)' <=> Owes(b, m)
    BY <1>1, <1>2, <1>3 DEF Owes, Waits
  <2> QED BY <1>1, <1>3, <2>1, OwedKept DEF Promise!vars
<1>4. CASE latest' # latest
  <2>1. delHost \in {m.host : m \in latest}
    BY <1>1, <1>4 DEF Drop
  <2>2. latest' = latest \ Promise!Of(latest, delHost)
    BY <1>1 DEF Drop, Promise!Of
  <2>3. ASSUME NEW b \in Browsers
        PROVE  /\ owed'[b] \subseteq owed[b]
               /\ owed[b] \ owed'[b] \subseteq Promise!Of(latest, delHost)
    <3>1. \A m : Owes(b, m)' => Owes(b, m)
      BY <1>1, <1>2, <2>2 DEF Owes, Waits
    <3>2. \A m : Owes(b, m) /\ ~Owes(b, m)' => m \in Promise!Of(latest, delHost)
      BY <1>1, <1>2, <2>2 DEF Owes, Waits
    <3> QED BY <3>1, <3>2, OwedElements
  <2>4. Promise!Withdraw(delHost)
    BY <1>1, <2>2, <2>3 DEF Promise!Withdraw
  <2> QED BY <2>1, <2>4
<1> QED BY <1>3, <1>4

LEMMA RestartResets == Restart => Promise!Reset
<1> SUFFICES ASSUME Restart PROVE Promise!Reset
  OBVIOUS
<1>1. /\ latest' = {} /\ UNCHANGED view
      /\ \A b \in Browsers : conn'[b] = "closed"
  BY DEF Restart
<1>2. Open' = {}
  BY <1>1 DEF Open
<1>3. owed' = [b \in Browsers |-> {}]
  BY <1>2 DEF owed
<1> QED BY <1>1, <1>2, <1>3 DEF Promise!Reset

(* A stream that opens: a publisher under way carries the latest snapshot  *)
(* of its host, or one of a host that was removed meanwhile.               *)
LEMMA SubscribeConnects ==
    ASSUME FeedTypes, FeedInv, NEW c \in Browsers, Subscribe(c)
    PROVE  Promise!Connect(c)
<1>1. /\ UNCHANGED <<latest, pc, snap, fan, prime, view>>
      /\ conn[c] = "closed" /\ conn' = [conn EXCEPT ![c] = "subscribed"]
      /\ queue' = [queue EXCEPT ![c] = <<>>]
  BY DEF Subscribe, notStream, cacheVars, publisherVars
<1>2. /\ c \notin Open /\ Open' = Open \cup {c} /\ conn'[c] = "subscribed"
      /\ queue'[c] = <<>> /\ Len(<<>>) = 0 /\ prime'[c] = {}
      /\ \A b \in Browsers : b # c => conn'[b] = conn[b] /\ queue'[b] = queue[b]
  <2>1. /\ conn'[c] = "subscribed" /\ queue'[c] = <<>> /\ Len(<<>>) = 0
        /\ \A b \in Browsers : b # c => conn'[b] = conn[b] /\ queue'[b] = queue[b]
    BY <1>1 DEF FeedTypes
  <2>2. prime'[c] = {}
    BY <1>1 DEF FeedInv
  <2>3. c \notin Open /\ Open' = Open \cup {c}
    BY <1>1, <2>1 DEF Open
  <2> QED BY <2>1, <2>2, <2>3
<1>3. \A b \in Browsers : \A m : StillToWrite(b, m)' <=> StillToWrite(b, m)
  BY <1>1 DEF StillToWrite
<1>4. \A b \in Browsers : b # c => \A m : Owes(b, m)' <=> Owes(b, m)
  BY <1>1, <1>2, <1>3 DEF Owes, Waits
<1>5. \A m : Owes(c, m)' <=> m \in latest \/ StillToWrite(c, m)
  BY <1>1, <1>2, <1>3 DEF Owes, Waits
<1>6. PICK removed \in SUBSET owed'[c] :
          \A m : m \in removed <=> StillToWrite(c, m) /\ m \notin latest
  <2> DEFINE R == {m \in owed'[c] : m \notin latest}
  <2>1. \A m : m \in R <=> StillToWrite(c, m) /\ m \notin latest
    BY <1>5, OwedElements
  <2> QED BY <2>1
<1>7. ASSUME NEW m \in removed PROVE Promise!Of(latest, m.host) = {}
  <2>1. PICK p \in Publishers : snap[p] = m /\ pc[p] \in AfterLatest
    BY <1>6, <1>7 DEF StillToWrite, AfterLatest
  <2>2. \A x \in latest : x.host # m.host
    BY <1>6, <1>7, <2>1 DEF FeedInv, SnapHost
  <2> QED BY <2>2 DEF Promise!Of
<1>8. \A m : Owes(c, m)' <=> m \in latest \cup removed
  BY <1>5, <1>6
<1>9. Promise!OnlyOwes(c, latest \cup removed)
  BY <1>4, <1>8, OwedTo
<1> HIDE DEF Promise!OnlyOwes
<1> QED BY <1>1, <1>2, <1>7, <1>9 DEF Promise!Connect

(* Whatever the stream of c does, the others owe what they did.            *)
LEMMA OthersOwe ==
    ASSUME FeedTypes, NEW c \in Browsers, Deliver(c) \/ Disconnect(c)
    PROVE  /\ UNCHANGED <<latest, pc, snap>>
           /\ \A b \in Browsers : b # c => \A m : Owes(b, m)' <=> Owes(b, m)
<1>1. /\ UNCHANGED <<latest, snap, pc>>
      /\ \A b \in Browsers : b # c =>
             /\ conn'[b] = conn[b] /\ queue'[b] = queue[b] /\ prime'[b] = prime[b]
             /\ \A p \in Publishers : b \in fan'[p] <=> b \in fan[p]
  BY DEF FeedTypes, Deliver, StartPriming, PrimeWith, PrimeOne, Primed, Drain, Disconnect, notStream,
     cacheVars, publisherVars
<1>2. ASSUME NEW b \in Browsers, b # c PROVE \A m : Owes(b, m)' <=> Owes(b, m)
  BY <1>1, <1>2 DEF Owes, Waits, StillToWrite, Open
<1> QED BY <1>1, <1>2

(* Priming begins and ends unseen: what was latest is left to prime with.  *)
LEMMA PrimingStutters ==
    ASSUME FeedTypes, FeedInv, NEW c \in Browsers, StartPriming(c) \/ Primed(c)
    PROVE  UNCHANGED Promise!vars
<1>1. /\ UNCHANGED <<latest, snap, pc, fan, queue, view>>
      /\ \/ conn[c] = "subscribed" /\ conn'[c] = "priming" /\ prime'[c] = latest
         \/ conn[c] = "priming" /\ conn'[c] = "live" /\ prime'[c] = prime[c]
      /\ \A b \in Browsers : b # c => conn'[b] = conn[b]
  BY DEF FeedTypes, StartPriming, PrimeWith, Primed, notStream, cacheVars, publisherVars
<1>2. Open' = Open
  BY <1>1 DEF Open
<1>3. prime[c] = {} \/ conn[c] = "priming"
  BY DEF FeedInv
<1>4. \A m : Owes(c, m)' <=> Owes(c, m)
  BY <1>1, <1>2, <1>3 DEF Owes, Waits, StillToWrite
<1>5. \A b \in Browsers : \A m : Owes(b, m)' <=> Owes(b, m)
  BY <1>4, OthersOwe DEF Deliver
<1> QED BY <1>1, <1>2, <1>5, OwedKept DEF Promise!vars

LEMMA DisconnectEnds ==
    ASSUME FeedTypes, NEW c \in Browsers, Disconnect(c)
    PROVE  Promise!Disconnect(c)
<1>1. /\ conn[c] # "closed" /\ conn'[c] = "closed" /\ UNCHANGED <<latest, view>>
      /\ \A b \in Browsers : b # c => conn'[b] = conn[b]
  BY DEF FeedTypes, Disconnect, notStream, cacheVars
<1>2. c \in Open /\ Open' = Open \ {c}
  BY <1>1 DEF Open
<1>3. \A m : Owes(c, m)' <=> m \in {}
  BY <1>2 DEF Owes
<1>4. Promise!OnlyOwes(c, {})
  BY <1>3, OthersOwe, OwedTo
<1> HIDE DEF Promise!OnlyOwes
<1> QED BY <1>1, <1>2, <1>4 DEF Promise!Disconnect

(* What is shown was owed, and stays so if the stream has it in store once *)
(* more.                                                                   *)
LEMMA ShowOwed ==
    ASSUME FeedTypes, NEW c \in Browsers, Deliver(c), NEW n, Owes(c, n),
           \A m : Owes(c, m) <=> Owes(c, m)' \/ m = n,
           UNCHANGED <<latest, Open>>, view' = [view EXCEPT ![c] = Put(@, n)],
           \A y \in view[c] : y.host = n.host /\ y.ts > n.ts => Owes(c, y)
    PROVE  n \in owed[c] /\ Promise!Show(c, n)
<1>1. n \in owed[c] /\ c \in Open
  BY OwedElements DEF Owes
<1>2. Promise!OnlyOwes(c, owed[c]) \/ Promise!OnlyOwes(c, owed[c] \ {n})
  <2>1. CASE Owes(c, n)'
    <3>1. \A m : Owes(c, m)' <=> m \in owed[c]
      BY <2>1, OwedElements
    <3> QED BY <3>1, OthersOwe, OwedTo
  <2>2. CASE ~Owes(c, n)'
    <3>1. \A m : Owes(c, m)' <=> m \in owed[c] \ {n}
      BY <2>2, OwedElements
    <3> QED BY <3>1, OthersOwe, OwedTo
  <2> QED BY <2>1, <2>2
<1>3. \A x \in Promise!Of(view[c], n.host) : x.ts > n.ts => x \in owed[c]
  BY OwedElements DEF Promise!Of
<1>4. view' = [view EXCEPT ![c] = Promise!Replace(@, n)]
  <2>1. Put(view[c], n) = Promise!Replace(view[c], n)
    BY DEF Put, Promise!Replace, Promise!Of
  <2> QED BY <2>1
<1> HIDE DEF Promise!OnlyOwes
<1> QED BY <1>1, <1>2, <1>3, <1>4 DEF Promise!Show

LEMMA PrimeShows ==
    ASSUME FeedTypes, FeedInv, FallInv, NEW c \in Browsers, PrimeOne(c)
    PROVE  \E m \in owed[c] : Promise!Show(c, m)
<1>1. PICK n \in prime[c] : /\ prime' = [prime EXCEPT ![c] = @ \ {n}]
                            /\ view' = [view EXCEPT ![c] = Put(@, n)]
  BY DEF PrimeOne
<1>2. /\ UNCHANGED <<latest, snap, pc, fan, queue, conn, Open>> /\ conn[c] = "priming" /\ c \in Open
      /\ prime'[c] = prime[c] \ {n}
  BY <1>1 DEF FeedTypes, PrimeOne, notStream, cacheVars, publisherVars, Open
<1>3. Owes(c, n) /\ \A m : Owes(c, m) <=> Owes(c, m)' \/ m = n
  BY <1>2 DEF Owes, Waits, StillToWrite
<1>4. ASSUME NEW y \in view[c], y.host = n.host PROVE ~(y.ts > n.ts)
  BY <1>4 DEF FallInv, PrimingAdvances, FeedTypes, Snapshot
<1> QED BY <1>1, <1>2, <1>3, <1>4, ShowOwed DEF Deliver

LEMMA DrainShows ==
    ASSUME FeedTypes, FeedInv, FallInv, NEW c \in Browsers, Drain(c)
    PROVE  \E m \in owed[c] : Promise!Show(c, m)
<1>1. /\ UNCHANGED <<latest, snap, pc, fan, prime, conn, Open>> /\ conn[c] = "live" /\ c \in Open
      /\ queue[c] \in Seq(Snapshot) /\ queue[c] # <<>> /\ queue'[c] = Tail(queue[c])
      /\ view' = [view EXCEPT ![c] = Put(@, Head(queue[c]))]
  BY DEF FeedTypes, Drain, notStream, cacheVars, publisherVars, Open
<1>2. PICK n : n = Head(queue[c])
  OBVIOUS
<1>3. /\ Len(queue[c]) \in Nat /\ 1 \in 1..Len(queue[c]) /\ queue[c][1] = n /\ n \in Snapshot
      /\ Len(queue'[c]) = Len(queue[c]) - 1
      /\ \A i \in 1..Len(queue'[c]) : i + 1 \in 1..Len(queue[c]) /\ queue'[c][i] = queue[c][i + 1]
  BY <1>1, <1>2
<1>4. \A m : Waits(c, m) <=> Waits(c, m)' \/ m = n
  <2>1. ASSUME NEW i \in 1..Len(queue[c]), i # 1
        PROVE  i - 1 \in 1..Len(queue'[c]) /\ queue'[c][i - 1] = queue[c][i]
    <3>1. i - 1 \in 1..Len(queue'[c]) /\ (i - 1) + 1 = i
      BY <1>3, <2>1
    <3> QED BY <1>3, <3>1
  <2> QED BY <1>3, <2>1 DEF Waits
<1>5. Owes(c, n) /\ \A m : Owes(c, m) <=> Owes(c, m)' \/ m = n
  BY <1>1, <1>4 DEF Owes, StillToWrite
<1>6. ASSUME NEW y \in view[c], y.host = n.host, y.ts > n.ts PROVE Owes(c, y)
  <2>1. y \in Known(c) /\ n.ts < y.ts
    BY <1>3, <1>6 DEF Known, FeedTypes, Snapshot
  <2> QED BY <1>1, <1>3, <1>6, <2>1 DEF FallInv, NewerIsBehind, Owes
<1> QED BY <1>1, <1>2, <1>5, <1>6, ShowOwed DEF Deliver

-----------------------------------------------------------------------------
(* Every step of the hub is a step of the promise, or a stutter.           *)

Facts == FeedTypes /\ FeedInv /\ OrderInv /\ QueueBounded /\ FallInv

LEMMA PromiseStep ==
    ASSUME OnePublisherPerHost, TypeInv, Facts, FeedTypes', OrderInv', [Next]_vars
    PROVE  [Promise!Next]_(Promise!vars)
<1> USE DEF Facts
<1>1. CASE Quiet
  BY <1>1, QuietStutters
<1>2. ASSUME NEW p \in Publishers, SetLatest(p) PROVE Promise!Next
  BY <1>2, SetLatestSupersedes DEF Promise!Next
<1>3. ASSUME NEW p \in Publishers, NEW c \in Browsers, TryWrite(p, c)
      PROVE  Promise!Next \/ UNCHANGED Promise!vars
  <2>1. CASE c \in Open
    BY <1>3, <2>1, WriteLoses DEF Promise!Next
  <2>2. CASE c \notin Open
    BY <1>3, <2>2, WriteToClosed
  <2> QED BY <2>1, <2>2
<1>4. ASSUME NEW c \in Browsers, StreamStep(c) PROVE Promise!Next \/ UNCHANGED Promise!vars
  <2>1. CASE Subscribe(c)
    BY <2>1, SubscribeConnects DEF Promise!Next
  <2>2. CASE StartPriming(c) \/ Primed(c)
    BY <2>2, PrimingStutters
  <2>3. CASE PrimeOne(c) \/ Drain(c)
    BY <2>3, PrimeShows, DrainShows DEF Promise!Next
  <2>4. CASE Disconnect(c)
    BY <2>4, DisconnectEnds DEF Promise!Next
  <2> QED BY <1>4, <2>1, <2>2, <2>3, <2>4 DEF StreamStep, Deliver
<1>5. CASE ForgetLatest
  BY <1>5, ForgetWithdraws DEF Promise!Next
<1>6. CASE Restart
  BY <1>6, RestartResets DEF Promise!Next
<1> QED BY <1>1, <1>2, <1>3, <1>4, <1>5, <1>6, QuietOrTold

LEMMA FallStep ==
    ASSUME OnePublisherPerHost, TypeInv, FeedTypes', FeedInv, OrderInv, FallInv, [Next]_vars
    PROVE  FallInv'
<1>1. FeedTypes
  BY FeedTyped
<1>2. CASE Quiet
  BY <1>1, <1>2, FallQuiet
<1>3. CASE \E p \in Publishers : SetLatest(p) \/ \E b \in Browsers : TryWrite(p, b)
  BY <1>1, <1>3, FallSetLatest, FallWrite
<1>4. CASE \E b \in Browsers : StreamStep(b)
  BY <1>1, <1>4, FallStream
<1>5. CASE ForgetLatest \/ Restart
  BY <1>5, FallForget
<1> QED BY <1>2, <1>3, <1>4, <1>5, QuietOrTold

(* With one publisher per host the hub implements LatestFeed: what a       *)
(* stream owes its browser is shown, superseded, withdrawn, or lost behind *)
(* a whole channel of others, and no browser is taken back to an older     *)
(* snapshot of a host but for as long as the newer one waits behind it.    *)
THEOREM HubKeepsPromise == ASSUME OnePublisherPerHost PROVE Spec => PromiseKept
<1>1. Init => Promise!Init /\ FallInv
  <2>1. Init => Open = {} /\ \A b \in Browsers : view[b] = {} /\ prime[b] = {} /\ queue[b] = <<>>
    BY DEF Init, Open
  <2>2. Init => FallInv
    BY <2>1 DEF Init, FallInv, CarriesNewest, LatestIsLast, LatestIsLastWaiting, PrimingAdvances,
       NewerIsBehind, Known
  <2>3. Init => owed = [b \in Browsers |-> {}]
    BY <2>1 DEF owed
  <2> QED BY <2>1, <2>2, <2>3 DEF Init, Promise!Init
<1>2. (TypeInv => FeedTypes) /\ (TypeInv' => FeedTypes')
  BY DEF TypeInv, TypeOK, FeedTypes
<1>3. TypeInv /\ TypeInv' /\ FeedInv /\ OrderInv /\ FallInv /\ [Next]_vars => FallInv'
  BY <1>2, FallStep
<1>4. TypeInv /\ TypeInv' /\ FeedInv /\ OrderInv /\ OrderInv' /\ QueueBounded /\ FallInv /\ [Next]_vars
      => [Promise!Next]_(Promise!vars)
  BY <1>2, PromiseStep DEF Facts
<1> QED
  BY <1>1, <1>3, <1>4, TypeInvariant, OrderInvariant, ChannelsBounded, PTL
     DEF Spec, PromiseKept, Promise!Spec
=============================================================================

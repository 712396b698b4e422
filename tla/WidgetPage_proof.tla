-------------------------- MODULE WidgetPage_proof --------------------------
(***************************************************************************)
(* The widgets that run, what is on record of them, and the settings       *)
(* overlays above them, for any hosts, types and layouts, and any number   *)
(* of catalog requests that cross.                                         *)
(***************************************************************************)
EXTENDS WidgetPage, CommonLemmas, FiniteSetTheorems, SequenceTheorems, TLAPS

Places == {"page", "board"}

(* What is on record runs.                                                 *)
Counted ==
    /\ recorded \subseteq Slots
    /\ live \in [Slots -> Nat]
    /\ \A s \in recorded : live[s] > 0

Inv == Counted /\ overlay \subseteq Types /\ OverlayHasCard

USE WidgetPageAssumption DEF WidgetPageAssumption, Places

LEMMA PassesFinite ==
  ASSUME NEW S, S \subseteq Passes
  PROVE  Cardinality(S) \in Nat
<1>1. 0 \in Int /\ MaxRequests \in Int
  OBVIOUS
<1>2. IsFiniteSet(Passes)
  BY <1>1, FS_Interval DEF Passes
<1> HIDE DEF Passes
<1> QED
  BY <1>2, FS_Subset, FS_CardinalityType

(* Passes only add instances to what the step has left running.            *)
LEMMA Mounted ==
  ASSUME Counted, NEW cards, NEW passes, NEW out, NEW shown,
         NEW base \in [Slots -> Nat],
         Mount(cards, passes, out, shown, base)
  PROVE  Counted' /\ \A s \in Slots : live'[s] >= base[s]
<1> DEFINE doneBy(s) == {i \in Passes : s[1] = "board" /\ s[2] \in Done(passes[i], out)}
           onPage(s) == s[1] = "page" /\ s[2] \in cards
           mounts(s) == IF out[s[2]] # "up" THEN 0
                        ELSE IF onPage(s) THEN 1 ELSE Cardinality(doneBy(s))
<1>1. \A s \in Slots : mounts(s) \in Nat
  <2> SUFFICES ASSUME NEW s \in Slots PROVE mounts(s) \in Nat
    OBVIOUS
  <2>1. Cardinality(doneBy(s)) \in Nat
    BY PassesFinite
  <2> QED
    BY <2>1
<1>2. /\ live' = [s \in Slots |-> base[s] + mounts(s)]
      /\ recorded' = {s \in Slots : mounts(s) > 0 \/ (s \in recorded /\ base[s] = live[s])}
  BY DEF Mount
<1> HIDE DEF mounts
<1>3. live' \in [Slots -> Nat] /\ \A s \in Slots : live'[s] >= base[s]
  BY <1>1, <1>2
<1>4. \A s \in recorded' : s \in Slots /\ live'[s] > 0
  BY <1>1, <1>2 DEF Counted
<1> QED
  BY <1>3, <1>4 DEF Counted

(* A step that leaves base running, and overlays only where base has some. *)
LEMMA Covered ==
  ASSUME Inv, NEW base \in [Slots -> Nat], Counted',
         \A s \in Slots : live'[s] >= base[s],
         overlay' \subseteq Types,
         \A t \in overlay' : \E p \in Places : base[<<p, t>>] > 0
  PROVE  Inv'
<1>1. ASSUME NEW t \in overlay' PROVE \E p \in Places : live'[<<p, t>>] > 0
  <2>1. PICK p \in Places : base[<<p, t>>] > 0
    OBVIOUS
  <2>2. <<p, t>> \in Slots
    BY DEF Slots
  <2>3. live'[<<p, t>>] \in Nat
    BY <2>2 DEF Counted
  <2> QED
    BY <2>1, <2>2, <2>3
<1> QED
  BY <1>1 DEF Inv, OverlayHasCard

(* What is left once the instances on record of some places are stopped.   *)
Remaining(places) ==
    [s \in Slots |-> IF Stopped(places, s) THEN live[s] - 1 ELSE live[s]]

LEMMA RemainingNat ==
  ASSUME Counted, NEW places
  PROVE  Remaining(places) \in [Slots -> Nat]
BY DEF Counted, Remaining, Stopped

LEMMA RenderInv ==
  ASSUME Inv, NEW places, NEW boxes, NEW h, NEW types, Render(places, boxes, h, types)
  PROVE  Inv'
<1> DEFINE left == Remaining(places)
<1>1. overlay' = {t \in overlay : \E p \in Places : left[<<p, t>>] > 0}
  BY DEF Render, Remaining
<1>2. \E cards, passes, out, shown : Mount(cards, passes, out, shown, left)
  <2>1. CASE catalog
    BY <2>1, Zenon DEF Render, Remaining
  <2>2. CASE ~catalog
    BY <2>2, Zenon DEF Render, Remaining
  <2> QED
    BY <2>1, <2>2
<1>3. left \in [Slots -> Nat]
  BY RemainingNat DEF Inv
<1> HIDE DEF left
<1>4. Counted' /\ \A s \in Slots : live'[s] >= left[s]
  BY <1>2, <1>3, Mounted DEF Inv
<1> QED
  BY <1>1, <1>3, <1>4, Covered DEF Inv

LEMMA QuietInv ==
  ASSUME Inv, UNCHANGED <<recorded, live, overlay>>
  PROVE  Inv'
BY DEF Inv, Counted, OverlayHasCard

(* Passes that go on stop nothing.                                         *)
LEMMA ResumeInv ==
  ASSUME Inv, UNCHANGED overlay,
         NEW cards, NEW passes, NEW out, NEW shown, Mount(cards, passes, out, shown, live)
  PROVE  Inv'
<1>1. live \in [Slots -> Nat]
  BY DEF Inv, Counted
<1>2. Counted' /\ \A s \in Slots : live'[s] >= live[s]
  BY <1>1, Mounted DEF Inv
<1>3. \A t \in overlay' : \E p \in Places : live[<<p, t>>] > 0
  BY DEF Inv, OverlayHasCard
<1> QED
  BY <1>1, <1>2, <1>3, Covered DEF Inv

LEMMA SwitchInv ==
  ASSUME Inv, NEW h, NEW boxes, NEW places, Switch(h, boxes, places)
  PROVE  Inv'
BY RenderInv, Zenon DEF Switch

LEMMA PageInv == Inv /\ Page => Inv'
<1> SUFFICES ASSUME Inv, Page PROVE Inv'
  OBVIOUS
<1>1. CASE openVertical
  BY <1>1, RenderInv, Zenon DEF openVertical, renderWidgets
<1>2. CASE closeVertical
  <2> DEFINE left == Remaining({"page"})
  <2>1. /\ Mount({}, NoPass, [t \in Types |-> "loading"], body, left)
        /\ overlay' = {t \in overlay : \E p \in Places : left[<<p, t>>] > 0}
    BY <1>2 DEF closeVertical, unmountAllWidgets, Remaining
  <2>2. left \in [Slots -> Nat]
    BY RemainingNat DEF Inv
  <2> HIDE DEF left
  <2>3. Counted' /\ \A s \in Slots : live'[s] >= left[s]
    BY <2>1, <2>2, Mounted DEF Inv
  <2> QED
    BY <2>1, <2>2, <2>3, Covered DEF Inv
<1>3. CASE openWidgetChooser \/ closePopups
  BY <1>3, QuietInv DEF openWidgetChooser, closePopups
<1>4. CASE loadLang
  BY <1>4, RenderInv, Zenon DEF loadLang, renderLayout
<1>5. ASSUME NEW t \in Types, addWidget(t) PROVE Inv'
  <2>1. CASE Quiet
    BY <2>1, QuietInv DEF Quiet
  <2>2. CASE renderWidgets(selected, placed'[selected])
    BY <2>2, RenderInv, Zenon DEF renderWidgets
  <2> QED
    BY <1>5, <2>1, <2>2 DEF addWidget
<1>6. ASSUME NEW t \in Types, removeWidget(t) PROVE Inv'
  BY <1>6, RenderInv, Zenon DEF removeWidget, renderWidgets
<1>7. ASSUME NEW t \in Types, openSettings(t) PROVE Inv'
  <2>1. PICK s \in recorded : s[2] = t
    BY <1>7 DEF openSettings
  <2>2. s \in Slots /\ live[s] > 0
    BY DEF Inv, Counted
  <2>3. s[1] \in Places /\ s = <<s[1], t>>
    BY <2>1, <2>2 DEF Slots
  <2>4. \E p \in Places : live[<<p, t>>] > 0
    BY <2>2, <2>3
  <2> QED
    BY <1>7, <2>4 DEF openSettings, Inv, Counted, OverlayHasCard
<1>8. ASSUME NEW t \in Types, closeSettings(t) PROVE Inv'
  BY <1>8 DEF closeSettings, Inv, Counted, OverlayHasCard
<1> QED
  BY <1>1, <1>2, <1>3, <1>4, <1>5, <1>6, <1>7, <1>8 DEF Page

LEMMA BoardInv == Inv /\ Board => Inv'
<1> SUFFICES ASSUME Inv, Board PROVE Inv'
  OBVIOUS
<1>1. CASE HostsGone
  BY <1>1, QuietInv DEF HostsGone, Quiet
<1>2. ASSUME NEW boxes \in Layouts, Relayout(boxes) PROVE Inv'
  BY <1>2, RenderInv, Zenon DEF Relayout, renderLayout
<1>3. ASSUME NEW boxes \in Layouts, NEW h \in Hosts, selectHost(h, boxes) PROVE Inv'
  BY <1>3, SwitchInv, Zenon DEF selectHost
<1>4. ASSUME NEW boxes \in Layouts, NEW h \in Hosts, deleteHost(h, boxes) PROVE Inv'
  <2>1. CASE \E g, places : Switch(g, boxes, places)
    BY <2>1, SwitchInv, Zenon
  <2>2. CASE renderLayout(<<>>)
    BY <2>2, RenderInv, Zenon DEF renderLayout
  <2>3. CASE Quiet
    BY <2>3, QuietInv DEF Quiet
  <2> QED
    BY <1>4, <2>1, <2>2, <2>3, Zenon DEF deleteHost
<1> QED
  BY <1>1, <1>2, <1>3, <1>4 DEF Board

LEMMA ArrivesInv == Inv /\ Arrives => Inv'
<1> SUFFICES ASSUME Inv, Arrives PROVE Inv'
  OBVIOUS
<1>1. CASE HistoryLoaded
  <2>1. CASE Quiet
    BY <2>1, QuietInv DEF Quiet
  <2>2. CASE renderWidgets(selected, widgetsForHost(placed, selected))
    BY <2>2, RenderInv, Zenon DEF renderWidgets
  <2> QED
    BY <1>1, <2>1, <2>2 DEF HistoryLoaded, RenderIfOpen
<1>2. ASSUME NEW i \in DOMAIN requests, NEW ok \in BOOLEAN, CatalogAnswered(i, ok) PROVE Inv'
  <2>1. UNCHANGED overlay
    BY <1>2 DEF CatalogAnswered
  <2>2. CASE UNCHANGED <<recorded, live>>
    BY <2>1, <2>2, QuietInv
  <2>3. CASE \E types, known : ResumePage(types, known)
    BY <2>1, <2>3, ResumeInv, Zenon DEF ResumePage
  <2>4. CASE \E boxes, known : ResumeBoard(boxes, known)
    BY <2>1, <2>4, ResumeInv, Zenon DEF ResumeBoard
  <2> QED
    BY <1>2, <2>2, <2>3, <2>4, Zenon DEF CatalogAnswered
<1>3. ASSUME NEW t \in Types, NEW ok \in BOOLEAN, ScriptLoaded(t, ok) PROVE Inv'
  BY <1>3, ResumeInv, Zenon DEF ScriptLoaded
<1> QED
  BY <1>1, <1>2, <1>3 DEF Arrives

LEMMA StepInv == Inv /\ [Next]_vars => Inv'
<1> SUFFICES ASSUME Inv, [Next]_vars PROVE Inv'
  OBVIOUS
<1>1. CASE Page \/ Board \/ Arrives
  BY <1>1, PageInv, BoardInv, ArrivesInv
<1>2. ASSUME NEW places \in [Hosts -> SUBSET Types], NEW boxes \in Layouts,
             loadServerConfig(places, boxes)
      PROVE  Inv'
  <2>1. CASE Quiet
    BY <2>1, QuietInv DEF Quiet
  <2>2. CASE \E in, h, types : Render(in, boxes, h, types)
    BY <2>2, RenderInv, Zenon
  <2> QED
    BY <1>2, <2>1, <2>2, Zenon DEF loadServerConfig, renderLayout
<1>3. CASE UNCHANGED vars
  BY <1>3, QuietInv DEF vars
<1> QED
  BY <1>1, <1>2, <1>3 DEF Next

LEMMA InitInv == Init => Inv
BY DEF Init, Inv, Counted, OverlayHasCard

(* However renders, answers and scripts cross, the settings of a widget    *)
(* never outlive its last instance.                                        *)
THEOREM WidgetOverlay == Spec => []OverlayHasCard
<1>1. Inv => OverlayHasCard
  BY DEF Inv
<1> QED
  BY <1>1, InitInv, StepInv, PTL DEF Spec

---------------------------------------------------------------------------
(* Nothing is left behind in a place that no draw has overtaken.           *)
Alone(p) ==
    \A i, j \in DOMAIN requests : requests[i].for = p /\ requests[j].for = p => i = j

PageOK ==
    "page" \notin overtaken =>
        /\ \A t \in Types : /\ OnRecord(<<"page", t>>)
                            /\ body[<<"page", t>>] = "loading" => live[<<"page", t>>] = 0
        /\ Alone("page")
        /\ Awaited("page") =>
              \A t \in Types : live[<<"page", t>>] = 0 /\ body[<<"page", t>>] # "loading"

BoardOK ==
    "board" \notin overtaken =>
        /\ \A t \in Types : OnRecord(<<"board", t>>)
        /\ Alone("board")
        /\ \A i \in DOMAIN requests : requests[i].for = "board" =>
              \A t \in ToSet(requests[i].boxes) : body[<<"board", t>>] # "none"
        /\ Awaited("board") =>
              /\ \A t \in Types : live[<<"board", t>>] = 0
              /\ \A i \in Passes : waiting[i] = <<>>
        /\ waiting \in [Passes -> Seq(Types)]
        /\ \A i, j \in Passes : waiting[i] # <<>> /\ waiting[j] # <<>> => i = j
        /\ \A i \in Passes : /\ IsInjective(waiting[i])
                             /\ \A t \in ToSet(waiting[i]) : live[<<"board", t>>] = 0

CatalogOK ==
    ~catalog => \A t \in Types : script[t] = "none" /\ body[<<"page", t>>] # "loading"

Shape ==
    /\ catalog \in BOOLEAN
    /\ selected \in Hosts \cup {NoHost}
    /\ requests \in Seq(Request)

Tidy == Shape /\ CatalogOK /\ PageOK /\ BoardOK

LEMMA NothingDone == \A out : Done(<<>>, out) = {}
<1> SUFFICES ASSUME NEW out PROVE Done(<<>>, out) = {}
  OBVIOUS
<1> DEFINE S == {i \in DOMAIN <<>> : \A j \in 1 .. i : out[<<>>[j]] # "loading"}
<1>1. S = {}
  OBVIOUS
<1> HIDE DEF S
<1>2. Cardinality(S) = 0
  BY <1>1, FS_EmptySet
<1>3. Past(<<>>, out) = 0
  BY <1>2 DEF Past, S
<1> QED
  BY <1>3 DEF Done

(* How many of its boxes a pass is done with.                              *)
LEMMA PastIn ==
  ASSUME NEW boxes \in Seq(Types), NEW out
  PROVE  Past(boxes, out) \in Nat /\ Past(boxes, out) <= Len(boxes) /\ Len(boxes) \in Nat
<1> DEFINE S == {i \in DOMAIN boxes : \A j \in 1 .. i : out[boxes[j]] # "loading"}
<1>1. Len(boxes) \in Nat /\ DOMAIN boxes = 1 .. Len(boxes)
  OBVIOUS
<1>2. IsFiniteSet(1 .. Len(boxes)) /\ Cardinality(1 .. Len(boxes)) = Len(boxes)
  <2>1. 1 \in Int /\ Len(boxes) \in Int
    BY <1>1
  <2>2. Cardinality(1 .. Len(boxes)) = IF 1 > Len(boxes) THEN 0 ELSE Len(boxes) - 1 + 1
    BY <2>1, FS_Interval
  <2>3. Len(boxes) = IF 1 > Len(boxes) THEN 0 ELSE Len(boxes) - 1 + 1
    BY <1>1
  <2>4. IsFiniteSet(1 .. Len(boxes))
    BY <2>1, FS_Interval
  <2> QED
    BY <2>2, <2>3, <2>4
<1>3. S \subseteq 1 .. Len(boxes)
  BY <1>1
<1>4. Past(boxes, out) = Cardinality(S)
  BY DEF Past
<1> HIDE DEF S
<1>5. IsFiniteSet(S) /\ Cardinality(S) <= Cardinality(1 .. Len(boxes))
  BY <1>2, <1>3, FS_Subset
<1>6. Cardinality(S) \in Nat
  BY <1>5, FS_CardinalityType
<1> QED
  BY <1>1, <1>2, <1>4, <1>5, <1>6

(* The boxes a pass is done with, and those it has left, are different.    *)
LEMMA DoneAndLeft ==
  ASSUME NEW boxes \in Seq(Types), IsInjective(boxes), NEW out
  PROVE  /\ Left(boxes, out) \in Seq(Types)
         /\ IsInjective(Left(boxes, out))
         /\ \A t \in ToSet(Left(boxes, out)) : t \in ToSet(boxes) /\ t \notin Done(boxes, out)
         /\ Done(boxes, out) \subseteq ToSet(boxes)
<1> DEFINE n == Past(boxes, out)
           rest == Left(boxes, out)
<1>1. Len(boxes) \in Nat /\ DOMAIN boxes = 1 .. Len(boxes)
  OBVIOUS
<1>2. n \in Nat /\ n <= Len(boxes)
  BY PastIn
<1>3. rest = SubSeq(boxes, n + 1, Len(boxes)) /\ Done(boxes, out) = {boxes[i] : i \in 1 .. n}
  BY DEF Left, Done
<1> HIDE DEF n, rest
<1>4. /\ rest \in Seq(Types) /\ Len(rest) = Len(boxes) - n
      /\ \A i \in 1 .. Len(rest) : rest[i] = boxes[n + i]
  <2>1. n + 1 \in Int /\ Len(boxes) \in Int /\ \A i \in n + 1 .. Len(boxes) : boxes[i] \in Types
    BY <1>1, <1>2
  <2>2. /\ rest \in Seq(Types)
        /\ Len(rest) = IF n + 1 <= Len(boxes) THEN Len(boxes) - (n + 1) + 1 ELSE 0
        /\ \A i \in 1 .. Len(boxes) - (n + 1) + 1 : rest[i] = boxes[n + 1 + i - 1]
    BY <1>3, <2>1, SubSeqProperties
  <2>3. Len(rest) = Len(boxes) - n
    <3>1. \A k, l \in Nat : k <= l => l - k = IF k + 1 <= l THEN l - (k + 1) + 1 ELSE 0
      OBVIOUS
    <3>2. Len(boxes) - n = IF n + 1 <= Len(boxes) THEN Len(boxes) - (n + 1) + 1 ELSE 0
      BY <1>1, <1>2, <3>1
    <3> QED
      BY <2>2, <3>2
  <2>4. ASSUME NEW i \in 1 .. Len(rest) PROVE rest[i] = boxes[n + i]
    <3>1. i \in 1 .. Len(boxes) - (n + 1) + 1 /\ n + 1 + i - 1 = n + i
      BY <1>1, <1>2, <2>3
    <3> QED
      BY <2>2, <3>1
  <2> QED
    BY <2>2, <2>3, <2>4
<1>5. /\ \A i \in DOMAIN rest : rest[i] = boxes[n + i] /\ n + i \in DOMAIN boxes /\ n + i \notin 1 .. n
      /\ DOMAIN rest \subseteq Int
  BY <1>1, <1>2, <1>4
<1>6. IsInjective(rest)
  BY <1>1, <1>2, <1>5 DEF IsInjective
<1>7. 1 .. n \subseteq DOMAIN boxes
  BY <1>1, <1>2
<1>8. \A t \in ToSet(rest) : t \in ToSet(boxes) /\ t \notin Done(boxes, out)
  <2> SUFFICES ASSUME NEW i \in DOMAIN rest
               PROVE  rest[i] \in ToSet(boxes) /\ rest[i] \notin Done(boxes, out)
    BY DEF ToSet
  <2>1. rest[i] = boxes[n + i] /\ n + i \in DOMAIN boxes /\ n + i \notin 1 .. n
    BY <1>5
  <2>2. \A j \in 1 .. n : boxes[j] # boxes[n + i]
    BY <1>7, <2>1 DEF IsInjective
  <2> QED
    BY <1>3, <2>1, <2>2 DEF ToSet
<1> QED
  BY <1>3, <1>4, <1>6, <1>7, <1>8 DEF rest, ToSet

(* What a pass over the board finds when it goes on is in the order of the *)
(* boxes it began with; while the board is the same, it is all of them.    *)
LEMMA FoundIn ==
  ASSUME NEW all \in Seq(Types)
  PROVE  /\ Found(all) \in Seq(Types)
         /\ (\A t \in ToSet(all) : body[<<"board", t>>] # "none") => Found(all) = all
<1> DEFINE n == Len(all)
           next(f, i) == IF body[<<"board", all[i]>>] # "none" THEN Append(f, all[i]) ELSE f
           Fits(f) == f = [i \in 0 .. n |-> IF i = 0 THEN <<>> ELSE next(f[i - 1], i)]
           found == CHOOSE f : Fits(f)
<1>1. Found(all) = found[n]
  BY DEF Found
<1>0. n \in Nat
  OBVIOUS
<1>2. \A i \in 1 .. n : all[i] \in Types
  BY ElementOfSeq
<1>3. ASSUME NEW f \in Seq(Types), NEW i \in 1 .. n PROVE next(f, i) \in Seq(Types)
  <2>1. Append(f, all[i]) \in Seq(Types)
    BY <1>2, AppendProperties
  <2> QED
    BY <2>1
<1>4. \E f \in [0 .. n -> Seq(Types)] : Fits(f)
  <2> HIDE DEF next
  <2> DEFINE step == [p \in Seq(Types) \X (1 .. n) |-> next(p[1], p[2])]
  <2>1. step \in [Seq(Types) \X (1 .. n) -> Seq(Types)]
    BY <1>3
  <2>2. \A f \in Seq(Types), i \in 1 .. n : step[<<f, i>>] = next(f, i)
    OBVIOUS
  <2>3. <<>> \in Seq(Types)
    OBVIOUS
  <2> HIDE DEF step, n
  <2>4. PICK f \in [0 .. n -> Seq(Types)] : Unfolds(f, n, <<>>, step)
    BY <1>0, <2>1, <2>3, Recursive, Zenon
  <2>5. ASSUME NEW i \in 1 .. n PROVE f[i] = next(f[i - 1], i)
    <3>1. f[i - 1] \in Seq(Types)
      BY <1>0
    <3> QED
      BY <2>2, <2>4, <3>1 DEF Unfolds
  <2>6. f[0] = <<>>
    BY <2>4 DEF Unfolds
  <2>7. Fits(f)
    <3>1. \A i \in 0 .. n : i = 0 \/ i \in 1 .. n
      BY <1>0
    <3>2. \A i \in 0 .. n : f[i] = IF i = 0 THEN <<>> ELSE next(f[i - 1], i)
      BY <2>5, <2>6, <3>1
    <3> QED
      BY <3>2
  <2> QED
    BY <2>7
<1>5. Fits(found)
  <2> HIDE DEF Fits
  <2> QED
    BY <1>4
<1> HIDE DEF found, n, next
<1>6. found[0] = <<>> /\ \A i \in 1 .. n : found[i] = next(found[i - 1], i)
  BY <1>0, <1>5
<1> HIDE DEF Fits
<1>7. found[n] \in Seq(Types)
  <2> DEFINE S == {i \in 0 .. n : found[i] \in Seq(Types)}
  <2>1. 0 \in S
    BY <1>0, <1>6
  <2>2. \A i \in 1 .. n : i - 1 \in S => i \in S
    BY <1>3, <1>6
  <2>3. n \in S
    <3> HIDE DEF S
    <3>1. \A i \in 0 .. n : i \in S
      BY <1>0, <2>1, <2>2, UpTo, Zenon
    <3> QED
      BY <1>0, <3>1
  <2> QED
    BY <2>3
<1>8. ASSUME \A t \in ToSet(all) : body[<<"board", t>>] # "none" PROVE found[n] = all
  <2> DEFINE S == {i \in 0 .. n : found[i] = SubSeq(all, 1, i)}
  <2>1. 0 \in S
    <3>1. SubSeq(all, 1, 0) = <<>>
      BY SubSeqEmpty
    <3> QED
      BY <1>0, <1>6, <3>1
  <2>2. ASSUME NEW i \in 1 .. n, i - 1 \in S PROVE i \in S
    <3>1. all[i] \in ToSet(all)
      BY DEF ToSet, n
    <3>2. found[i] = Append(SubSeq(all, 1, i - 1), all[i])
      BY <1>6, <1>8, <2>2, <3>1 DEF next
    <3>3. SubSeq(all, 1, i) = Append(SubSeq(all, 1, i - 1), all[i])
      BY PrefixGrows DEF n
    <3> QED
      BY <3>2, <3>3
  <2>3. n \in S
    <3> HIDE DEF S
    <3>1. \A i \in 0 .. n : i \in S
      BY <1>0, <2>1, <2>2, UpTo, Zenon
    <3> QED
      BY <1>0, <3>1
  <2>4. SubSeq(all, 1, n) = all
    BY SubSeqFull DEF n
  <2> QED
    BY <2>3, <2>4
<1> QED
  BY <1>1, <1>7, <1>8

(* What a step with Mount does to a card of the page.                      *)
LEMMA MountPage ==
  ASSUME NEW cards, NEW passes, NEW out, NEW shown, NEW base \in [Slots -> Nat],
         Mount(cards, passes, out, shown, base), NEW t \in Types
  PROVE  LET s == <<"page", t>> IN
         /\ t \in cards /\ out[t] = "up" => live'[s] = base[s] + 1 /\ s \in recorded'
         /\ ~(t \in cards /\ out[t] = "up") =>
               /\ live'[s] = base[s]
               /\ s \in recorded' <=> s \in recorded /\ base[s] = live[s]
         /\ body'[s] = IF t \in cards THEN out[t] ELSE shown[s]
<1> DEFINE s == <<"page", t>>
           doneBy(r) == {i \in Passes : r[1] = "board" /\ r[2] \in Done(passes[i], out)}
           mounts(r) == IF out[r[2]] # "up" THEN 0
                        ELSE IF r[1] = "page" /\ r[2] \in cards THEN 1 ELSE Cardinality(doneBy(r))
<1>1. /\ live' = [r \in Slots |-> base[r] + mounts(r)]
      /\ recorded' = {r \in Slots : mounts(r) > 0 \/ (r \in recorded /\ base[r] = live[r])}
      /\ body' = [r \in Slots |-> IF (r[1] = "page" /\ r[2] \in cards) \/ doneBy(r) # {}
                                  THEN out[r[2]] ELSE shown[r]]
  BY DEF Mount
<1>2. s \in Slots /\ s[1] = "page" /\ s[2] = t
  BY DEF Slots
<1>3. doneBy(s) = {}
  BY <1>2
<1>4. Cardinality(doneBy(s)) = 0
  BY <1>3, FS_EmptySet
<1>5. mounts(s) = IF t \in cards /\ out[t] = "up" THEN 1 ELSE 0
  BY <1>2, <1>4
<1> HIDE DEF mounts
<1>6. live'[s] = base[s] + mounts(s) /\ base[s] \in Nat
  BY <1>1, <1>2
<1>7. s \in recorded' <=> mounts(s) > 0 \/ (s \in recorded /\ base[s] = live[s])
  BY <1>1, <1>2
<1>8. body'[s] = IF t \in cards THEN out[t] ELSE shown[s]
  BY <1>1, <1>2, <1>3
<1> QED
  BY <1>5, <1>6, <1>7, <1>8

(* And to a box of the board, when at most one pass goes on.               *)
LEMMA MountBoard ==
  ASSUME NEW cards, NEW passes, NEW out, NEW shown, NEW base \in [Slots -> Nat],
         Mount(cards, passes, out, shown, base), NEW t \in Types,
         NEW n \in Passes, \A i \in Passes \ {n} : passes[i] = <<>>
  PROVE  LET s == <<"board", t>>
             done == Done(passes[n], out) IN
         /\ t \in done /\ out[t] = "up" => live'[s] = base[s] + 1 /\ s \in recorded'
         /\ ~(t \in done /\ out[t] = "up") =>
               /\ live'[s] = base[s]
               /\ s \in recorded' <=> s \in recorded /\ base[s] = live[s]
         /\ body'[s] = IF t \in done THEN out[t] ELSE shown[s]
<1> DEFINE s == <<"board", t>>
           done == Done(passes[n], out)
           doneBy(r) == {i \in Passes : r[1] = "board" /\ r[2] \in Done(passes[i], out)}
           mounts(r) == IF out[r[2]] # "up" THEN 0
                        ELSE IF r[1] = "page" /\ r[2] \in cards THEN 1 ELSE Cardinality(doneBy(r))
<1>1. /\ live' = [r \in Slots |-> base[r] + mounts(r)]
      /\ recorded' = {r \in Slots : mounts(r) > 0 \/ (r \in recorded /\ base[r] = live[r])}
      /\ body' = [r \in Slots |-> IF (r[1] = "page" /\ r[2] \in cards) \/ doneBy(r) # {}
                                  THEN out[r[2]] ELSE shown[r]]
  BY DEF Mount
<1>2. s \in Slots /\ s[1] = "board" /\ s[2] = t
  BY DEF Slots
<1>3. doneBy(s) = IF t \in done THEN {n} ELSE {}
  <2>1. \A i \in Passes \ {n} : Done(passes[i], out) = {}
    BY NothingDone
  <2> QED
    BY <1>2, <2>1
<1>4. Cardinality(doneBy(s)) = IF t \in done THEN 1 ELSE 0
  <2> HIDE DEF doneBy, done
  <2> QED
    BY <1>3, FS_EmptySet, FS_Singleton
<1>5. mounts(s) = IF t \in done /\ out[t] = "up" THEN 1 ELSE 0
  BY <1>2, <1>4
<1>6. doneBy(s) # {} <=> t \in done
  BY <1>3
<1> HIDE DEF mounts, doneBy, done
<1>7. live'[s] = base[s] + mounts(s) /\ base[s] \in Nat
  BY <1>1, <1>2
<1>8. s \in recorded' <=> mounts(s) > 0 \/ (s \in recorded /\ base[s] = live[s])
  BY <1>1, <1>2
<1>9. body'[s] = IF t \in done THEN out[t] ELSE shown[s]
  BY <1>1, <1>2, <1>6
<1> QED
  BY <1>5, <1>7, <1>8, <1>9 DEF done

(* A request that is answered is taken out of the queue.                   *)
LEMMA Taken ==
  ASSUME requests \in Seq(Request), NEW i \in DOMAIN requests, requests' = RemoveAt(requests, i)
  PROVE  /\ requests' \in Seq(Request) /\ Len(requests') = Len(requests) - 1
         /\ \A j \in DOMAIN requests' :
               LET k == IF j < i THEN j ELSE j + 1 IN
               j \in Int /\ k \in DOMAIN requests /\ k # i /\ requests'[j] = requests[k]
<1>1. i \in 1 .. Len(requests) /\ Len(requests) \in Nat /\ DOMAIN requests = 1 .. Len(requests)
  OBVIOUS
<1>2. /\ requests' \in Seq(Request) /\ Len(requests') = Len(requests) - 1
      /\ \A j \in 1 .. Len(requests) - 1 :
            requests'[j] = IF j < i THEN requests[j] ELSE requests[j + 1]
  BY <1>1, RemoveAtElements
<1>3. DOMAIN requests' = 1 .. Len(requests) - 1
  BY <1>2
<1> QED
  BY <1>1, <1>2, <1>3

LEMMA Answered ==
  ASSUME requests \in Seq(Request), NEW i \in DOMAIN requests, requests' = RemoveAt(requests, i)
  PROVE  /\ requests' \in Seq(Request)
         /\ \A j \in DOMAIN requests' : \E k \in DOMAIN requests : requests'[j] = requests[k]
         /\ \A p : (Alone(p) => Alone(p)') /\ (Awaited(p)' => Awaited(p))
         /\ \A p : Alone(p) /\ requests[i].for = p => ~Awaited(p)'
<1> DEFINE old(j) == IF j < i THEN j ELSE j + 1
<1>1. /\ requests' \in Seq(Request)
      /\ \A j \in DOMAIN requests' : /\ j \in Int /\ old(j) \in DOMAIN requests /\ old(j) # i
                                     /\ requests'[j] = requests[old(j)]
  BY Taken
<1>2. i \in Int
  OBVIOUS
<1>3. \A j, k \in Int : old(j) = old(k) => j = k
  BY <1>2
<1> HIDE DEF old
<1>4. ASSUME NEW p, Alone(p) PROVE Alone(p)'
  BY <1>1, <1>3, <1>4 DEF Alone
<1>5. ASSUME NEW p, Awaited(p)' PROVE Awaited(p)
  BY <1>1, <1>5 DEF Awaited
<1>6. ASSUME NEW p, Alone(p), requests[i].for = p PROVE ~Awaited(p)'
  BY <1>1, <1>6 DEF Alone, Awaited
<1> QED
  BY <1>1, <1>4, <1>5, <1>6

(* Requests that are made come last, and there is one of a kind.           *)
LEMMA Asked ==
  ASSUME requests \in Seq(Request), NEW asked \in Seq(Request), requests' = requests \o asked,
         \A j, k \in DOMAIN asked : asked[j].for = asked[k].for => j = k
  PROVE  /\ requests' \in Seq(Request)
         /\ \A j \in DOMAIN requests' : \/ \E k \in DOMAIN requests : requests'[j] = requests[k]
                                        \/ \E k \in DOMAIN asked : requests'[j] = asked[k]
         /\ \A p : (\A j \in DOMAIN asked : asked[j].for # p) =>
                      (Alone(p) => Alone(p)') /\ (Awaited(p)' => Awaited(p))
         /\ \A p : ~Awaited(p) => Alone(p)'
<1> DEFINE n == Len(requests)
<1>1. /\ requests' \in Seq(Request) /\ n \in Nat /\ Len(asked) \in Nat
      /\ DOMAIN requests = 1 .. n /\ DOMAIN asked = 1 .. Len(asked)
      /\ DOMAIN requests' = 1 .. n + Len(asked)
  BY ConcatProperties
<1>2. \A j \in DOMAIN requests' : IF j <= n THEN j \in DOMAIN requests /\ requests'[j] = requests[j]
                                  ELSE j - n \in DOMAIN asked /\ requests'[j] = asked[j - n]
  BY <1>1
<1>3. \A j, k \in DOMAIN requests' : j - n = k - n => j = k
  BY <1>1
<1> HIDE DEF n
<1>4. ASSUME NEW j \in DOMAIN requests'
      PROVE  \/ \E k \in DOMAIN requests : requests'[j] = requests[k]
             \/ \E k \in DOMAIN asked : requests'[j] = asked[k]
  BY <1>2
<1>5. ASSUME NEW p, \A j \in DOMAIN asked : asked[j].for # p
      PROVE  (Alone(p) => Alone(p)') /\ (Awaited(p)' => Awaited(p))
  BY <1>2, <1>5 DEF Alone, Awaited
<1>6. ASSUME NEW p, ~Awaited(p)
      PROVE  Alone(p)'
  BY <1>2, <1>3, <1>6 DEF Alone, Awaited
<1> QED
  BY <1>1, <1>4, <1>5, <1>6

(* What a draw asks of the catalog: nothing for a place that is not drawn, *)
(* nor when the catalog is there.                                          *)
LEMMA RenderAsks ==
  ASSUME Shape, NEW places \in SUBSET Places, NEW boxes \in Layouts,
         NEW h \in Hosts \cup {NoHost}, NEW types, Render(places, boxes, h, types)
  PROVE  /\ requests' \in Seq(Request)
         /\ \A j \in DOMAIN requests' :
               \/ \E k \in DOMAIN requests : requests'[j] = requests[k]
               \/ requests'[j].for = "page"
               \/ "board" \in places /\ requests'[j].boxes = boxes
         /\ \A p \in Places : p \notin places \/ catalog =>
               (Alone(p) => Alone(p)') /\ (Awaited(p)' => Awaited(p))
         /\ \A p \in Places : ~Awaited(p) => Alone(p)'
<1>1. CASE catalog
  <2>1. requests' = requests
    BY <1>1 DEF Render
  <2> QED
    BY <2>1 DEF Alone, Awaited, Shape
<1>2. CASE ~catalog
  <2> DEFINE rb == [for |-> "board", boxes |-> boxes]
             rp == [for |-> "page", host |-> h]
             asked == (IF "board" \in places /\ boxes # <<>> THEN <<rb>> ELSE <<>>)
                      \o (IF "page" \in places THEN <<rp>> ELSE <<>>)
  <2>1. requests' = requests \o asked
    BY <1>2 DEF Render
  <2>2. rb \in Request /\ rp \in Request
    BY DEF Request
  <2>3. rb.for = "board" /\ rb.boxes = boxes /\ rp.for = "page"
    OBVIOUS
  <2> HIDE DEF rb, rp
  <2>4. /\ asked \in Seq(Request) /\ DOMAIN asked \subseteq Int
        /\ \A j, k \in DOMAIN asked : j # k => asked[j].for # asked[k].for
        /\ \A k \in DOMAIN asked : \/ asked[k] = rp /\ "page" \in places
                                   \/ asked[k] = rb /\ "board" \in places
    <3> DEFINE A == IF "board" \in places /\ boxes # <<>> THEN <<rb>> ELSE <<>>
               B == IF "page" \in places THEN <<rp>> ELSE <<>>
    <3>1. /\ A \in Seq(Request) /\ Len(A) \in {0, 1} /\ \A j \in 1 .. Len(A) : A[j] = rb
          /\ Len(A) # 0 => "board" \in places
      BY <2>2
    <3>2. /\ B \in Seq(Request) /\ Len(B) \in {0, 1} /\ \A j \in 1 .. Len(B) : B[j] = rp
          /\ Len(B) # 0 => "page" \in places
      BY <2>2
    <3>3. asked = A \o B
      OBVIOUS
    <3> HIDE DEF asked, A, B
    <3>4. /\ asked \in Seq(Request) /\ Len(asked) = Len(A) + Len(B)
          /\ \A j \in 1 .. Len(A) + Len(B) : asked[j] = IF j <= Len(A) THEN A[j] ELSE B[j - Len(A)]
      BY <3>1, <3>2, <3>3, ConcatProperties
    <3>5. DOMAIN asked = 1 .. Len(A) + Len(B)
      BY <3>4
    <3>6. ASSUME NEW j \in DOMAIN asked
          PROVE  IF j <= Len(A) THEN j = 1 /\ asked[j] = rb /\ "board" \in places
                 ELSE j = Len(A) + 1 /\ asked[j] = rp /\ "page" \in places
      <4>1. j \in 1 .. Len(A) + Len(B)
        BY <3>5
      <4>2. CASE j <= Len(A)
        <5>1. j = 1 /\ j \in 1 .. Len(A) /\ Len(A) # 0
          BY <3>1, <3>2, <4>1, <4>2
        <5>2. asked[j] = A[j]
          BY <3>4, <4>1, <4>2
        <5> QED
          BY <3>1, <4>2, <5>1, <5>2
      <4>3. CASE ~(j <= Len(A))
        <5>1. j = Len(A) + 1 /\ j - Len(A) \in 1 .. Len(B) /\ Len(B) # 0
          BY <3>1, <3>2, <4>1, <4>3
        <5>2. asked[j] = B[j - Len(A)]
          BY <3>4, <4>1, <4>3
        <5> QED
          BY <3>2, <4>3, <5>1, <5>2
      <4> QED
        BY <4>2, <4>3
    <3> QED
      BY <2>3, <3>1, <3>4, <3>5, <3>6
  <2>5. asked \in Seq(Request)
    BY <2>4
  <2>6. \A j, k \in DOMAIN asked : asked[j].for = asked[k].for => j = k
    BY <2>4
  <2>7. \A k \in DOMAIN asked : \/ asked[k] = rp /\ "page" \in places
                                \/ asked[k] = rb /\ "board" \in places
    BY <2>4
  <2>8. requests \in Seq(Request)
    BY DEF Shape
  <2> HIDE DEF asked
  <2>9. \A p \in Places : p \notin places => \A k \in DOMAIN asked : asked[k].for # p
    BY <2>3, <2>7
  <2> QED
    <3>1. /\ requests' \in Seq(Request)
          /\ \A j \in DOMAIN requests' : \/ \E k \in DOMAIN requests : requests'[j] = requests[k]
                                         \/ \E k \in DOMAIN asked : requests'[j] = asked[k]
          /\ \A p : (\A j \in DOMAIN asked : asked[j].for # p) =>
                       (Alone(p) => Alone(p)') /\ (Awaited(p)' => Awaited(p))
          /\ \A p : ~Awaited(p) => Alone(p)'
      BY <2>1, <2>5, <2>6, <2>8, Asked
    <3> QED
      BY <1>2, <2>3, <2>7, <2>9, <3>1
<1> QED
  BY <1>1, <1>2

(* What a draw leaves in a place: nothing where it stops what is on record *)
(* and nothing else ran.                                                   *)
LEMMA Emptied ==
  ASSUME Counted, NEW places, NEW p \in Places, NEW t \in Types, OnRecord(<<p, t>>)
  PROVE  LET s == <<p, t>> IN
         /\ p \in places => /\ Remaining(places)[s] = 0
                            /\ ~(s \in recorded /\ Remaining(places)[s] = live[s])
         /\ p \notin places => Remaining(places)[s] = live[s]
<1> DEFINE s == <<p, t>>
<1>1. s \in Slots /\ s[1] = p /\ live[s] \in Nat
  BY DEF Slots, Counted
<1>2. Remaining(places)[s] = IF p \in places /\ s \in recorded THEN live[s] - 1 ELSE live[s]
  BY <1>1 DEF Remaining, Stopped
<1>3. live[s] = IF s \in recorded THEN 1 ELSE 0
  BY DEF OnRecord
<1> HIDE DEF s
<1> QED
  BY <1>1, <1>2, <1>3 DEF s

LEMMA RenderPageOK ==
  ASSUME Counted, Shape, CatalogOK, PageOK, NEW places \in SUBSET Places, NEW boxes \in Layouts,
         NEW h \in Hosts \cup {NoHost}, NEW types, Render(places, boxes, h, types)
  PROVE  PageOK'
<1> SUFFICES ASSUME "page" \notin overtaken' PROVE PageOK'
  BY DEF PageOK
<1> DEFINE left == Remaining(places)
           cards == IF "page" \in places THEN types ELSE {}
           out == [t \in Types |-> Outcome(t, TRUE)]
           shown == [s \in Slots |->
             IF s[1] \notin places THEN body[s]
             ELSE IF s[1] = "board" THEN IF s[2] \in ToSet(boxes) THEN "loading" ELSE "none"
             ELSE IF catalog THEN "none" ELSE body[s]]
<1>1. /\ "page" \notin overtaken
      /\ "page" \in places => ~Awaited("page")
  BY DEF Render
<1>2. /\ \A t \in Types : /\ OnRecord(<<"page", t>>)
                          /\ body[<<"page", t>>] = "loading" => live[<<"page", t>>] = 0
      /\ Alone("page")
      /\ Awaited("page") =>
            \A t \in Types : live[<<"page", t>>] = 0 /\ body[<<"page", t>>] # "loading"
  BY <1>1 DEF PageOK
<1>3. PICK now \in {cards, {}} : /\ now = {} <=> (~catalog \/ cards = {})
                                 /\ \E passes : Mount(now, passes, out, shown, left)
  <2>1. CASE catalog
    BY <2>1 DEF Render, Remaining
  <2>2. CASE ~catalog
    BY <2>2 DEF Render, Remaining
  <2> QED
    BY <2>1, <2>2
<1>4. PICK passes : Mount(now, passes, out, shown, left)
  BY <1>3
<1>5. left \in [Slots -> Nat]
  BY RemainingNat
<1>6. Alone("page")' /\ ("page" \notin places \/ catalog => (Awaited("page")' => Awaited("page")))
  BY <1>1, <1>2, RenderAsks
<1>7. ASSUME NEW t \in Types
      PROVE  LET s == <<"page", t>> IN
             /\ t \in now /\ out[t] = "up" => live'[s] = left[s] + 1 /\ s \in recorded'
             /\ ~(t \in now /\ out[t] = "up") =>
                   /\ live'[s] = left[s]
                   /\ s \in recorded' <=> s \in recorded /\ left[s] = live[s]
             /\ body'[s] = IF t \in now THEN out[t] ELSE shown[s]
  <2> HIDE DEF left, out, shown, cards
  <2> QED
    BY <1>4, <1>5, MountPage
<1>8. CASE "page" \in places
  <2>1. ASSUME NEW t \in Types
        PROVE  /\ OnRecord(<<"page", t>>)'
               /\ body'[<<"page", t>>] = "loading" => live'[<<"page", t>>] = 0
               /\ ~catalog => live'[<<"page", t>>] = 0 /\ body'[<<"page", t>>] # "loading"
    <3> DEFINE s == <<"page", t>>
    <3>1. left[s] = 0 /\ ~(s \in recorded /\ left[s] = live[s])
      BY <1>2, <1>8, Emptied
    <3>2. s \in Slots /\ s[1] = "page"
      BY DEF Slots
    <3>3. ~catalog => shown[s] # "loading" /\ t \notin now
      BY <1>3, <1>8, <3>2 DEF CatalogOK
    <3>4. t \notin now => shown[s] # "loading"
      BY <1>8, <3>2, <3>3
    <3> HIDE DEF left, out, shown, cards
    <3>5. /\ t \in now /\ out[t] = "up" => live'[s] = 1 /\ s \in recorded' /\ body'[s] = "up"
          /\ ~(t \in now /\ out[t] = "up") => live'[s] = 0 /\ s \notin recorded'
      BY <1>7, <3>1
    <3> QED
      BY <1>7, <3>3, <3>5 DEF OnRecord
  <2>2. catalog => ~Awaited("page")'
    BY <1>1, <1>6, <1>8
  <2> QED
    BY <1>6, <2>1, <2>2 DEF PageOK
<1>9. CASE "page" \notin places
  <2>1. ASSUME NEW t \in Types
        PROVE  LET s == <<"page", t>> IN
               live'[s] = live[s] /\ body'[s] = body[s] /\ (s \in recorded' <=> s \in recorded)
    <3> DEFINE s == <<"page", t>>
    <3>1. left[s] = live[s]
      BY <1>2, <1>9, Emptied
    <3>2. s \in Slots /\ s[1] = "page"
      BY DEF Slots
    <3>3. shown[s] = body[s] /\ now = {}
      BY <1>3, <1>9, <3>2
    <3> HIDE DEF left, out, shown, cards
    <3> QED
      BY <1>7, <3>1, <3>3
  <2>2. \A t \in Types : OnRecord(<<"page", t>>)'
    BY <1>2, <2>1 DEF OnRecord
  <2> QED
    BY <1>2, <1>6, <1>9, <2>1, <2>2 DEF PageOK
<1> QED
  BY <1>8, <1>9

LEMMA RenderBoardOK ==
  ASSUME Counted, Shape, BoardOK, NEW places \in SUBSET Places, NEW boxes \in Layouts,
         NEW h \in Hosts \cup {NoHost}, NEW types, Render(places, boxes, h, types)
  PROVE  BoardOK'
<1> SUFFICES ASSUME "board" \notin overtaken' PROVE BoardOK'
  BY DEF BoardOK
<1> DEFINE left == Remaining(places)
           cards == IF "page" \in places THEN types ELSE {}
           out == [t \in Types |-> Outcome(t, TRUE)]
           rest == Left(boxes, out)
           shown == [s \in Slots |->
             IF s[1] \notin places THEN body[s]
             ELSE IF s[1] = "board" THEN IF s[2] \in ToSet(boxes) THEN "loading" ELSE "none"
             ELSE IF catalog THEN "none" ELSE body[s]]
           goes == "board" \in places /\ catalog
           pass == IF goes THEN boxes ELSE <<>>
           later == IF goes THEN rest ELSE <<>>
           box(t) == <<"board", t>>
<1>1. /\ "board" \notin overtaken
      /\ "board" \in places => ~Awaited("board")
  BY DEF Render
<1>2. /\ \A t \in Types : OnRecord(box(t))
      /\ Alone("board")
      /\ \A i \in DOMAIN requests : requests[i].for = "board" =>
            \A t \in ToSet(requests[i].boxes) : body[box(t)] # "none"
      /\ Awaited("board") =>
            /\ \A t \in Types : live[box(t)] = 0
            /\ \A i \in Passes : waiting[i] = <<>>
      /\ waiting \in [Passes -> Seq(Types)]
      /\ \A i, j \in Passes : waiting[i] # <<>> /\ waiting[j] # <<>> => i = j
      /\ \A i \in Passes : /\ IsInjective(waiting[i])
                           /\ \A t \in ToSet(waiting[i]) : live[box(t)] = 0
  BY <1>1 DEF BoardOK
<1>3. 0 \in Passes /\ NoPass \in [Passes -> Seq(Types)] /\ \A i \in Passes : NoPass[i] = <<>>
  BY DEF Passes, NoPass
<1>4. PICK now : Mount(now, Pass(0, pass), out, shown, left)
  <2>1. Pass(0, <<>>) = NoPass
    BY <1>3 DEF Pass, NoPass
  <2>2. CASE catalog
    BY <2>1, <2>2 DEF Render, Remaining
  <2>3. CASE ~catalog
    BY <2>1, <2>3 DEF Render, Remaining
  <2> QED
    BY <2>2, <2>3
<1>5. waiting' = IF "board" \in places THEN Pass(0, later) ELSE waiting
  <2>1. Pass(0, <<>>) = NoPass
    BY <1>3 DEF Pass, NoPass
  <2>2. CASE catalog
    BY <2>1, <2>2 DEF Render
  <2>3. CASE ~catalog
    BY <2>1, <2>3 DEF Render
  <2> QED
    BY <2>2, <2>3
<1>6. /\ boxes \in Seq(Types) /\ IsInjective(boxes)
      /\ IsInjective(<<>>) /\ ToSet(<<>>) = {} /\ <<>> \in Seq(Types)
  BY DEF IsInjective, ToSet
<1>7. /\ later \in Seq(Types) /\ IsInjective(later)
      /\ \A t \in ToSet(later) : t \in Types /\ t \notin Done(pass, out)
  <2>1. \A t \in ToSet(boxes) : t \in Types
    BY <1>6 DEF ToSet
  <2> QED
    BY <1>6, <2>1, DoneAndLeft
<1>8. Done(pass, out) \subseteq ToSet(pass) /\ (~goes => Done(pass, out) = {})
  BY <1>6, DoneAndLeft, NothingDone
<1>9. left \in [Slots -> Nat]
  BY RemainingNat
<1>10. ASSUME NEW t \in Types
       PROVE  LET s == box(t) IN
              /\ t \in Done(pass, out) /\ out[t] = "up" => live'[s] = left[s] + 1 /\ s \in recorded'
              /\ ~(t \in Done(pass, out) /\ out[t] = "up") =>
                    /\ live'[s] = left[s]
                    /\ s \in recorded' <=> s \in recorded /\ left[s] = live[s]
              /\ body'[s] = IF t \in Done(pass, out) THEN out[t] ELSE shown[s]
  <2>1. Pass(0, pass)[0] = pass /\ \A i \in Passes \ {0} : Pass(0, pass)[i] = <<>>
    BY <1>3 DEF Pass
  <2> HIDE DEF left, out, shown, pass
  <2> QED
    BY <1>3, <1>4, <1>9, <2>1, MountBoard
<1>11. /\ requests' \in Seq(Request)
       /\ \A j \in DOMAIN requests' :
             \/ \E k \in DOMAIN requests : requests'[j] = requests[k]
             \/ requests'[j].for = "page"
             \/ "board" \in places /\ requests'[j].boxes = boxes
       /\ "board" \notin places \/ catalog => (Awaited("board")' => Awaited("board"))
       /\ Alone("board")'
  BY <1>1, <1>2, RenderAsks
<1>12. CASE "board" \in places
  <2>1. ASSUME NEW t \in Types
        PROVE  /\ OnRecord(box(t))'
               /\ t \notin Done(pass, out) => live'[box(t)] = 0
               /\ ~goes /\ t \in ToSet(boxes) => body'[box(t)] # "none"
    <3>1. left[box(t)] = 0 /\ ~(box(t) \in recorded /\ left[box(t)] = live[box(t)])
      BY <1>2, <1>12, Emptied
    <3>2. shown[box(t)] = IF t \in ToSet(boxes) THEN "loading" ELSE "none"
      BY <1>12 DEF Slots
    <3> HIDE DEF left, out, shown, pass, goes
    <3> QED
      BY <1>8, <1>10, <3>1, <3>2 DEF OnRecord
  <2>2. /\ waiting' \in [Passes -> Seq(Types)]
        /\ \A i \in Passes : waiting'[i] = IF i = 0 THEN later ELSE <<>>
    BY <1>3, <1>5, <1>7, <1>12 DEF Pass
  <2> HIDE DEF later, pass, out
  <2>3. \A i, j \in Passes : waiting'[i] # <<>> /\ waiting'[j] # <<>> => i = j
    BY <2>2
  <2>4. \A i \in Passes : /\ IsInjective(waiting'[i])
                          /\ \A t \in ToSet(waiting'[i]) : live'[box(t)] = 0
    BY <1>6, <1>7, <2>1, <2>2
  <2>5. Awaited("board")' => ~goes
    BY <1>1, <1>11, <1>12
  <2>6. Awaited("board")' => /\ \A t \in Types : live'[box(t)] = 0
                             /\ \A i \in Passes : waiting'[i] = <<>>
    BY <1>8, <2>1, <2>2, <2>5 DEF later
  <2>7. ASSUME NEW i \in DOMAIN requests', requests'[i].for = "board"
        PROVE  \A t \in ToSet(requests'[i].boxes) : body'[box(t)] # "none"
    <3>1. requests'[i].boxes = boxes
      BY <1>1, <1>11, <1>12, <2>7 DEF Awaited
    <3>2. ~goes
      BY <2>5, <2>7 DEF Awaited
    <3>3. ToSet(boxes) \subseteq Types
      BY <1>6 DEF ToSet
    <3> QED
      BY <2>1, <3>1, <3>2, <3>3
  <2> QED
    BY <1>11, <2>1, <2>2, <2>3, <2>4, <2>6, <2>7 DEF BoardOK
<1>13. CASE "board" \notin places
  <2>1. ASSUME NEW t \in Types
        PROVE  /\ live'[box(t)] = live[box(t)] /\ body'[box(t)] = body[box(t)]
               /\ box(t) \in recorded' <=> box(t) \in recorded
    <3>1. left[box(t)] = live[box(t)]
      BY <1>2, <1>13, Emptied
    <3>2. shown[box(t)] = body[box(t)] /\ t \notin Done(pass, out)
      BY <1>8, <1>13 DEF Slots
    <3> HIDE DEF left, out, shown, pass
    <3> QED
      BY <1>10, <3>1, <3>2
  <2>2. \A t \in Types : OnRecord(box(t))'
    BY <1>2, <2>1 DEF OnRecord
  <2>3. waiting' = waiting /\ \A i \in Passes : ToSet(waiting[i]) \subseteq Types
    BY <1>2, <1>5, <1>13 DEF ToSet
  <2>4. \A i \in Passes : /\ IsInjective(waiting'[i])
                          /\ \A t \in ToSet(waiting'[i]) : live'[box(t)] = 0
    BY <1>2, <2>1, <2>3
  <2>5. ASSUME NEW i \in DOMAIN requests', requests'[i].for = "board"
        PROVE  \A t \in ToSet(requests'[i].boxes) : body'[box(t)] # "none"
    <3>1. PICK k \in DOMAIN requests : requests'[i] = requests[k]
      BY <1>11, <1>13, <2>5
    <3>2. requests[k].boxes \in Layouts
      BY <2>5, <3>1 DEF Shape, Request
    <3>3. ToSet(requests[k].boxes) \subseteq Types
      BY <3>2 DEF ToSet
    <3> QED
      BY <1>2, <2>1, <2>5, <3>1, <3>3
  <2> HIDE DEF pass, later, out
  <2> QED
    BY <1>2, <1>11, <1>13, <2>1, <2>2, <2>3, <2>4, <2>5 DEF BoardOK
<1> QED
  BY <1>12, <1>13

LEMMA RenderTidy ==
  ASSUME Inv, Tidy, NEW places \in SUBSET Places, NEW boxes \in Layouts,
         NEW h \in Hosts \cup {NoHost}, NEW types, Render(places, boxes, h, types),
         selected' \in Hosts \cup {NoHost}
  PROVE  Tidy'
<1> DEFINE left == Remaining(places)
           out == [t \in Types |-> Outcome(t, TRUE)]
           shown == [s \in Slots |->
             IF s[1] \notin places THEN body[s]
             ELSE IF s[1] = "board" THEN IF s[2] \in ToSet(boxes) THEN "loading" ELSE "none"
             ELSE IF catalog THEN "none" ELSE body[s]]
<1>1. PageOK' /\ BoardOK'
  BY RenderPageOK, RenderBoardOK DEF Inv, Tidy
<1>2. Shape'
  <2>1. catalog' = catalog
    BY DEF Render
  <2> QED
    BY <2>1, RenderAsks DEF Tidy, Shape
<1>3. ASSUME ~catalog' PROVE CatalogOK'
  <2>1. /\ ~catalog /\ script' = script
        /\ Mount({}, NoPass, out, shown, left)
    BY <1>3 DEF Render, Remaining
  <2>2. left \in [Slots -> Nat]
    BY RemainingNat DEF Inv
  <2>3. ASSUME NEW t \in Types PROVE body'[<<"page", t>>] # "loading"
    <3>1. shown[<<"page", t>>] = body[<<"page", t>>]
      BY <2>1 DEF Slots
    <3> HIDE DEF left, out, shown
    <3>2. body'[<<"page", t>>] = shown[<<"page", t>>]
      BY <2>1, <2>2, MountPage
    <3> QED
      BY <2>1, <3>1, <3>2 DEF Tidy, CatalogOK
  <2> QED
    BY <2>1, <2>3 DEF Tidy, CatalogOK
<1> QED
  BY <1>1, <1>2, <1>3 DEF Tidy, CatalogOK

(* A step that asks for nothing new, and may answer.                       *)
Answers ==
    /\ requests \in Seq(Request)
    /\ \A j \in DOMAIN requests' : requests'[j].for = "board" =>
          \E k \in DOMAIN requests : requests'[j] = requests[k]
    /\ \A p \in Places : (Alone(p) => Alone(p)') /\ (Awaited(p)' => Awaited(p))
    /\ overtaken' = overtaken

Untouched(p) ==
    \A t \in Types : /\ live'[<<p, t>>] = live[<<p, t>>]
                     /\ body'[<<p, t>>] = body[<<p, t>>]
                     /\ <<p, t>> \in recorded' <=> <<p, t>> \in recorded

LEMMA PageStays ==
  ASSUME PageOK, Answers, Untouched("page")
  PROVE  PageOK'
<1>1. \A t \in Types : OnRecord(<<"page", t>>) => OnRecord(<<"page", t>>)'
  BY DEF Untouched, OnRecord
<1> QED
  BY <1>1 DEF PageOK, Answers, Untouched

LEMMA BoardStays ==
  ASSUME BoardOK, Answers, Untouched("board"), waiting' = waiting
  PROVE  BoardOK'
<1> SUFFICES ASSUME "board" \notin overtaken PROVE BoardOK'
  BY DEF BoardOK, Answers
<1>1. \A t \in Types : OnRecord(<<"board", t>>)'
  BY DEF Untouched, OnRecord, BoardOK
<1>2. Alone("board")' /\ (Awaited("board")' => Awaited("board"))
  BY DEF BoardOK, Answers
<1>3. \A i \in Passes : /\ IsInjective(waiting'[i])
                        /\ \A t \in ToSet(waiting'[i]) : live'[<<"board", t>>] = 0
  <2>1. \A i \in Passes : ToSet(waiting[i]) \subseteq Types
    BY DEF BoardOK, ToSet
  <2> QED
    BY <2>1 DEF Untouched, BoardOK
<1>4. ASSUME NEW i \in DOMAIN requests', requests'[i].for = "board"
      PROVE  \A t \in ToSet(requests'[i].boxes) : body'[<<"board", t>>] # "none"
  <2>1. PICK k \in DOMAIN requests : requests'[i] = requests[k]
    BY <1>4 DEF Answers
  <2>2. requests[k].boxes \in Layouts
    BY <1>4, <2>1 DEF Answers, Request
  <2>3. ToSet(requests[k].boxes) \subseteq Types
    BY <2>2 DEF ToSet
  <2> QED
    BY <1>4, <2>1, <2>3 DEF Untouched, BoardOK
<1> QED
  BY <1>1, <1>2, <1>3, <1>4 DEF Untouched, BoardOK

(* A step that touches neither.                                            *)
LEMMA Undisturbed ==
  ASSUME Tidy, UNCHANGED <<catalog, script, waiting, body, recorded, live, overtaken>>,
         selected' \in Hosts \cup {NoHost}, Answers, requests' \in Seq(Request)
  PROVE  Tidy'
<1>1. Untouched("page") /\ Untouched("board")
  BY DEF Untouched
<1> QED
  BY <1>1, PageStays, BoardStays DEF Tidy, Shape, CatalogOK

LEMMA QuietTidy ==
  ASSUME Tidy, Quiet, selected' \in Hosts \cup {NoHost}
  PROVE  Tidy'
<1>1. Answers
  BY DEF Answers, Quiet, Alone, Awaited, Tidy, Shape
<1> QED
  BY <1>1, Undisturbed DEF Quiet, Tidy, Shape

LEMMA CloseTidy ==
  ASSUME Inv, Tidy, closeVertical
  PROVE  Tidy'
<1> DEFINE left == Remaining({"page"})
           out == [t \in Types |-> "loading"]
<1>1. /\ Mount({}, NoPass, out, body, left)
      /\ UNCHANGED <<selected, catalog, requests, script, waiting, overtaken>>
  BY DEF closeVertical, unmountAllWidgets, Remaining
<1>2. left \in [Slots -> Nat]
  BY RemainingNat DEF Inv
<1>3. Answers
  BY <1>1 DEF Answers, Alone, Awaited, Tidy, Shape
<1>4. 0 \in Passes /\ \A i \in Passes : NoPass[i] = <<>>
  BY DEF Passes, NoPass
<1>5. ASSUME NEW t \in Types
      PROVE  LET s == <<"page", t>> IN
             live'[s] = left[s] /\ body'[s] = body[s] /\ (s \in recorded' <=> s \in recorded /\ left[s] = live[s])
  <2> HIDE DEF left, out
  <2> QED
    BY <1>1, <1>2, MountPage
<1>6. ASSUME NEW t \in Types
      PROVE  LET s == <<"board", t>> IN
             live'[s] = left[s] /\ body'[s] = body[s] /\ (s \in recorded' <=> s \in recorded /\ left[s] = live[s])
  <2> HIDE DEF left, out
  <2> QED
    BY <1>1, <1>2, <1>4, NothingDone, MountBoard
<1>7. BoardOK'
  <2>1. \A t \in Types : left[<<"board", t>>] = live[<<"board", t>>]
    BY DEF Remaining, Stopped, Slots
  <2>2. Untouched("board")
    BY <1>6, <2>1 DEF Untouched
  <2> QED
    BY <1>1, <1>3, <2>2, BoardStays DEF Tidy
<1>8. PageOK'
  <2> SUFFICES ASSUME "page" \notin overtaken PROVE PageOK'
    BY <1>1 DEF PageOK
  <2>1. \A t \in Types : OnRecord(<<"page", t>>)
    BY DEF Tidy, PageOK
  <2>2. ASSUME NEW t \in Types PROVE live'[<<"page", t>>] = 0 /\ OnRecord(<<"page", t>>)'
    BY <1>5, <2>1, Emptied DEF OnRecord, Inv
  <2> QED
    BY <1>3, <1>5, <2>2 DEF Tidy, PageOK, Answers
<1> QED
  BY <1>1, <1>5, <1>7, <1>8 DEF Tidy, Shape, CatalogOK

(* The pass over the page goes on: nothing else ran there.                 *)
LEMMA ResumePageTidy ==
  ASSUME Inv, Tidy, Answers, NEW i \in DOMAIN requests, requests[i].for = "page",
         Alone("page") => ~Awaited("page")',
         NEW types, NEW known \in BOOLEAN, ResumePage(types, known), catalog' = known,
         catalog => known
  PROVE  CatalogOK' /\ PageOK' /\ BoardOK'
<1> DEFINE out == [t \in Types |-> Outcome(t, known)]
           shown == [s \in Slots |-> IF s[1] = "board" THEN body[s] ELSE "none"]
<1>1. Mount(types, NoPass, out, shown, live) /\ waiting' = waiting /\ script' = Load(types, NoPass, known)
  BY DEF ResumePage
<1>2. live \in [Slots -> Nat]
  BY DEF Inv, Counted
<1>3. 0 \in Passes /\ \A j \in Passes : NoPass[j] = <<>>
  BY DEF Passes, NoPass
<1>4. ASSUME NEW t \in Types
      PROVE  LET s == <<"page", t>> IN
             /\ t \in types /\ out[t] = "up" => live'[s] = live[s] + 1 /\ s \in recorded'
             /\ ~(t \in types /\ out[t] = "up") =>
                   live'[s] = live[s] /\ (s \in recorded' <=> s \in recorded)
             /\ body'[s] = IF t \in types THEN out[t] ELSE "none"
  <2>1. shown[<<"page", t>>] = "none"
    BY DEF Slots
  <2> HIDE DEF out, shown
  <2> QED
    BY <1>1, <1>2, <2>1, MountPage
<1>5. BoardOK'
  <2>1. ASSUME NEW t \in Types
        PROVE  LET s == <<"board", t>> IN
               live'[s] = live[s] /\ body'[s] = body[s] /\ (s \in recorded' <=> s \in recorded)
    <3>1. shown[<<"board", t>>] = body[<<"board", t>>]
      BY DEF Slots
    <3> HIDE DEF out, shown
    <3> QED
      BY <1>1, <1>2, <1>3, <3>1, NothingDone, MountBoard
  <2> QED
    BY <1>1, <2>1, BoardStays DEF Tidy, Untouched
<1>6. PageOK'
  <2> SUFFICES ASSUME "page" \notin overtaken PROVE PageOK'
    BY DEF PageOK, Answers
  <2>1. Awaited("page") /\ Alone("page")
    BY DEF Awaited, Tidy, PageOK
  <2>2. ~Awaited("page")' /\ Alone("page")'
    BY <2>1 DEF Answers
  <2>3. ASSUME NEW t \in Types
        PROVE  /\ OnRecord(<<"page", t>>)'
               /\ body'[<<"page", t>>] = "loading" => live'[<<"page", t>>] = 0
    <3>1. live[<<"page", t>>] = 0 /\ <<"page", t>> \notin recorded
      BY <2>1 DEF Tidy, PageOK, OnRecord
    <3> HIDE DEF out
    <3> QED
      BY <1>4, <3>1 DEF OnRecord
  <2> QED
    BY <2>2, <2>3 DEF PageOK
<1>7. CatalogOK'
  <2> SUFFICES ASSUME ~known PROVE CatalogOK'
    BY DEF CatalogOK
  <2>1. \A t \in Types : script[t] = "none"
    BY DEF Tidy, CatalogOK
  <2>2. \A t \in Types : out[t] = "unavailable" /\ script'[t] = "none"
    BY <1>1, <2>1 DEF Outcome, Load
  <2> HIDE DEF out
  <2> QED
    BY <1>4, <2>2 DEF CatalogOK
<1> QED
  BY <1>5, <1>6, <1>7

(* The pass over the board goes on: nothing else ran or waited there.      *)
LEMMA ResumeBoardTidy ==
  ASSUME Inv, Tidy, Answers, NEW i \in DOMAIN requests, requests[i].for = "board",
         Alone("board") => ~Awaited("board")',
         NEW known \in BOOLEAN, ResumeBoard(requests[i].boxes, known), catalog' = known,
         catalog => known
  PROVE  CatalogOK' /\ PageOK' /\ BoardOK'
<1> DEFINE out == [t \in Types |-> Outcome(t, known)]
           all == requests[i].boxes
           boxes == Found(all)
           n == CHOOSE n \in Passes : waiting[n] = <<>>
           box(t) == <<"board", t>>
<1>1. /\ Mount({}, Pass(n, boxes), out, body, live)
      /\ waiting' = [waiting EXCEPT ![n] = Left(boxes, out)]
      /\ script' = Load({}, waiting', known)
  BY DEF ResumeBoard
<1>2. live \in [Slots -> Nat]
  BY DEF Inv, Counted
<1>3. ASSUME NEW t \in Types
      PROVE  LET s == <<"page", t>> IN
             live'[s] = live[s] /\ body'[s] = body[s] /\ (s \in recorded' <=> s \in recorded)
  <2> HIDE DEF out, boxes, n
  <2> QED
    BY <1>1, <1>2, MountPage
<1>4. PageOK'
  BY <1>3, PageStays DEF Tidy, Untouched
<1>5. CatalogOK'
  <2> SUFFICES ASSUME ~known PROVE CatalogOK'
    BY DEF CatalogOK
  <2>1. \A t \in Types : script[t] = "none" /\ body[<<"page", t>>] # "loading"
    BY DEF Tidy, CatalogOK
  <2>2. \A t \in Types : script'[t] = "none"
    BY <1>1, <2>1 DEF Load
  <2> QED
    BY <1>3, <2>1, <2>2 DEF CatalogOK
<1>6. BoardOK'
  <2> SUFFICES ASSUME "board" \notin overtaken PROVE BoardOK'
    BY DEF BoardOK, Answers
  <2>1. /\ Awaited("board") /\ Alone("board")
        /\ \A t \in Types : live[box(t)] = 0 /\ box(t) \notin recorded
        /\ \A j \in Passes : waiting[j] = <<>>
        /\ waiting \in [Passes -> Seq(Types)]
        /\ \A t \in ToSet(all) : body[box(t)] # "none"
    BY DEF Awaited, Tidy, BoardOK, OnRecord
  <2>2. all \in Seq(Types) /\ IsInjective(all)
    <3>1. all \in Layouts
      BY DEF Tidy, Shape, Request
    <3> QED
      BY <3>1
  <2>3. boxes = all
    BY <2>1, <2>2, FoundIn
  <2>4. n \in Passes
    <3>1. 0 \in Passes
      BY DEF Passes
    <3> QED
      BY <2>1, <3>1
  <2> DEFINE later == Left(all, out)
             done == Done(all, out)
  <2>5. /\ later \in Seq(Types) /\ IsInjective(later)
        /\ \A t \in ToSet(later) : t \in Types /\ t \notin done
    <3>1. ToSet(all) \subseteq Types
      BY <2>2 DEF ToSet
    <3> QED
      BY <2>2, <3>1, DoneAndLeft
  <2>6. ASSUME NEW t \in Types
        PROVE  /\ t \in done /\ out[t] = "up" => live'[box(t)] = live[box(t)] + 1 /\ box(t) \in recorded'
               /\ ~(t \in done /\ out[t] = "up") =>
                     live'[box(t)] = live[box(t)] /\ (box(t) \in recorded' <=> box(t) \in recorded)
    <3>1. Pass(n, all)[n] = all /\ \A j \in Passes \ {n} : Pass(n, all)[j] = <<>>
      BY <2>4 DEF Pass, NoPass
    <3> HIDE DEF out, n, all, boxes
    <3> QED
      BY <1>1, <1>2, <2>3, <2>4, <3>1, MountBoard
  <2>7. ~Awaited("board")' /\ Alone("board")'
    BY <2>1 DEF Answers
  <2>8. ASSUME NEW t \in Types
        PROVE  OnRecord(box(t))' /\ (t \notin done => live'[box(t)] = 0)
    <3> HIDE DEF out, done
    <3> QED
      BY <2>1, <2>6 DEF OnRecord
  <2> HIDE DEF out, n, boxes, all, later, done
  <2>9. /\ waiting' \in [Passes -> Seq(Types)]
        /\ \A j \in Passes : waiting'[j] = IF j = n THEN later ELSE <<>>
    BY <1>1, <2>1, <2>3, <2>4, <2>5 DEF later
  <2>10. /\ \A j, k \in Passes : waiting'[j] # <<>> /\ waiting'[k] # <<>> => j = k
         /\ \A j \in Passes : /\ IsInjective(waiting'[j])
                              /\ \A t \in ToSet(waiting'[j]) : live'[box(t)] = 0
    <3>1. IsInjective(<<>>) /\ ToSet(<<>>) = {}
      BY DEF IsInjective, ToSet
    <3> QED
      BY <2>5, <2>8, <2>9, <3>1
  <2>11. \A j \in DOMAIN requests' : requests'[j].for # "board"
    BY <2>7 DEF Awaited
  <2> QED
    BY <2>7, <2>8, <2>9, <2>10, <2>11 DEF BoardOK
<1> QED
  BY <1>4, <1>5, <1>6

LEMMA AnsweredTidy ==
  ASSUME Inv, Tidy, NEW i \in DOMAIN requests, NEW ok \in BOOLEAN, CatalogAnswered(i, ok)
  PROVE  Tidy'
<1>1. /\ catalog' = (catalog \/ ok) /\ requests' = RemoveAt(requests, i)
      /\ UNCHANGED <<selected, overtaken>>
  BY DEF CatalogAnswered
<1>2. /\ requests' \in Seq(Request)
      /\ \A j \in DOMAIN requests' : \E k \in DOMAIN requests : requests'[j] = requests[k]
      /\ \A p : (Alone(p) => Alone(p)') /\ (Awaited(p)' => Awaited(p))
      /\ \A p : Alone(p) /\ requests[i].for = p => ~Awaited(p)'
  BY <1>1, Answered DEF Tidy, Shape
<1>3. Answers
  BY <1>1, <1>2 DEF Answers, Tidy, Shape
<1>4. catalog' \in BOOLEAN /\ (catalog => catalog')
  BY <1>1 DEF Tidy, Shape
<1>5. Shape'
  BY <1>1, <1>2, <1>4 DEF Tidy, Shape
<1>6. CatalogOK' /\ PageOK' /\ BoardOK'
  <2>1. CASE requests[i].for = "page" /\ ResumePage(widgetsForHost(placed, requests[i].host), catalog')
    BY <1>2, <1>3, <1>4, <2>1, ResumePageTidy
  <2>2. CASE requests[i].for = "board" /\ ResumeBoard(requests[i].boxes, catalog')
    BY <1>2, <1>3, <1>4, <2>2, ResumeBoardTidy
  <2>3. CASE UNCHANGED <<script, waiting, body, recorded, live>>
    <3>1. Untouched("page") /\ Untouched("board")
      BY <2>3 DEF Untouched
    <3> QED
      BY <1>3, <1>4, <2>3, <3>1, PageStays, BoardStays DEF Tidy, CatalogOK
  <2> QED
    BY <2>1, <2>2, <2>3 DEF CatalogAnswered
<1> QED
  BY <1>5, <1>6 DEF Tidy

LEMMA ScriptTidy ==
  ASSUME Inv, Tidy, NEW t \in Types, NEW ok \in BOOLEAN, ScriptLoaded(t, ok)
  PROVE  Tidy'
<1> DEFINE out == [u \in Types |-> IF u # t THEN Outcome(u, catalog)
                                   ELSE IF ok THEN "up" ELSE "unavailable"]
           cards == {u \in {t} : body[<<"page", u>>] = "loading"}
           woken == [i \in Passes |-> IF waiting[i] # <<>> /\ Head(waiting[i]) = t
                                      THEN waiting[i] ELSE <<>>]
           box(u) == <<"board", u>>
<1>1. /\ script[t] = "loading"
      /\ Mount(cards, woken, out, body, live)
      /\ waiting' = [i \in Passes |-> IF woken[i] = <<>> THEN waiting[i] ELSE Left(waiting[i], out)]
      /\ UNCHANGED <<selected, catalog, requests, overtaken>>
  BY DEF ScriptLoaded
<1>2. live \in [Slots -> Nat]
  BY DEF Inv, Counted
<1>3. Answers
  BY <1>1 DEF Answers, Alone, Awaited, Tidy, Shape
<1>4. Shape' /\ CatalogOK'
  BY <1>1 DEF Tidy, Shape, CatalogOK
<1>5. PageOK'
  <2> SUFFICES ASSUME "page" \notin overtaken PROVE PageOK'
    BY <1>1 DEF PageOK
  <2>1. /\ \A u \in Types : /\ OnRecord(<<"page", u>>)
                            /\ body[<<"page", u>>] = "loading" => live[<<"page", u>>] = 0
        /\ Awaited("page") => \A u \in Types : body[<<"page", u>>] # "loading"
    BY DEF Tidy, PageOK
  <2>2. ASSUME NEW u \in Types
        PROVE  LET s == <<"page", u>> IN
               /\ u \in cards /\ out[u] = "up" => live'[s] = live[s] + 1 /\ s \in recorded'
               /\ ~(u \in cards /\ out[u] = "up") =>
                     live'[s] = live[s] /\ (s \in recorded' <=> s \in recorded)
               /\ body'[s] = IF u \in cards THEN out[u] ELSE body[s]
    <3> HIDE DEF out, cards, woken
    <3> QED
      BY <1>1, <1>2, MountPage
  <2>3. \A u \in Types : u \in cards => body[<<"page", u>>] = "loading" /\ out[u] # "loading"
    OBVIOUS
  <2> HIDE DEF out, cards
  <2>4. ASSUME NEW u \in Types
        PROVE  /\ OnRecord(<<"page", u>>)'
               /\ body'[<<"page", u>>] = "loading" => live'[<<"page", u>>] = 0
               /\ Awaited("page") => /\ live'[<<"page", u>>] = live[<<"page", u>>]
                                     /\ body'[<<"page", u>>] = body[<<"page", u>>]
    BY <2>1, <2>2, <2>3 DEF OnRecord
  <2> QED
    BY <1>3, <2>4 DEF Tidy, PageOK, Answers
<1>6. BoardOK'
  <2> SUFFICES ASSUME "board" \notin overtaken PROVE BoardOK'
    BY <1>1 DEF BoardOK
  <2>1. /\ \A u \in Types : OnRecord(box(u))
        /\ \A i \in DOMAIN requests : requests[i].for = "board" =>
              \A u \in ToSet(requests[i].boxes) : body[box(u)] # "none"
        /\ Awaited("board") => \A i \in Passes : waiting[i] = <<>>
        /\ Awaited("board") => \A u \in Types : live[box(u)] = 0
        /\ waiting \in [Passes -> Seq(Types)]
        /\ \A i, j \in Passes : waiting[i] # <<>> /\ waiting[j] # <<>> => i = j
        /\ \A i \in Passes : /\ IsInjective(waiting[i])
                             /\ \A u \in ToSet(waiting[i]) : live[box(u)] = 0
    BY DEF Tidy, BoardOK
  <2>2. \A i \in Passes : woken[i] \in {waiting[i], <<>>}
    OBVIOUS
  <2>3. PICK n \in Passes : \A i \in Passes \ {n} : waiting[i] = <<>>
    <3>1. 0 \in Passes
      BY DEF Passes
    <3> QED
      BY <2>1, <3>1
  <2> DEFINE pass == woken[n]
             done == Done(pass, out)
             later == Left(waiting[n], out)
  <2>4. pass \in Seq(Types) /\ IsInjective(pass) /\ \A u \in ToSet(pass) : live[box(u)] = 0
    <3>1. IsInjective(<<>>) /\ ToSet(<<>>) = {} /\ <<>> \in Seq(Types)
      BY DEF IsInjective, ToSet
    <3> QED
      BY <2>1, <2>2, <3>1
  <2>5. ASSUME NEW u \in Types
        PROVE  /\ u \in done /\ out[u] = "up" => live'[box(u)] = live[box(u)] + 1 /\ box(u) \in recorded'
               /\ ~(u \in done /\ out[u] = "up") =>
                     live'[box(u)] = live[box(u)] /\ (box(u) \in recorded' <=> box(u) \in recorded)
               /\ body'[box(u)] = IF u \in done THEN out[u] ELSE body[box(u)]
    <3>1. \A i \in Passes \ {n} : woken[i] = <<>>
      BY <2>2, <2>3
    <3> HIDE DEF out, cards, woken
    <3> QED
      BY <1>1, <1>2, <3>1, MountBoard
  <2>6. \A u \in Types : out[u] # "none"
    BY DEF Outcome
  <2>7. /\ waiting'[n] = IF pass = <<>> THEN waiting[n] ELSE later
        /\ \A i \in Passes \ {n} : waiting'[i] = <<>>
        /\ waiting' = [i \in Passes |-> waiting'[i]]
        /\ pass = <<>> => done = {}
        /\ pass # <<>> => pass = waiting[n]
    BY <1>1, <2>2, <2>3, NothingDone
  <2> HIDE DEF out, cards, woken, pass
  <2>8. done \subseteq ToSet(pass)
    BY <2>4, DoneAndLeft
  <2>9. ASSUME NEW u \in Types
        PROVE  OnRecord(box(u))' /\ (u \notin done => live'[box(u)] = live[box(u)])
    <3>1. u \in done => live[box(u)] = 0 /\ box(u) \notin recorded
      BY <2>1, <2>4, <2>8 DEF OnRecord
    <3>2. OnRecord(box(u))
      BY <2>1
    <3> HIDE DEF done
    <3> QED
      BY <2>5, <3>1, <3>2 DEF OnRecord
  <2>10. /\ waiting'[n] \in Seq(Types) /\ IsInjective(waiting'[n])
         /\ \A u \in ToSet(waiting'[n]) : live'[box(u)] = 0
    <3>1. ToSet(waiting[n]) \subseteq Types
      BY <2>1 DEF ToSet
    <3>2. CASE pass = <<>>
      BY <2>1, <2>7, <2>9, <3>1, <3>2
    <3>3. CASE pass # <<>>
      <4>1. /\ later \in Seq(Types) /\ IsInjective(later)
            /\ \A u \in ToSet(later) : u \in ToSet(waiting[n]) /\ u \notin done
        BY <2>1, <2>7, <3>3, DoneAndLeft
      <4> HIDE DEF later, done
      <4> QED
        BY <2>1, <2>7, <2>9, <3>1, <3>3, <4>1
    <3> QED
      BY <3>2, <3>3
  <2>11. /\ waiting' \in [Passes -> Seq(Types)]
         /\ \A i, j \in Passes : waiting'[i] # <<>> /\ waiting'[j] # <<>> => i = j
         /\ \A i \in Passes : /\ IsInjective(waiting'[i])
                              /\ \A u \in ToSet(waiting'[i]) : live'[box(u)] = 0
    <3>1. IsInjective(<<>>) /\ ToSet(<<>>) = {} /\ <<>> \in Seq(Types)
      BY DEF IsInjective, ToSet
    <3>2. \A i \in Passes : i = n \/ waiting'[i] = <<>>
      BY <2>7
    <3>3. \A i \in Passes : waiting'[i] \in Seq(Types)
      BY <2>10, <3>1, <3>2
    <3>4. waiting' \in [Passes -> Seq(Types)]
      BY <2>7, <3>3
    <3> QED
      BY <2>10, <3>1, <3>2, <3>4
  <2>12. ASSUME Awaited("board")
         PROVE  /\ \A u \in Types : live'[box(u)] = 0
                /\ \A i \in Passes : waiting'[i] = <<>>
    <3>1. waiting[n] = <<>>
      BY <2>1, <2>12
    <3>2. pass = <<>>
      BY <2>7, <3>1
    <3> HIDE DEF done, later
    <3> QED
      BY <2>1, <2>7, <2>9, <2>12, <3>1, <3>2
  <2>13. ASSUME NEW i \in DOMAIN requests, requests[i].for = "board"
         PROVE  \A u \in ToSet(requests[i].boxes) : body'[box(u)] # "none"
    <3>1. requests[i].boxes \in Layouts
      BY <2>13 DEF Tidy, Shape, Request
    <3>2. ToSet(requests[i].boxes) \subseteq Types
      BY <3>1 DEF ToSet
    <3> HIDE DEF done
    <3> QED
      BY <2>1, <2>5, <2>6, <2>13, <3>2
  <2>14. Alone("board")' /\ requests' = requests /\ (Awaited("board")' <=> Awaited("board"))
    BY <1>1, <1>3 DEF Answers, Tidy, BoardOK, Awaited
  <2> HIDE DEF done, later
  <2> QED
    BY <2>9, <2>11, <2>12, <2>13, <2>14 DEF BoardOK
<1> QED
  BY <1>4, <1>5, <1>6 DEF Tidy

LEMMA SwitchTidy ==
  ASSUME Inv, Tidy, NEW h \in Hosts, NEW boxes \in Layouts, NEW places, Switch(h, boxes, places)
  PROVE  Tidy'
<1>1. \E drawn \in SUBSET Places : \E types : Render(drawn, boxes, h, types)
  <2>1. {"board"} \in SUBSET Places /\ {"page", "board"} \in SUBSET Places
    OBVIOUS
  <2> QED
    BY <2>1, Zenon DEF Switch
<1>2. h \in Hosts \cup {NoHost} /\ selected' \in Hosts \cup {NoHost}
  BY DEF Switch
<1> QED
  BY <1>1, <1>2, RenderTidy

(* The page, or the board, drawn for the selected host.                    *)
LEMMA RenderSelected ==
  ASSUME Inv, Tidy, UNCHANGED selected, NEW boxes \in Layouts, NEW types,
         \/ renderWidgets(selected, types)
         \/ renderLayout(boxes)
         \/ Render({"page", "board"}, boxes, selected, types)
  PROVE  Tidy'
<1>1. /\ <<>> \in Layouts /\ selected \in Hosts \cup {NoHost} /\ selected' \in Hosts \cup {NoHost}
      /\ {"page"} \in SUBSET Places /\ {"board"} \in SUBSET Places /\ {"page", "board"} \in SUBSET Places
  BY DEF Tidy, Shape
<1>2. \E drawn \in SUBSET Places, all \in Layouts : \E in : Render(drawn, all, selected, in)
  BY <1>1, Zenon DEF renderWidgets, renderLayout
<1> QED
  BY <1>1, <1>2, RenderTidy

LEMMA PageTidy == Inv /\ Tidy /\ Page => Tidy'
<1> SUFFICES ASSUME Inv, Tidy, Page PROVE Tidy'
  OBVIOUS
<1>0. <<>> \in Layouts
  OBVIOUS
<1>1. CASE openVertical
  BY <1>0, <1>1, RenderSelected DEF openVertical
<1>2. CASE closeVertical
  BY <1>2, CloseTidy
<1>3. CASE openWidgetChooser
  <2> DEFINE r == [for |-> "chooser"]
  <2>1. UNCHANGED <<selected, catalog, script, waiting, body, recorded, live, overtaken>>
    BY <1>3 DEF openWidgetChooser
  <2>2. selected' \in Hosts \cup {NoHost} /\ requests \in Seq(Request)
    BY <2>1 DEF Tidy, Shape
  <2>3. CASE UNCHANGED requests
    <3>1. Answers
      BY <2>1, <2>2, <2>3 DEF Answers, Alone, Awaited
    <3> QED
      BY <2>1, <2>2, <2>3, <3>1, Undisturbed
  <2>4. CASE requests' = Append(requests, r)
    <3>1. r \in Request
      BY DEF Request
    <3>2. <<r>> \in Seq(Request) /\ requests' = requests \o <<r>>
      BY <2>2, <2>4, <3>1, AppendIsConcat
    <3>3. \A j, k \in DOMAIN <<r>> : <<r>>[j].for = <<r>>[k].for => j = k
      OBVIOUS
    <3>4. \A j \in DOMAIN <<r>> : <<r>>[j].for = "chooser"
      OBVIOUS
    <3> HIDE DEF r
    <3>5. /\ requests' \in Seq(Request)
          /\ \A j \in DOMAIN requests' :
                \/ \E k \in DOMAIN requests : requests'[j] = requests[k]
                \/ requests'[j].for = "chooser"
          /\ \A p \in Places : (Alone(p) => Alone(p)') /\ (Awaited(p)' => Awaited(p))
      <4>1. /\ requests' \in Seq(Request)
            /\ \A j \in DOMAIN requests' : \/ \E k \in DOMAIN requests : requests'[j] = requests[k]
                                           \/ \E k \in DOMAIN <<r>> : requests'[j] = <<r>>[k]
            /\ \A p : (\A j \in DOMAIN <<r>> : <<r>>[j].for # p) =>
                         (Alone(p) => Alone(p)') /\ (Awaited(p)' => Awaited(p))
        BY <2>2, <3>2, <3>3, Asked
      <4>2. \A p \in Places : \A j \in DOMAIN <<r>> : <<r>>[j].for # p
        BY <3>4
      <4> QED
        BY <3>4, <4>1, <4>2
    <3>6. Answers
      BY <2>1, <2>2, <3>5 DEF Answers
    <3> QED
      BY <2>1, <2>2, <3>5, <3>6, Undisturbed
  <2> QED
    BY <1>3, <2>3, <2>4 DEF openWidgetChooser
<1>4. ASSUME UNCHANGED <<selected, catalog, requests, script, waiting, body, recorded, live, overtaken>>
      PROVE  Tidy'
  <2>1. Answers
    BY <1>4 DEF Answers, Alone, Awaited, Tidy, Shape
  <2> QED
    BY <1>4, <2>1, Undisturbed DEF Tidy, Shape
<1>5. CASE closePopups
  BY <1>4, <1>5 DEF closePopups
<1>6. CASE loadLang
  BY <1>6, RenderSelected DEF loadLang
<1>7. ASSUME NEW t \in PageTypes, addWidget(t) PROVE Tidy'
  <2>1. CASE Quiet
    BY <1>7, <2>1, QuietTidy DEF addWidget, Tidy, Shape
  <2>2. CASE renderWidgets(selected, placed'[selected])
    BY <1>0, <1>7, <2>2, RenderSelected DEF addWidget
  <2> QED
    BY <1>7, <2>1, <2>2 DEF addWidget
<1>8. ASSUME NEW t \in PageTypes, removeWidget(t) PROVE Tidy'
  BY <1>0, <1>8, RenderSelected DEF removeWidget
<1>9. ASSUME NEW t \in PageTypes, openSettings(t) \/ closeSettings(t) PROVE Tidy'
  BY <1>4, <1>9 DEF openSettings, closeSettings
<1> QED
  BY <1>1, <1>2, <1>3, <1>5, <1>6, <1>7, <1>8, <1>9 DEF Page

LEMMA BoardTidy == Inv /\ Tidy /\ Board => Tidy'
<1> SUFFICES ASSUME Inv, Tidy, Board PROVE Tidy'
  OBVIOUS
<1>1. CASE HostsGone
  BY <1>1, QuietTidy DEF HostsGone
<1>2. ASSUME NEW boxes \in Layouts, Relayout(boxes) PROVE Tidy'
  BY <1>2, RenderSelected DEF Relayout
<1>3. ASSUME NEW boxes \in Layouts, NEW h \in Hosts, selectHost(h, boxes) PROVE Tidy'
  BY <1>3, SwitchTidy DEF selectHost
<1>4. ASSUME NEW boxes \in Layouts, NEW h \in Hosts, deleteHost(h, boxes) PROVE Tidy'
  <2>1. CASE \E g \in Hosts : \E places : Switch(g, boxes, places)
    BY <2>1, SwitchTidy
  <2>2. CASE selected' = NoHost /\ renderLayout(<<>>)
    <3>1. /\ {"board"} \in SUBSET Places /\ <<>> \in Layouts
          /\ selected \in Hosts \cup {NoHost} /\ selected' \in Hosts \cup {NoHost}
      BY <2>2 DEF Tidy, Shape
    <3> QED
      BY <2>2, <3>1, RenderTidy DEF renderLayout
  <2>3. CASE UNCHANGED selected /\ Quiet
    BY <2>3, QuietTidy DEF Tidy, Shape
  <2> QED
    BY <1>4, <2>1, <2>2, <2>3 DEF deleteHost
<1> QED
  BY <1>1, <1>2, <1>3, <1>4 DEF Board

LEMMA StepTidy == Inv /\ Tidy /\ [Next]_vars => Tidy'
<1> SUFFICES ASSUME Inv, Tidy, [Next]_vars PROVE Tidy'
  OBVIOUS
<1>0. <<>> \in Layouts
  OBVIOUS
<1>1. CASE HistoryLoaded
  <2>1. CASE Quiet
    BY <1>1, <2>1, QuietTidy DEF HistoryLoaded, Tidy, Shape
  <2>2. CASE renderWidgets(selected, widgetsForHost(placed, selected))
    BY <1>0, <1>1, <2>2, RenderSelected DEF HistoryLoaded
  <2> QED
    BY <1>1, <2>1, <2>2 DEF HistoryLoaded, RenderIfOpen
<1>2. ASSUME NEW places \in [Hosts -> SUBSET PageTypes], NEW boxes \in Layouts,
             loadServerConfig(places, boxes)
      PROVE  Tidy'
  <2>1. UNCHANGED selected
    BY <1>2 DEF loadServerConfig
  <2>2. CASE Quiet
    BY <2>1, <2>2, QuietTidy DEF Tidy, Shape
  <2>3. CASE \E types : Render({"page"}, boxes, selected, types)
    <3>1. {"page"} \in SUBSET Places /\ selected \in Hosts \cup {NoHost} /\ selected' \in Hosts \cup {NoHost}
      BY <2>1 DEF Tidy, Shape
    <3> QED
      BY <2>3, <3>1, RenderTidy
  <2>4. CASE renderLayout(boxes) \/ \E types : Render({"page", "board"}, boxes, selected, types)
    BY <2>1, <2>4, RenderSelected
  <2> QED
    BY <1>2, <2>2, <2>3, <2>4 DEF loadServerConfig
<1>3. CASE UNCHANGED vars
  <2>1. Quiet /\ selected' \in Hosts \cup {NoHost}
    BY <1>3 DEF vars, Quiet, Tidy, Shape
  <2> QED
    BY <2>1, QuietTidy
<1> QED
  BY <1>1, <1>2, <1>3, PageTidy, BoardTidy, AnsweredTidy, ScriptTidy DEF Next, Arrives

LEMMA InitTidy == Init => Tidy
<1> SUFFICES ASSUME Init PROVE Tidy
  OBVIOUS
<1> USE DEF Init
<1>1. Shape
  <2> DEFINE r == [for |-> "boot"]
  <2>1. r \in Request
    BY DEF Request
  <2>2. requests = <<r>> /\ catalog = FALSE /\ selected = NoHost
    OBVIOUS
  <2> HIDE DEF r, Init
  <2>3. requests \in Seq(Request)
    BY <2>1, <2>2
  <2> QED
    BY <2>2, <2>3 DEF Shape
<1>2. \A s \in Slots : OnRecord(s) /\ live[s] = 0 /\ body[s] = "none"
  BY DEF OnRecord
<1>3. \A p \in Places, t \in Types : <<p, t>> \in Slots
  BY DEF Slots
<1>4. Alone("page") /\ Alone("board") /\ ~Awaited("page") /\ ~Awaited("board")
  BY DEF Alone, Awaited
<1>5. /\ waiting \in [Passes -> Seq(Types)]
      /\ \A i \in Passes : waiting[i] = <<>>
  BY DEF NoPass
<1>6. IsInjective(<<>>) /\ ToSet(<<>>) = {}
  BY DEF IsInjective, ToSet
<1>7. CatalogOK
  BY <1>2, <1>3 DEF CatalogOK
<1> HIDE DEF Init
<1>8. PageOK
  BY <1>2, <1>3, <1>4 DEF PageOK
<1>9. BoardOK
  BY <1>2, <1>3, <1>4, <1>5, <1>6 DEF BoardOK, Awaited
<1> QED
  BY <1>1, <1>7, <1>8, <1>9 DEF Tidy

(* In a place that no draw has overtaken, what runs is on record and can   *)
(* be stopped, whatever crosses what.                                      *)
THEOREM WidgetsOnRecord == Spec => []NoOrphans
<1>1. Tidy => NoOrphans
  <2> SUFFICES ASSUME Tidy, NEW s \in Slots, s[1] \notin overtaken PROVE OnRecord(s)
    BY DEF NoOrphans
  <2>1. PICK p \in Places, t \in Types : s = <<p, t>>
    BY DEF Slots
  <2> QED
    BY <2>1 DEF Tidy, PageOK, BoardOK
<1> QED
  BY <1>1, InitInv, StepInv, InitTidy, StepTidy, PTL DEF Spec

---------------------------------------------------------------------------
(* The types of what the invariants above do not speak of: of what draws,  *)
(* answers and scripts change, and of what the user and the hub do.        *)
Bodies  == {"none", "loading", "up", "unavailable"}
Scripts == {"none", "loading", "ready", "failed"}

DrawnOK ==
    /\ script \in [Types -> Scripts] /\ body \in [Slots -> Bodies]
    /\ waiting \in [Passes -> Seq(Types)]
    /\ Len(requests) <= MaxRequests /\ overtaken \subseteq Places

UserOK ==
    /\ vOpen \in BOOLEAN /\ loaded \in BOOLEAN /\ chooser \in BOOLEAN
    /\ placed \in [Hosts -> SUBSET Types] /\ fetches \in 0 .. MaxFetches

LEMMA OutcomeIn == \A t, known : Outcome(t, known) \in Bodies
BY DEF Outcome, Bodies

LEMMA MountBody ==
  ASSUME NEW cards, NEW passes, NEW out \in [Types -> Bodies], NEW shown \in [Slots -> Bodies],
         NEW base, Mount(cards, passes, out, shown, base)
  PROVE  body' \in [Slots -> Bodies]
<1> DEFINE drawn(s) == \/ s[1] = "page" /\ s[2] \in cards
                       \/ {i \in Passes : s[1] = "board" /\ s[2] \in Done(passes[i], out)} # {}
<1>1. body' = [s \in Slots |-> IF drawn(s) THEN out[s[2]] ELSE shown[s]]
  BY DEF Mount
<1> HIDE DEF drawn
<1>2. \A s \in Slots : s[2] \in Types
  BY DEF Slots
<1> QED
  BY <1>1, <1>2

LEMMA LoadIn ==
  ASSUME script \in [Types -> Scripts], NEW cards, NEW left, NEW known
  PROVE  Load(cards, left, known) \in [Types -> Scripts]
<1> DEFINE starts(t) == /\ script[t] = "none" /\ known
                        /\ (t \in cards \/ \E i \in Passes : left[i] # <<>> /\ Head(left[i]) = t)
<1>1. Load(cards, left, known) = [t \in Types |-> IF starts(t) THEN "loading" ELSE script[t]]
  BY DEF Load
<1> HIDE DEF starts
<1>2. "loading" \in Scripts
  BY DEF Scripts
<1> QED
  BY <1>1, <1>2

LEMMA LeftIn ==
  ASSUME NEW boxes \in Seq(Types), NEW out
  PROVE  Left(boxes, out) \in Seq(Types)
<1> DEFINE n == Past(boxes, out)
<1>1. n \in Nat /\ n <= Len(boxes) /\ Len(boxes) \in Nat
  BY PastIn
<1> HIDE DEF n
<1>2. \A i \in n + 1 .. Len(boxes) : boxes[i] \in Types
  BY <1>1, ElementOfSeq
<1>3. n + 1 \in Int /\ Len(boxes) \in Int
  BY <1>1
<1>4. SubSeq(boxes, n + 1, Len(boxes)) \in Seq(Types)
  BY <1>2, <1>3, SubSeqProperties
<1> QED
  BY <1>4 DEF Left, n

LEMMA PassIn ==
  ASSUME NEW i \in Passes, NEW boxes \in Seq(Types)
  PROVE  NoPass \in [Passes -> Seq(Types)] /\ Pass(i, boxes) \in [Passes -> Seq(Types)]
BY DEF NoPass, Pass

LEMMA RenderDrawn ==
  ASSUME Shape, DrawnOK, NEW places \in SUBSET Places, NEW boxes \in Layouts,
         NEW h \in Hosts \cup {NoHost}, NEW types, Render(places, boxes, h, types)
  PROVE  DrawnOK'
<1> DEFINE left == Remaining(places)
           cards == IF "page" \in places THEN types ELSE {}
           out == [t \in Types |-> Outcome(t, TRUE)]
           rest == IF "board" \in places THEN Pass(0, Left(boxes, out)) ELSE waiting
           shown == [s \in Slots |->
             IF s[1] \notin places THEN body[s]
             ELSE IF s[1] = "board" THEN IF s[2] \in ToSet(boxes) THEN "loading" ELSE "none"
             ELSE IF catalog THEN "none" ELSE body[s]]
           passes == IF "board" \in places THEN Pass(0, boxes) ELSE NoPass
           A == IF "board" \in places /\ boxes # <<>> THEN <<[for |-> "board", boxes |-> boxes]>>
                ELSE <<>>
           B == IF "page" \in places THEN <<[for |-> "page", host |-> h]>> ELSE <<>>
<1>1. overtaken' = overtaken \cup {p \in places : Awaited(p)}
  BY DEF Render
<1>2. IF catalog THEN /\ Mount(cards, passes, out, shown, left) /\ UNCHANGED requests
                      /\ script' = Load(cards, rest, TRUE) /\ waiting' = rest
      ELSE /\ Mount({}, NoPass, out, shown, left) /\ UNCHANGED script
           /\ Len(requests) + Len(A \o B) <= MaxRequests /\ requests' = requests \o (A \o B)
           /\ waiting' = IF "board" \in places THEN NoPass ELSE waiting
  BY Zenon DEF Render, Remaining
<1>3. Len(requests') <= MaxRequests
  <2>1. CASE catalog
    BY <1>2, <2>1 DEF DrawnOK
  <2>2. CASE ~catalog
    <3>1. A \in Seq(Request) /\ B \in Seq(Request)
      <4>1. [for |-> "board", boxes |-> boxes] \in Request /\ [for |-> "page", host |-> h] \in Request
        BY DEF Request
      <4> QED
        BY <4>1
    <3> HIDE DEF A, B
    <3>2. A \o B \in Seq(Request) /\ requests \in Seq(Request)
      BY <3>1, ConcatProperties DEF Shape
    <3>3. Len(requests \o (A \o B)) = Len(requests) + Len(A \o B)
      BY <3>2, ConcatProperties
    <3> QED
      BY <1>2, <2>2, <3>3
  <2> QED
    BY <2>1, <2>2
<1>4. boxes \in Seq(Types) /\ 0 \in Passes
  BY DEF Passes
<1>5. out \in [Types -> Bodies]
  BY OutcomeIn
<1>6. shown \in [Slots -> Bodies]
  BY DEF DrawnOK, Bodies
<1>7. rest \in [Passes -> Seq(Types)] /\ NoPass \in [Passes -> Seq(Types)]
  <2>1. Left(boxes, out) \in Seq(Types)
    BY <1>4, LeftIn
  <2> HIDE DEF out
  <2> QED
    BY <1>4, <2>1, PassIn DEF DrawnOK
<1> HIDE DEF left, cards, out, rest, shown, passes, A, B
<1>8. body' \in [Slots -> Bodies]
  <2>1. PICK on, by : Mount(on, by, out, shown, left)
    BY <1>2
  <2> QED
    BY <1>5, <1>6, <2>1, MountBody, Zenon
<1>9. script' \in [Types -> Scripts]
  <2>1. script' = Load(cards, rest, TRUE) \/ script' = script
    BY <1>2
  <2>2. Load(cards, rest, TRUE) \in [Types -> Scripts] /\ script \in [Types -> Scripts]
    BY LoadIn DEF DrawnOK
  <2> QED
    BY <2>1, <2>2
<1>10. waiting' \in [Passes -> Seq(Types)]
  BY <1>2, <1>7 DEF DrawnOK
<1>11. overtaken' \subseteq Places
  BY <1>1 DEF DrawnOK
<1> QED
  BY <1>3, <1>8, <1>9, <1>10, <1>11 DEF DrawnOK

LEMMA QuietDrawn ==
  ASSUME DrawnOK, UNCHANGED <<script, body, waiting, requests, overtaken>>
  PROVE  DrawnOK'
BY DEF DrawnOK

LEMMA ResumeDrawn ==
  ASSUME Shape, DrawnOK, NEW i \in DOMAIN requests, NEW ok, CatalogAnswered(i, ok)
  PROVE  DrawnOK'
<1>1. requests' = RemoveAt(requests, i) /\ UNCHANGED overtaken
  BY DEF CatalogAnswered
<1>2. Len(requests') <= MaxRequests
  <2>1. i \in 1 .. Len(requests) /\ requests \in Seq(Request)
    BY DEF Shape
  <2>2. Len(requests') = Len(requests) - 1
    BY <1>1, <2>1, RemoveAtElements
  <2> QED
    BY <2>1, <2>2 DEF DrawnOK
<1>3. ASSUME NEW types, NEW known, ResumePage(types, known)
      PROVE  /\ script' \in [Types -> Scripts] /\ body' \in [Slots -> Bodies]
             /\ waiting' \in [Passes -> Seq(Types)]
  <2> DEFINE out == [t \in Types |-> Outcome(t, known)]
             shown == [s \in Slots |-> IF s[1] = "board" THEN body[s] ELSE "none"]
  <2>1. /\ Mount(types, NoPass, out, shown, live)
        /\ script' = Load(types, NoPass, known) /\ waiting' = waiting
    BY <1>3 DEF ResumePage
  <2>2. out \in [Types -> Bodies]
    BY OutcomeIn
  <2>3. shown \in [Slots -> Bodies]
    BY DEF DrawnOK, Bodies
  <2> HIDE DEF out, shown
  <2> QED
    BY <2>1, <2>2, <2>3, MountBody, LoadIn DEF DrawnOK
<1>4. ASSUME NEW known, requests[i].for = "board", ResumeBoard(requests[i].boxes, known)
      PROVE  /\ script' \in [Types -> Scripts] /\ body' \in [Slots -> Bodies]
             /\ waiting' \in [Passes -> Seq(Types)]
  <2> DEFINE out == [t \in Types |-> Outcome(t, known)]
             all == requests[i].boxes
             n == CHOOSE n \in Passes : waiting[n] = <<>>
  <2>1. /\ Mount({}, Pass(n, Found(all)), out, body, live)
        /\ waiting' = [waiting EXCEPT ![n] = Left(Found(all), out)]
        /\ script' = Load({}, waiting', known)
    BY <1>4 DEF ResumeBoard
  <2>2. out \in [Types -> Bodies]
    BY OutcomeIn
  <2>3. all \in Seq(Types)
    <3>1. all \in Layouts
      BY <1>4 DEF Shape, Request
    <3> QED
      BY <3>1
  <2> HIDE DEF out, all, n
  <2>4. Left(Found(all), out) \in Seq(Types)
    BY <2>3, FoundIn, LeftIn
  <2>5. waiting' \in [Passes -> Seq(Types)]
    BY <2>1, <2>4 DEF DrawnOK
  <2> QED
    BY <2>1, <2>2, <2>5, MountBody, LoadIn DEF DrawnOK
<1>5. \/ UNCHANGED <<script, waiting, body>>
      \/ \E types, known : ResumePage(types, known)
      \/ requests[i].for = "board" /\ \E known : ResumeBoard(requests[i].boxes, known)
  BY Zenon DEF CatalogAnswered
<1>6. /\ script' \in [Types -> Scripts] /\ body' \in [Slots -> Bodies]
      /\ waiting' \in [Passes -> Seq(Types)]
  BY <1>3, <1>4, <1>5 DEF DrawnOK
<1> QED
  BY <1>1, <1>2, <1>6 DEF DrawnOK

LEMMA ScriptDrawn ==
  ASSUME DrawnOK, NEW t \in Types, NEW ok, ScriptLoaded(t, ok)
  PROVE  DrawnOK'
<1> DEFINE out == [u \in Types |-> IF u # t THEN Outcome(u, catalog)
                                   ELSE IF ok THEN "up" ELSE "unavailable"]
           cards == {u \in {t} : body[<<"page", u>>] = "loading"}
           woken == [i \in Passes |-> IF waiting[i] # <<>> /\ Head(waiting[i]) = t
                                      THEN waiting[i] ELSE <<>>]
<1>1. /\ Mount(cards, woken, out, body, live)
      /\ waiting' = [i \in Passes |-> IF woken[i] = <<>> THEN waiting[i] ELSE Left(waiting[i], out)]
      /\ script' = [Load({}, waiting', catalog) EXCEPT ![t] = IF ok THEN "ready" ELSE "failed"]
      /\ UNCHANGED <<requests, overtaken>>
  BY DEF ScriptLoaded
<1>2. out \in [Types -> Bodies]
  <2>1. \A u \in Types : Outcome(u, catalog) \in Bodies
    BY OutcomeIn
  <2>2. (IF ok THEN "up" ELSE "unavailable") \in Bodies
    BY DEF Bodies
  <2> QED
    BY <2>1, <2>2
<1> HIDE DEF out, cards, woken
<1>3. \A i \in Passes : Left(waiting[i], out) \in Seq(Types) /\ waiting[i] \in Seq(Types)
  BY LeftIn DEF DrawnOK
<1>4. waiting' \in [Passes -> Seq(Types)]
  BY <1>1, <1>3
<1>5. script' \in [Types -> Scripts]
  <2>1. Load({}, waiting', catalog) \in [Types -> Scripts]
    BY LoadIn DEF DrawnOK
  <2>2. (IF ok THEN "ready" ELSE "failed") \in Scripts
    BY DEF Scripts
  <2> QED
    BY <1>1, <2>1, <2>2
<1>6. body' \in [Slots -> Bodies]
  BY <1>1, <1>2, MountBody DEF DrawnOK
<1> QED
  BY <1>1, <1>4, <1>5, <1>6 DEF DrawnOK

(* Leaving the page mounts nothing, and changes no card's looks.           *)
LEMMA CloseDrawn ==
  ASSUME DrawnOK, closeVertical
  PROVE  DrawnOK'
<1> DEFINE out == [t \in Types |-> "loading"]
<1>1. (\E left : Mount({}, NoPass, out, body, left))
      /\ UNCHANGED <<script, waiting, requests, overtaken>>
  BY Zenon DEF closeVertical, unmountAllWidgets
<1>2. out \in [Types -> Bodies]
  BY DEF Bodies
<1> HIDE DEF out
<1>3. body' \in [Slots -> Bodies]
  BY <1>1, <1>2, MountBody DEF DrawnOK
<1> QED
  BY <1>1, <1>3 DEF DrawnOK

(* Every other step draws, or leaves what is drawn alone.                  *)
Draws ==
    \/ UNCHANGED <<script, body, waiting, requests, overtaken>>
    \/ \E places \in SUBSET Places, boxes \in Layouts, h \in Hosts \cup {NoHost} : \E types :
          Render(places, boxes, h, types)

LEMMA DrawsKept ==
  ASSUME Shape, DrawnOK, Draws
  PROVE  DrawnOK'
BY RenderDrawn, QuietDrawn DEF Draws

LEMMA AskDrawn ==
  ASSUME Shape, DrawnOK, openWidgetChooser
  PROVE  DrawnOK'
<1>1. /\ \/ UNCHANGED requests
         \/ /\ Len(requests) < MaxRequests
            /\ requests' = Append(requests, [for |-> "chooser"])
      /\ UNCHANGED <<script, body, waiting, overtaken>>
  BY Zenon DEF openWidgetChooser
<1>2. Len(requests') <= MaxRequests
  <2>1. CASE UNCHANGED requests
    BY <2>1 DEF DrawnOK
  <2>2. CASE Len(requests) < MaxRequests /\ requests' = Append(requests, [for |-> "chooser"])
    <3>1. requests \in Seq(Request) /\ [for |-> "chooser"] \in Request /\ Len(requests) \in Nat
      BY DEF Shape, Request
    <3>2. Len(requests') = Len(requests) + 1
      BY <2>2, <3>1, AppendProperties
    <3> QED
      BY <2>2, <3>1, <3>2
  <2> QED
    BY <1>1, <2>1, <2>2
<1> QED
  BY <1>1, <1>2 DEF DrawnOK

LEMMA StepDrawn ==
  ASSUME Shape, DrawnOK, [Next]_vars
  PROVE  DrawnOK'
<1>0. /\ <<>> \in Layouts /\ {"page"} \in SUBSET Places /\ {"board"} \in SUBSET Places
      /\ {"page", "board"} \in SUBSET Places /\ selected \in Hosts \cup {NoHost}
      /\ NoHost \in Hosts \cup {NoHost} /\ Hosts \subseteq Hosts \cup {NoHost}
  BY DEF Shape
<1>1. ASSUME Quiet PROVE Draws
  BY <1>1 DEF Quiet, Draws
<1>2. ASSUME NEW h \in Hosts \cup {NoHost}, NEW types, renderWidgets(h, types) PROVE Draws
  BY <1>0, <1>2, Zenon DEF renderWidgets, Draws
<1>3. ASSUME NEW boxes \in Layouts, renderLayout(boxes) PROVE Draws
  BY <1>0, <1>3, Zenon DEF renderLayout, Draws
<1>4. ASSUME NEW h \in Hosts, NEW boxes \in Layouts, NEW places, Switch(h, boxes, places)
      PROVE  Draws
  <2>1. CASE Render({"board"}, boxes, h, {})
    BY <1>0, <2>1, Zenon DEF Draws
  <2>2. ASSUME NEW types, Render({"page", "board"}, boxes, h, types) PROVE Draws
    BY <1>0, <2>2, Zenon DEF Draws
  <2>3. ASSUME NEW types, Render({"board"}, boxes, h, types) PROVE Draws
    BY <1>0, <2>3, Zenon DEF Draws
  <2> QED
    BY <1>4, <2>1, <2>2, <2>3, Zenon DEF Switch
<1>5. CASE Page
  <2>1. CASE openVertical
    BY <1>0, <1>2, <2>1, DrawsKept, Zenon DEF openVertical
  <2>2. CASE closeVertical
    BY <2>2, CloseDrawn
  <2>3. CASE openWidgetChooser
    BY <2>3, AskDrawn
  <2>4. CASE closePopups
    BY <2>4, QuietDrawn DEF closePopups
  <2>5. CASE loadLang
    <3>1. Draws
      BY <1>0, <1>3, <2>5, Zenon DEF loadLang, Draws
    <3> QED
      BY <3>1, DrawsKept
  <2>6. ASSUME NEW t \in PageTypes, addWidget(t) PROVE DrawnOK'
    <3>1. Draws
      BY <1>0, <1>1, <1>2, <2>6, Zenon DEF addWidget
    <3> QED
      BY <3>1, DrawsKept
  <2>7. ASSUME NEW t \in PageTypes, removeWidget(t) PROVE DrawnOK'
    <3>1. Draws
      BY <1>0, <1>2, <2>7, Zenon DEF removeWidget
    <3> QED
      BY <3>1, DrawsKept
  <2>8. ASSUME NEW t \in PageTypes, openSettings(t) \/ closeSettings(t) PROVE DrawnOK'
    BY <2>8, QuietDrawn DEF openSettings, closeSettings
  <2> QED
    BY <1>5, <2>1, <2>2, <2>3, <2>4, <2>5, <2>6, <2>7, <2>8 DEF Page
<1>6. CASE Board
  <2>1. Draws
    <3>1. CASE HostsGone
      BY <1>1, <3>1 DEF HostsGone
    <3>2. ASSUME NEW boxes \in Layouts, Relayout(boxes) PROVE Draws
      BY <1>3, <3>2 DEF Relayout
    <3>3. ASSUME NEW boxes \in Layouts, NEW h \in Hosts, selectHost(h, boxes) PROVE Draws
      BY <1>4, <3>3, Zenon DEF selectHost
    <3>4. ASSUME NEW boxes \in Layouts, NEW h \in Hosts, deleteHost(h, boxes) PROVE Draws
      <4>1. \/ \E g \in Hosts : \E places : Switch(g, boxes, places)
            \/ renderLayout(<<>>) \/ Quiet
        BY <3>4, Zenon DEF deleteHost
      <4> QED
        BY <1>0, <1>1, <1>3, <1>4, <4>1, Zenon
    <3> QED
      BY <1>6, <3>1, <3>2, <3>3, <3>4 DEF Board
  <2> QED
    BY <2>1, DrawsKept
<1>7. CASE HistoryLoaded
  <2>1. Draws
    BY <1>0, <1>1, <1>2, <1>7, Zenon DEF HistoryLoaded, RenderIfOpen
  <2> QED
    BY <2>1, DrawsKept
<1>8. ASSUME NEW places \in [Hosts -> SUBSET PageTypes], NEW boxes \in Layouts,
             loadServerConfig(places, boxes)
      PROVE  DrawnOK'
  <2>1. \/ Render({"page"}, boxes, selected, widgetsForHost(places, selected))
        \/ Render({"page", "board"}, boxes, selected, widgetsForHost(places, selected))
        \/ renderLayout(boxes) \/ Quiet
    BY <1>8, Zenon DEF loadServerConfig
  <2>2. Draws
    BY <1>0, <1>1, <1>3, <2>1, Zenon DEF Draws
  <2> QED
    BY <2>2, DrawsKept
<1>9. CASE UNCHANGED vars
  BY <1>9, QuietDrawn DEF vars
<1> QED
  BY <1>5, <1>6, <1>7, <1>8, <1>9, ResumeDrawn, ScriptDrawn DEF Next, Arrives

(* How a step may change what the user and the hub set.                    *)
UserStep ==
    /\ UNCHANGED vOpen \/ vOpen' = TRUE \/ vOpen' = FALSE
    /\ UNCHANGED loaded \/ loaded' = TRUE
    /\ UNCHANGED chooser \/ chooser' = TRUE \/ chooser' = FALSE
    /\ \/ UNCHANGED placed
       \/ \E t \in Types : \/ placed' = [placed EXCEPT ![selected] = @ \cup {t}]
                           \/ placed' = [placed EXCEPT ![selected] = @ \ {t}]
       \/ \E h \in Hosts : placed' = [placed EXCEPT ![h] = {}]
       \/ placed' \in [Hosts -> SUBSET PageTypes]
    /\ \/ UNCHANGED fetches
       \/ fetches < MaxFetches /\ fetches' = fetches + 1
       \/ fetches > 0 /\ fetches' = fetches - 1

LEMMA StepUser ==
  ASSUME UserOK, [Next]_vars
  PROVE  UserStep
<1>0. PageTypes \subseteq Types
  OBVIOUS
<1>1. CASE openVertical \/ closeVertical \/ openWidgetChooser \/ closePopups \/ loadLang
  BY <1>1, Zenon DEF openVertical, closeVertical, openWidgetChooser, closePopups, loadLang, UserStep
<1>2. ASSUME NEW t \in PageTypes, addWidget(t) \/ removeWidget(t) PROVE UserStep
  BY <1>0, <1>2, Zenon DEF addWidget, removeWidget, UserStep
<1>3. ASSUME NEW t \in PageTypes, openSettings(t) \/ closeSettings(t) PROVE UserStep
  BY <1>3, Zenon DEF openSettings, closeSettings, UserStep
<1>4. CASE Board
  <2>1. ASSUME NEW h, NEW boxes, NEW places, Switch(h, boxes, places),
               places = placed \/ \E g \in Hosts : places = [placed EXCEPT ![g] = {}]
        PROVE  UserStep
    BY <2>1, Zenon DEF Switch, UserStep
  <2>2. ASSUME NEW boxes, HostsGone \/ Relayout(boxes) PROVE UserStep
    BY <2>2, Zenon DEF HostsGone, Relayout, UserStep
  <2>3. ASSUME NEW boxes, NEW h \in Hosts, selectHost(h, boxes) PROVE UserStep
    BY <2>1, <2>3, Zenon DEF selectHost
  <2>4. ASSUME NEW boxes, NEW h \in Hosts, deleteHost(h, boxes) PROVE UserStep
    <3>1. \/ \E g : Switch(g, boxes, [placed EXCEPT ![h] = {}])
          \/ /\ placed' = [placed EXCEPT ![h] = {}]
             /\ UNCHANGED <<vOpen, loaded, chooser, fetches>>
      BY <2>4, Zenon DEF deleteHost
    <3> QED
      BY <2>1, <3>1, Zenon DEF UserStep
  <2> QED
    BY <1>4, <2>2, <2>3, <2>4, Zenon DEF Board
<1>5. CASE HistoryLoaded
  BY <1>5, Zenon DEF HistoryLoaded, UserStep
<1>6. ASSUME NEW i \in DOMAIN requests, NEW ok, CatalogAnswered(i, ok) PROVE UserStep
  <2>1. UNCHANGED <<vOpen, placed, loaded, fetches>>
    BY <1>6, Zenon DEF CatalogAnswered
  <2>2. UNCHANGED chooser \/ chooser' = (chooser \/ requests[i].for = "chooser")
    BY <1>6, Zenon DEF CatalogAnswered, ResumePage, ResumeBoard
  <2>3. UNCHANGED chooser \/ chooser' = TRUE \/ chooser' = FALSE
    BY <2>2, Zenon
  <2> QED
    BY <2>1, <2>3, Zenon DEF UserStep
<1>7. ASSUME NEW t \in Types, NEW ok, ScriptLoaded(t, ok) PROVE UserStep
  BY <1>7, Zenon DEF ScriptLoaded, UserStep
<1>8. ASSUME NEW places \in [Hosts -> SUBSET PageTypes], NEW boxes \in Layouts,
             loadServerConfig(places, boxes)
      PROVE  UserStep
  BY <1>8, Zenon DEF loadServerConfig, UserStep
<1>9. CASE UNCHANGED vars
  BY <1>9, Zenon DEF vars, UserStep
<1> QED
  BY <1>1, <1>2, <1>3, <1>4, <1>5, <1>6, <1>7, <1>8, <1>9 DEF Next, Page, Arrives

LEMMA UserKept ==
  ASSUME UserOK, [Next]_vars
  PROVE  UserOK'
<1>0. UserStep /\ placed \in [Hosts -> SUBSET Types] /\ fetches \in 0 .. MaxFetches
  BY StepUser DEF UserOK
<1>1. vOpen' \in BOOLEAN /\ loaded' \in BOOLEAN /\ chooser' \in BOOLEAN
  <2>1. \A x : x = TRUE \/ x = FALSE => x \in BOOLEAN
    BY Zenon
  <2> QED
    BY <1>0, <2>1, Zenon DEF UserOK, UserStep
<1>2. placed' \in [Hosts -> SUBSET Types]
  <2>1. ASSUME NEW t \in Types, NEW h,
               \/ placed' = [placed EXCEPT ![h] = @ \cup {t}]
               \/ placed' = [placed EXCEPT ![h] = @ \ {t}]
               \/ placed' = [placed EXCEPT ![h] = {}]
        PROVE  placed' \in [Hosts -> SUBSET Types]
    <3>1. CASE h \in Hosts
      BY <1>0, <2>1, <3>1
    <3>2. CASE h \notin Hosts
      <4>1. placed' = placed
        BY <1>0, <2>1, <3>2
      <4> QED
        BY <1>0, <4>1
    <3> QED
      BY <3>1, <3>2
  <2>2. ASSUME NEW h \in Hosts, placed' = [placed EXCEPT ![h] = {}]
        PROVE  placed' \in [Hosts -> SUBSET Types]
    BY <1>0, <2>2
  <2>3. ASSUME placed' \in [Hosts -> SUBSET PageTypes] PROVE placed' \in [Hosts -> SUBSET Types]
    BY <2>3
  <2> QED
    BY <1>0, <2>1, <2>2, <2>3, Zenon DEF UserStep
<1>3. fetches' \in 0 .. MaxFetches
  <2>1. \/ UNCHANGED fetches
        \/ fetches < MaxFetches /\ fetches' = fetches + 1
        \/ fetches > 0 /\ fetches' = fetches - 1
    BY <1>0, Zenon DEF UserStep
  <2> QED
    BY <1>0, <2>1
<1> QED
  BY <1>1, <1>2, <1>3 DEF UserOK

LEMMA InitTypes == Init => DrawnOK /\ UserOK
<1> SUFFICES ASSUME Init PROVE DrawnOK /\ UserOK
  OBVIOUS
<1>1. DrawnOK
  <2>1. requests = <<[for |-> "boot"]>> /\ Len(requests) = 1
    BY DEF Init
  <2>2. waiting \in [Passes -> Seq(Types)]
    BY DEF Init, NoPass
  <2> QED
    BY <2>1, <2>2 DEF Init, DrawnOK, Scripts, Bodies
<1>2. UserOK
  <2>1. \A x : x = TRUE \/ x = FALSE => x \in BOOLEAN
    BY Zenon
  <2> QED
    BY <2>1 DEF Init, UserOK
<1> QED
  BY <1>1, <1>2

(* The page has its types: the requests stay within their bound, and what  *)
(* a pass is left to mount are boxes, also when the board below it was     *)
(* drawn anew (Found).                                                     *)
THEOREM WidgetTypes == Spec => []TypeOK
<1>1. Shape /\ DrawnOK /\ UserOK /\ [Next]_vars => DrawnOK' /\ UserOK'
  BY StepDrawn, UserKept
<1>2. Inv /\ Tidy /\ DrawnOK /\ UserOK => TypeOK
  BY DEF Inv, Counted, Tidy, Shape, DrawnOK, UserOK, Scripts, Bodies, TypeOK
<1>3. Tidy => Shape
  BY DEF Tidy
<1> QED
  BY <1>1, <1>2, <1>3, InitInv, StepInv, InitTidy, StepTidy, InitTypes, PTL DEF Spec
=============================================================================

----------------------------- MODULE WidgetPage -----------------------------
(***************************************************************************)
(* How the dashboard hosts widgets: the cards of the widgets page and the  *)
(* boxes of the board, the catalog and the scripts that their modules come *)
(* from, and the instances that run in them.                               *)
(*                                                                         *)
(* A script runs to its next wait for the network in one step: a render    *)
(* pass stops only for the catalog's request, or for a module's script.    *)
(* A pass whose body is not connected any more changes nothing when it is  *)
(* resumed, and is dropped when its body is.                               *)
(***************************************************************************)
EXTENDS Integers, Sequences, FiniteSets, SequencesExt

CONSTANTS
    Hosts,       \* names of hosts
    Types,       \* widget types; a host has at most one card of each
    PageTypes,   \* bound: those of them that are put on a page, and set up
    Layouts,     \* the widget boxes that a board may have, in their order
    NoHost,      \* no host is selected
    MaxRequests, \* bound of the catalog's requests in flight
    MaxOvertaken,\* bound of the places that are drawn while a pass waits
    MaxFetches   \* bound of the history requests of selectHost in flight

ASSUME WidgetPageAssumption ==
    /\ NoHost \notin Hosts /\ PageTypes \subseteq Types
    /\ Layouts \subseteq Seq(Types) /\ <<>> \in Layouts
    /\ \A boxes \in Layouts : IsInjective(boxes)
    /\ MaxRequests \in Nat \ {0} /\ MaxFetches \in Nat /\ MaxOvertaken \in 0 .. 2

VARIABLES
    vOpen,     \* the widgets page is open
    selected,  \* state.selected
    placed,    \* widgetsByHost: the types on each host's page
    loaded,    \* the server's configuration has been read
    chooser,   \* the list of widgets to add is open
    catalog,   \* widgetCatalogLoaded
    requests,  \* passes that wait for the catalog
    script,    \* widgetAssetLoads, widgetRegistry: the module of each type
    waiting,   \* board passes that wait for a script: the boxes they have left
    body,      \* what each card and box shows
    recorded,  \* the keys of mountedWidgets and mountedBoxWidgets
    live,      \* instances that were mounted and not unmounted
    overlay,   \* types whose settings are open
    fetches,   \* history requests of selectHost in flight
    overtaken  \* the page, the board: drawn anew while a pass over it waited
               \* for the catalog (history)

vars == <<vOpen, selected, placed, loaded, chooser, catalog, requests, script,
          waiting, body, recorded, live, overlay, fetches, overtaken>>

Slots == {"page", "board"} \X Types

(* A request of the catalog, and the pass that goes on when it is answered. *)
Request == [for : {"boot", "chooser"}] \cup
           [for : {"page"}, host : Hosts \cup {NoHost}] \cup
           [for : {"board"}, boxes : Layouts]

widgetsForHost(places, h) == IF h = NoHost THEN {} ELSE places[h]

(* What ensureWidgetAssets comes to: a type that is not in the catalog has *)
(* no script to load.                                                      *)
Outcome(t, known) ==
    CASE script[t] = "ready" -> "up"
      [] script[t] = "failed" \/ (script[t] = "none" /\ ~known) -> "unavailable"
      [] OTHER -> "loading"

(* mountBoxWidgets takes the boxes in turn and stops at a script that is   *)
(* still loading: the boxes it is done with, and those that are left.      *)
Past(boxes, out) ==
    Cardinality({i \in DOMAIN boxes : \A j \in 1 .. i : out[boxes[j]] # "loading"})

Done(boxes, out) == {boxes[i] : i \in 1 .. Past(boxes, out)}
Left(boxes, out) == SubSeq(boxes, Past(boxes, out) + 1, Len(boxes))

(* At most one pass per request waits for a script, and one that found the *)
(* catalog loaded.                                                         *)
Passes == 0 .. MaxRequests
NoPass == [i \in Passes |-> <<>>]
Pass(i, boxes) == [NoPass EXCEPT ![i] = boxes]

(* Passes go on over cards of the page and boxes of the board: what there  *)
(* is to be mounted is, and is put on record.                              *)
Mount(cards, passes, out, shown, base) ==
    LET doneBy(s) == {i \in Passes : s[1] = "board" /\ s[2] \in Done(passes[i], out)}
        onPage(s) == s[1] = "page" /\ s[2] \in cards
        mounts(s) == IF out[s[2]] # "up" THEN 0
                     ELSE IF onPage(s) THEN 1 ELSE Cardinality(doneBy(s))
    IN  /\ body' = [s \in Slots |-> IF onPage(s) \/ doneBy(s) # {} THEN out[s[2]] ELSE shown[s]]
        /\ live' = [s \in Slots |-> base[s] + mounts(s)]
        /\ recorded' = {s \in Slots : mounts(s) > 0 \/ (s \in recorded /\ base[s] = live[s])}

(* The scripts that are set loading: of cards, and where passes stop.      *)
Load(cards, left, known) ==
    [t \in Types |->
        IF script[t] = "none" /\ known
           /\ (t \in cards \/ \E i \in Passes : left[i] # <<>> /\ Head(left[i]) = t)
        THEN "loading" ELSE script[t]]

---------------------------------------------------------------------------
(* A pass over the page, or over the board, waits for the catalog.          *)
Awaited(p) == \E i \in DOMAIN requests : requests[i].for = p

(* Mutants of Stopped: what was unmounted is unmounted again; the boxes of  *)
(* the board are not unmounted.                                            *)
StoppedTwice(places, s) == s[1] \in places

StoppedOnPage(places, s) == s[1] = "page" /\ s[1] \in places /\ s \in recorded

(* renderLayout and renderWidgets: every instance on record is unmounted,  *)
(* a settings overlay closes with the last instance of its type, and the   *)
(* cards are built anew, once the catalog has been loaded.                 *)
Stopped(places, s) == s[1] \in places /\ s \in recorded

Render(places, boxes, h, types) ==
    LET left == [s \in Slots |-> IF Stopped(places, s) THEN live[s] - 1 ELSE live[s]]
        cards == IF "page" \in places THEN types ELSE {}
        out == [t \in Types |-> Outcome(t, TRUE)]
        rest == IF "board" \in places THEN Pass(0, Left(boxes, out)) ELSE waiting
        shown == [s \in Slots |->
            IF s[1] \notin places THEN body[s]
            ELSE IF s[1] = "board" THEN IF s[2] \in ToSet(boxes) THEN "loading" ELSE "none"
            ELSE IF catalog THEN "none" ELSE body[s]]
        asked == (IF "board" \in places /\ boxes # <<>> THEN <<[for |-> "board", boxes |-> boxes]>>
                  ELSE <<>>)
                 \o (IF "page" \in places THEN <<[for |-> "page", host |-> h]>> ELSE <<>>)
    IN  /\ overlay' = {t \in overlay : \E p \in {"page", "board"} : left[<<p, t>>] > 0}
        /\ catalog' = catalog
        /\ overtaken' = overtaken \cup {p \in places : Awaited(p)}
        /\ Cardinality(overtaken') <= MaxOvertaken
        /\ IF catalog
           THEN /\ Mount(cards, IF "board" \in places THEN Pass(0, boxes) ELSE NoPass,
                         out, shown, left)
                /\ script' = Load(cards, rest, TRUE)
                /\ waiting' = rest
                /\ UNCHANGED requests
           ELSE /\ Len(requests) + Len(asked) <= MaxRequests
                /\ requests' = requests \o asked
                /\ Mount({}, NoPass, out, shown, left)
                /\ waiting' = IF "board" \in places THEN NoPass ELSE waiting
                /\ UNCHANGED script

renderLayout(boxes) == Render({"board"}, boxes, selected, {})
renderWidgets(h, types) == Render({"page"}, <<>>, h, types)

Quiet == UNCHANGED <<catalog, requests, script, waiting, body, recorded, live, overlay, overtaken>>

(* A layout with widgets comes from the configuration or from the catalog.  *)
Known(boxes) == boxes = <<>> \/ loaded \/ catalog

(* Mutant of RenderIfOpen: the history is not drawn.                       *)
RenderNothing(h, types) == Quiet

(* The page's part of a change that concerns it only while it is open.     *)
RenderIfOpen(h, types) == IF vOpen THEN renderWidgets(h, types) ELSE Quiet

---------------------------------------------------------------------------
(* The boxes that a pass over the board finds: all of them, unless it was  *)
(* overtaken and the board is another one now.                             *)
Found(all) ==
    LET there(t) == body[<<"board", t>>] # "none"
        found[i \in 0 .. Len(all)] ==
            IF i = 0 THEN <<>>
            ELSE IF there(all[i]) THEN Append(found[i - 1], all[i]) ELSE found[i - 1]
    IN  found[Len(all)]

(* The answer of a catalog request, and the pass that waited for it.       *)
ResumePage(types, known) ==
    LET out == [t \in Types |-> Outcome(t, known)]
        shown == [s \in Slots |-> IF s[1] = "board" THEN body[s] ELSE "none"]
    IN  /\ Mount(types, NoPass, out, shown, live)
        /\ script' = Load(types, NoPass, known)
        /\ UNCHANGED <<waiting, chooser>>

ResumeBoard(all, known) ==
    LET out == [t \in Types |-> Outcome(t, known)]
        boxes == Found(all)
        i == CHOOSE i \in Passes : waiting[i] = <<>>
    IN  /\ Mount({}, Pass(i, boxes), out, body, live)
        /\ waiting' = [waiting EXCEPT ![i] = Left(boxes, out)]
        /\ script' = Load({}, waiting', known)
        /\ UNCHANGED chooser

CatalogAnswered(i, ok) ==
    LET req == requests[i] IN
        /\ catalog' = (catalog \/ ok)
        /\ requests' = RemoveAt(requests, i)
        /\ \/ req.for = "page" /\ ResumePage(widgetsForHost(placed, req.host), catalog')
           \/ req.for = "board" /\ ResumeBoard(req.boxes, catalog')
           \/ /\ req.for \in {"boot", "chooser"}
              /\ chooser' = (chooser \/ req.for = "chooser")
              /\ UNCHANGED <<script, waiting, body, recorded, live>>
        /\ UNCHANGED <<vOpen, selected, placed, loaded, overlay, fetches, overtaken>>

(* A script has loaded, and the module registered itself, or it has not.   *)
(* A module whose render throws is as good as one that is not there: what  *)
(* it rendered is put off the page, and it is not recorded.                *)
ScriptLoaded(t, ok) ==
    LET out == [u \in Types |-> IF u # t THEN Outcome(u, catalog)
                                ELSE IF ok THEN "up" ELSE "unavailable"]
        cards == {u \in {t} : body[<<"page", u>>] = "loading"}
        woken == [i \in Passes |-> IF waiting[i] # <<>> /\ Head(waiting[i]) = t
                                   THEN waiting[i] ELSE <<>>]
    IN  /\ script[t] = "loading"
        /\ Mount(cards, woken, out, body, live)
        /\ waiting' = [i \in Passes |-> IF woken[i] = <<>> THEN waiting[i]
                                        ELSE Left(waiting[i], out)]
        /\ script' = [Load({}, waiting', catalog) EXCEPT ![t] = IF ok THEN "ready" ELSE "failed"]
        /\ UNCHANGED <<vOpen, selected, placed, loaded, chooser, catalog, requests, overlay, fetches,
                       overtaken>>

---------------------------------------------------------------------------
(* The page is opened and closed; leaving it unmounts its widgets.         *)
openVertical ==
    /\ ~vOpen
    /\ vOpen' = TRUE
    /\ renderWidgets(selected, widgetsForHost(placed, selected))
    /\ UNCHANGED <<selected, placed, loaded, chooser, fetches>>

(* Mutant of unmountAllWidgets: the settings of a widget stay open.        *)
UnmountBelow ==
    /\ Mount({}, NoPass, [t \in Types |-> "loading"], body,
             [s \in Slots |-> IF Stopped({"page"}, s) THEN live[s] - 1 ELSE live[s]])
    /\ UNCHANGED overlay

unmountAllWidgets ==
    LET left == [s \in Slots |-> IF Stopped({"page"}, s) THEN live[s] - 1 ELSE live[s]] IN
        /\ Mount({}, NoPass, [t \in Types |-> "loading"], body, left)
        /\ overlay' = {t \in overlay : \E p \in {"page", "board"} : left[<<p, t>>] > 0}

closeVertical ==
    /\ vOpen
    /\ vOpen' = FALSE
    /\ unmountAllWidgets
    /\ UNCHANGED <<selected, placed, loaded, chooser, catalog, requests, script, waiting, fetches,
                   overtaken>>

(* Another host: its board at once, its page when its history has come, or *)
(* at once when there are points enough.                                   *)
Switch(h, boxes, places) ==
    /\ Known(boxes)
    /\ selected' = h
    /\ placed' = places
    /\ \/ /\ fetches < MaxFetches
          /\ fetches' = fetches + 1
          /\ Render({"board"}, boxes, h, {})
       \/ /\ fetches' = fetches
          /\ Render(IF vOpen THEN {"page", "board"} ELSE {"board"},
                    boxes, h, widgetsForHost(places, h))
    /\ UNCHANGED <<vOpen, loaded, chooser>>

selectHost(h, boxes) == Switch(h, boxes, placed)

(* The user removes a host; if it was the selected one, another is chosen, *)
(* or there is none.                                                       *)
deleteHost(h, boxes) ==
    LET places == [placed EXCEPT ![h] = {}] IN
        \/ selected = h /\ \E g \in Hosts \ {h} : Switch(g, boxes, places)
        \/ /\ selected = h
           /\ selected' = NoHost /\ placed' = places
           /\ renderLayout(<<>>)
           /\ UNCHANGED <<vOpen, loaded, chooser, fetches>>
        \/ /\ selected # h
           /\ placed' = places
           /\ Quiet /\ UNCHANGED <<vOpen, selected, loaded, chooser, fetches>>

(* The server lists no host any more.                                      *)
HostsGone ==
    /\ selected # NoHost
    /\ selected' = NoHost
    /\ Quiet /\ UNCHANGED <<vOpen, placed, loaded, chooser, fetches>>

HistoryLoaded ==
    /\ fetches > 0
    /\ fetches' = fetches - 1
    /\ RenderIfOpen(selected, widgetsForHost(placed, selected))
    /\ UNCHANGED <<vOpen, selected, placed, loaded, chooser>>

(* The configuration replaces what this browser placed before it came.     *)
loadServerConfig(places, boxes) ==
    /\ ~loaded
    /\ loaded' = TRUE
    /\ placed' = places
    /\ IF vOpen
       THEN Render(IF selected = NoHost THEN {"page"} ELSE {"page", "board"},
                   boxes, selected, widgetsForHost(places, selected))
       ELSE IF selected = NoHost THEN Quiet ELSE renderLayout(boxes)
    /\ UNCHANGED <<vOpen, selected, chooser, fetches>>

(* A language file has come; and a box was added, moved away or removed.   *)
loadLang ==
    \E boxes \in Layouts :
        /\ \A t \in Types : t \in ToSet(boxes) <=> body[<<"board", t>>] # "none"
        /\ IF vOpen THEN Render({"page", "board"}, boxes, selected, widgetsForHost(placed, selected))
                    ELSE renderLayout(boxes)
        /\ UNCHANGED <<vOpen, selected, placed, loaded, chooser, fetches>>

Relayout(boxes) ==
    /\ Known(boxes)
    /\ renderLayout(boxes)
    /\ UNCHANGED <<vOpen, selected, placed, loaded, chooser, fetches>>

---------------------------------------------------------------------------
(* The list of widgets stays open when the page below it is left.          *)
openWidgetChooser ==
    /\ vOpen
    /\ IF catalog THEN chooser' = TRUE /\ UNCHANGED requests
       ELSE /\ Len(requests) < MaxRequests
            /\ requests' = Append(requests, [for |-> "chooser"])
            /\ UNCHANGED chooser
    /\ UNCHANGED <<vOpen, selected, placed, loaded, catalog, script, waiting, body,
                   recorded, live, overlay, fetches, overtaken>>

closePopups ==
    /\ chooser
    /\ chooser' = FALSE
    /\ UNCHANGED <<vOpen, selected, placed, loaded, catalog, requests, script, waiting, body,
                   recorded, live, overlay, fetches, overtaken>>

addWidget(t) ==
    /\ chooser /\ catalog
    /\ chooser' = FALSE
    /\ IF selected = NoHost \/ t \in widgetsForHost(placed, selected)
       THEN UNCHANGED placed /\ Quiet
       ELSE /\ placed' = [placed EXCEPT ![selected] = @ \cup {t}]
            /\ renderWidgets(selected, placed'[selected])
    /\ UNCHANGED <<vOpen, selected, loaded, fetches>>

(* The card may be of the host that was selected before.                   *)
removeWidget(t) ==
    /\ vOpen /\ selected # NoHost /\ body[<<"page", t>>] # "none"
    /\ placed' = [placed EXCEPT ![selected] = @ \ {t}]
    /\ renderWidgets(selected, placed'[selected])
    /\ UNCHANGED <<vOpen, selected, loaded, chooser, fetches>>

(* The settings of a widget that runs in a card or box on the screen.      *)
openSettings(t) ==
    /\ \E s \in recorded : s[2] = t /\ (s[1] = "page" => vOpen)
    /\ overlay' = overlay \cup {t}
    /\ UNCHANGED <<vOpen, selected, placed, loaded, chooser, catalog, requests, script,
                   waiting, body, recorded, live, fetches, overtaken>>

closeSettings(t) ==
    /\ t \in overlay
    /\ overlay' = overlay \ {t}
    /\ UNCHANGED <<vOpen, selected, placed, loaded, chooser, catalog, requests, script,
                   waiting, body, recorded, live, fetches, overtaken>>

---------------------------------------------------------------------------
Init ==
    /\ vOpen = FALSE /\ selected = NoHost /\ placed = [h \in Hosts |-> {}]
    /\ loaded = FALSE /\ chooser = FALSE /\ fetches = 0
    /\ catalog = FALSE /\ requests = <<[for |-> "boot"]>>
    /\ script = [t \in Types |-> "none"] /\ waiting = NoPass
    /\ body = [s \in Slots |-> "none"] /\ live = [s \in Slots |-> 0]
    /\ recorded = {} /\ overlay = {} /\ overtaken = {}

Page ==
    \/ openVertical \/ closeVertical \/ openWidgetChooser \/ closePopups \/ loadLang
    \/ \E t \in PageTypes :
          addWidget(t) \/ removeWidget(t) \/ openSettings(t) \/ closeSettings(t)

Board ==
    \/ HostsGone
    \/ \E boxes \in Layouts :
          Relayout(boxes) \/ \E h \in Hosts : selectHost(h, boxes) \/ deleteHost(h, boxes)

Arrives ==
    \/ HistoryLoaded
    \/ \E i \in DOMAIN requests, ok \in BOOLEAN : CatalogAnswered(i, ok)
    \/ \E t \in Types, ok \in BOOLEAN : ScriptLoaded(t, ok)

Next ==
    \/ Page \/ Board \/ Arrives
    \/ \E places \in [Hosts -> SUBSET PageTypes], boxes \in Layouts : loadServerConfig(places, boxes)

(* What was asked of the hub is answered, or fails, in the end: of the      *)
(* catalog's requests the oldest, whatever younger one overtakes it.       *)
(* Strong fairness, as their bound may put the history off here.           *)
Fairness ==
    /\ SF_vars(HistoryLoaded)
    /\ WF_vars(\E i \in DOMAIN requests, ok \in BOOLEAN : i = 1 /\ CatalogAnswered(i, ok))
    /\ \A t \in Types : WF_vars(\E ok \in BOOLEAN : ScriptLoaded(t, ok))

Spec == Init /\ [][Next]_vars /\ Fairness

---------------------------------------------------------------------------
(* The variables have their types.                                         *)
TypeOK ==
    /\ vOpen \in BOOLEAN /\ loaded \in BOOLEAN /\ chooser \in BOOLEAN /\ catalog \in BOOLEAN
    /\ selected \in Hosts \cup {NoHost} /\ placed \in [Hosts -> SUBSET Types]
    /\ requests \in Seq(Request) /\ Len(requests) <= MaxRequests
    /\ script \in [Types -> {"none", "loading", "ready", "failed"}]
    /\ waiting \in [Passes -> Seq(Types)]
    /\ body \in [Slots -> {"none", "loading", "up", "unavailable"}]
    /\ recorded \subseteq Slots /\ live \in [Slots -> Nat] /\ overlay \subseteq Types
    /\ fetches \in 0 .. MaxFetches /\ overtaken \subseteq {"page", "board"}

(* An instance runs only while it is on record, so that the next render or *)
(* removal stops it, and there is one of it: no widget is left behind with *)
(* its timers when the DOM below it is torn down.                          *)
OnRecord(s) == live[s] = IF s \in recorded THEN 1 ELSE 0

NothingLeftBehind == \A s \in Slots : OnRecord(s)

(* This holds but for one cause: a place that was drawn anew while an      *)
(* earlier pass over it still waited for the catalog.                      *)
NoOrphans == \A s \in Slots : s[1] \notin overtaken => OnRecord(s)

(* A settings overlay is open only over a running widget of its type.      *)
OverlayHasCard ==
    \A t \in overlay : \E p \in {"page", "board"} : live[<<p, t>>] > 0

(* An open page comes to show the selected host's widgets, each of them    *)
(* running or said to be unavailable, whatever was in flight, with the     *)
(* same exception: the pass that waited may be of another host.  (The page *)
(* is left as it is when the last host goes.)                              *)
InSync ==
    \A t \in Types : body[<<"page", t>>] \in
        IF t \in widgetsForHost(placed, selected) THEN {"up", "unavailable"} ELSE {"none"}

ShownCatchesUp ==
    (vOpen /\ selected # NoHost) ~>
        (~vOpen \/ selected = NoHost \/ InSync \/ "page" \in overtaken)
=============================================================================

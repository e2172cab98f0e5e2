----------------------------- MODULE AtlasCamera -----------------------------
(***************************************************************************)
(* Where the cards of the map are and what of it is in view                *)
(* (features/atlas/placement.ts, viewport.ts): a first placement made at   *)
(* once and a better one the layout kernel answers later, the camera that  *)
(* frames it until the reader moves it, and the presses that pan, pinch    *)
(* and select.                                                             *)
(***************************************************************************)
EXTENDS Integers, FiniteSets

CONSTANTS Graphs,  \* the graphs that may be on the map, by signature
          Cards,   \* of each of them; one with none is an empty map
          Pointers, None,
          MaxActs  \* bound on what the reader does

Nodes == UNION {Cards[g] : g \in Graphs}

\* What is assumed of the constants.
CameraAssumption ==
    /\ Cards \in [Graphs -> SUBSET Nodes] /\ None \notin Graphs \cup Nodes \cup Pointers \cup {"card", "ground"}
    /\ MaxActs \in Nat

VARIABLES graph,     \* the graph drawn
          placed, stalled, \* the graph the kernel last placed, the one it last refused, or None
          kernel,    \* whether it is at work on the graph drawn
          selected,
          frame,     \* who placed the camera: "fit", "reader" or "card"
          moved, clicked, \* whether the reader has placed it, the card they last clicked or None
          close,     \* whether it is zoomed in
          full, native, framing, \* full screen: the panel's, the browser's, and the fit it owes
          down, drag, pinch,  \* the pointers down, the one panning or None, whether two pinch
          press,     \* where the press began, "card", "ground" or None, and whether it moved
          suppress,  \* whether the click that follows is dropped
          acts,
          clicks     \* what the last click did: None, "heard" or "dropped"

place == <<graph, placed, stalled, kernel>>
screen == <<full, native, framing>>
hand == <<down, drag, pinch, press, suppress, clicks>>
vars == <<place, selected, frame, moved, clicked, close, screen, hand, acts>>

(***************************************************************************)
(* Placement                                                               *)
(***************************************************************************)
\* The graph whose placement is drawn: the kernel's last answer, unless it refused this one.
Placement(g, p, s) == IF p # None /\ s # g THEN p ELSE g

Init ==
    /\ graph \in Graphs
    /\ placed = None /\ stalled = None /\ kernel = (Cards[graph] # {})
    /\ selected = None
    /\ frame = "fit" /\ moved = FALSE /\ clicked = None /\ close = FALSE
    /\ full = FALSE /\ native = FALSE /\ framing = FALSE
    /\ down = {} /\ drag = None /\ pinch = FALSE
    /\ press = [on |-> None, moved |-> FALSE] /\ suppress = FALSE /\ clicks = None
    /\ acts = 0

Acts == acts < MaxActs /\ acts' = acts + 1

\* A card selected otherwise than by a click is brought into view, where it has a place.
Centres(s, c, at) == s # None /\ s # c /\ s \in Cards[at]

\* What happens to the camera when the graph, its placement, the selection or the zoom change:
\* another graph is fitted, the same one placed anew is fitted unless the reader moved it.
Frames(g, at, s, c, renewed) ==
    /\ moved' = IF g # graph THEN FALSE ELSE moved
    /\ frame' = IF Centres(s, c, at) /\ (renewed \/ s # selected) THEN "card"
                ELSE IF g # graph \/ (renewed /\ ~moved) THEN "fit" ELSE frame

\* A filter, a lens or an answer puts another graph on the map, and the kernel is asked to
\* place it; what it was doing for the last one is not waited for.
Redraw(g) ==
    /\ Acts /\ g # graph
    /\ graph' = g /\ kernel' = (Cards[g] # {})
    /\ selected' = IF selected \in Cards[g] THEN selected ELSE None
    /\ Frames(g, Placement(g, placed, stalled), selected', clicked,
              Placement(g, placed, stalled) # Placement(graph, placed, stalled))
    /\ UNCHANGED <<placed, stalled, clicked, close, screen, hand>>

\* The kernel's answer for the graph g is used if that graph is the one still drawn.
Placed(g) ==
    /\ kernel /\ g = graph
    /\ placed' = g /\ kernel' = FALSE
    /\ Frames(graph, Placement(graph, g, stalled), selected, clicked, TRUE)
    /\ UNCHANGED <<graph, stalled, selected, clicked, close, screen, hand, acts>>

Refused(g) ==
    /\ kernel /\ g = graph
    /\ stalled' = g /\ kernel' = FALSE
    /\ Frames(graph, graph, selected, clicked, Placement(graph, placed, stalled) # graph)
    /\ UNCHANGED <<graph, placed, selected, clicked, close, screen, hand, acts>>

(***************************************************************************)
(* The camera                                                              *)
(***************************************************************************)
\* Zooming holds the point under the pointer, and brings the selected card back besides.
Zoom ==
    /\ Acts /\ close' = ~close
    /\ moved' = TRUE
    /\ frame' = IF Centres(selected, clicked, Placement(graph, placed, stalled)) THEN "card" ELSE "reader"
    /\ UNCHANGED <<place, selected, clicked, screen, hand>>

Fit ==
    /\ Acts
    /\ close' = FALSE
    /\ frame' = IF close /\ Centres(selected, clicked, Placement(graph, placed, stalled)) THEN "card" ELSE "fit"
    /\ UNCHANGED <<place, selected, moved, clicked, screen, hand>>

\* Through the minimap.
CentreOn ==
    /\ Acts /\ Cardinality(Cards[graph]) > 1
    /\ moved' = TRUE /\ frame' = "reader"
    /\ UNCHANGED <<place, selected, clicked, close, screen, hand>>

\* From the keyboard, a search or the panel beside the map.
Select(n) ==
    /\ Acts /\ n \in Cards[graph] \cup {None} /\ n # selected
    /\ selected' = n
    /\ Frames(graph, Placement(graph, placed, stalled), n, clicked, FALSE)
    /\ UNCHANGED <<place, clicked, close, screen, hand>>

(***************************************************************************)
(* Full screen                                                             *)
(***************************************************************************)
\* The panel is framed again two frames after it fills the screen, unless it has left it.
ToggleFullscreen ==
    /\ Acts
    /\ full' = ~full /\ framing' = ~full
    /\ native' = IF full THEN FALSE ELSE native
    /\ UNCHANGED <<place, selected, frame, moved, clicked, close, hand>>

BrowserFills ==
    /\ full /\ ~native /\ native' = TRUE
    /\ UNCHANGED <<place, selected, frame, moved, clicked, close, full, framing, hand, acts>>

Escape ==
    /\ Acts /\ full
    /\ full' = FALSE /\ native' = FALSE /\ framing' = FALSE
    /\ UNCHANGED <<place, selected, frame, moved, clicked, close, hand>>

FramesFullscreen ==
    /\ framing /\ framing' = FALSE
    /\ close' = FALSE /\ frame' = "fit"
    /\ UNCHANGED <<place, selected, moved, clicked, full, native, hand, acts>>

(***************************************************************************)
(* Presses                                                                 *)
(***************************************************************************)
\* A card takes the press and the camera stays where it is.
PressCard(p) ==
    /\ Acts /\ p \notin down /\ down = {} /\ press.on = None
    /\ press' = [on |-> "card", moved |-> FALSE]
    /\ suppress' = FALSE
    /\ UNCHANGED <<place, selected, frame, moved, clicked, close, screen, down, drag, pinch, clicks>>

\* The ground is grabbed: a pan, or with a second pointer a pinch, whose click is dropped.
PressGround(p) ==
    /\ Acts /\ p \notin down /\ press.on # "card"
    /\ clicked' = None /\ moved' = TRUE
    /\ down' = down \cup {p}
    /\ IF Cardinality(down') = 2
       THEN pinch' = TRUE /\ drag' = None /\ suppress' = TRUE /\ press' = [press EXCEPT !.moved = TRUE]
       ELSE drag' = p /\ suppress' = FALSE /\ press' = [on |-> "ground", moved |-> FALSE] /\ UNCHANGED pinch
    /\ UNCHANGED <<place, selected, frame, close, screen, clicks>>

Move(p) ==
    /\ p \in down
    /\ IF pinch /\ Cardinality(down) >= 2
       THEN \E z \in BOOLEAN :
              /\ close' = z
              /\ frame' = IF z # close /\ Centres(selected, clicked, Placement(graph, placed, stalled))
                          THEN "card" ELSE "reader"
              /\ moved' = TRUE /\ suppress' = TRUE
              /\ press' = [press EXCEPT !.moved = TRUE]
       ELSE /\ drag = p
            /\ suppress' = TRUE /\ press' = [press EXCEPT !.moved = TRUE] /\ frame' = "reader"
            /\ UNCHANGED <<close, moved>>
    /\ UNCHANGED <<place, selected, clicked, screen, down, drag, pinch, clicks, acts>>

Release(p) ==
    /\ p \in down
    /\ down' = down \ {p}
    /\ pinch' = (pinch /\ Cardinality(down') >= 2)
    /\ drag' = IF drag = p THEN None ELSE drag
    /\ UNCHANGED <<place, selected, frame, moved, clicked, close, screen, press, suppress, clicks, acts>>

\* The click that ends a press, on a card n or on the ground. A pinch may end without one.
Click(n) ==
    /\ down = {} /\ press.on # None
    /\ (press.on = "card") = (n # None) /\ n \in Cards[graph] \cup {None}
    /\ press' = [on |-> None, moved |-> FALSE]
    /\ suppress' = FALSE
    /\ clicks' = IF suppress = press.moved THEN clicks ELSE IF suppress THEN "dropped" ELSE "heard"
    /\ IF suppress
       THEN UNCHANGED <<selected, clicked, frame, moved>>
       ELSE /\ selected' = n
            /\ clicked' = IF n # None THEN n ELSE clicked
            /\ Frames(graph, Placement(graph, placed, stalled), n, clicked', FALSE)
    /\ UNCHANGED <<place, close, screen, down, drag, pinch, acts>>

NoClick ==
    /\ down = {} /\ press.moved
    /\ press' = [on |-> None, moved |-> FALSE]
    /\ UNCHANGED <<place, selected, frame, moved, clicked, close, screen, down, drag, pinch, suppress, clicks, acts>>

Next ==
    \/ \E g \in Graphs : Redraw(g) \/ Placed(g) \/ Refused(g)
    \/ \E n \in Nodes \cup {None} : Select(n) \/ Click(n)
    \/ \E p \in Pointers : PressCard(p) \/ PressGround(p) \/ Move(p) \/ Release(p)
    \/ Zoom \/ Fit \/ CentreOn \/ ToggleFullscreen \/ BrowserFills \/ Escape
    \/ FramesFullscreen \/ NoClick

Spec == Init /\ [][Next]_vars

-----------------------------------------------------------------------------
TypeOK ==
    /\ graph \in Graphs /\ placed \in Graphs \cup {None} /\ stalled \in Graphs \cup {None}
    /\ selected \in Nodes \cup {None} /\ clicked \in Nodes \cup {None}
    /\ frame \in {"fit", "reader", "card"}
    /\ \A b \in {kernel, moved, close, full, native, framing, pinch, suppress} : b \in BOOLEAN
    /\ down \subseteq Pointers /\ drag \in Pointers \cup {None} /\ acts \in 0 .. MaxActs

\* Once the kernel has answered or refused, the cards stand where their own graph puts them,
\* however many graphs came and went while it was at work (usePlacedLayout).
SettledMapIsOfItsGraph == ~kernel /\ Cards[graph] # {} => Placement(graph, placed, stalled) = graph

\* A press that moved nothing is heard as a click, and one that panned or pinched is not,
\* whatever presses and pinches went before (suppressNodeClick).
ClicksFollowTheirPress == clicks = None

\* What the proof of the two rests on: a kernel that is at rest, with something to place, has
\* answered for the graph drawn or refused it; while a press lasts its click is to be dropped
\* just when it moved, and pointers are down on the ground only.
TheKernelHasAnswered == ~kernel /\ Cards[graph] # {} => graph \in {placed, stalled}

ThePressIsRemembered ==
    /\ press \in [on : {"card", "ground", None}, moved : BOOLEAN] /\ suppress \in BOOLEAN
    /\ press.on # None => suppress = press.moved
    /\ down # {} => press.on = "ground"

IInv == /\ graph \in Graphs /\ acts \in Nat
        /\ TheKernelHasAnswered /\ ThePressIsRemembered /\ ClicksFollowTheirPress

\* "Fitting it again would yank the view out from under someone mid-read": while the graph
\* stays, a camera the reader placed is not taken from them by a better placement.
TheReadersFrameIsKept ==
    frame = "reader" /\ moved /\ graph' = graph /\ acts' = acts /\ selected' = selected
        => frame' # "fit" \/ framing

\* "Once they have panned, zoomed or jumped through the minimap, the frame on screen is a
\* decision": zooming leaves the camera where the reader put it.
\* Not run: the code does otherwise (README, disagreements that are not run).
ZoomKeepsTheFrame ==
    [][ frame = "reader" /\ moved /\ close' # close /\ graph' = graph /\ selected' = selected
            => frame' # "card" ]_vars
=============================================================================

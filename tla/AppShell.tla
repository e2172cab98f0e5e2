------------------------------ MODULE AppShell ------------------------------
(***************************************************************************)
(* What is opened over a page (app/shell.tsx, ui/command-palette.tsx,      *)
(* ui/shortcuts.tsx, ui/drawer.tsx, lib/motion.ts, lib/keyboard.ts): the   *)
(* drawer a page opens, the navigation, the palette and the sheet of       *)
(* shortcuts. Each takes the focus and stops the page behind it from       *)
(* scrolling, and gives both back as it found them. The palette lists the  *)
(* sections, reviews and repositories by what its two reads last brought.  *)
(***************************************************************************)
EXTENDS Integers, FiniteSets, SequencesExt, Lists

CONSTANTS Paths, Landing,      \* the addresses, and the one that has no shell around it
          Screen, Drawers,     \* by path, the screen drawn there, and those that have a drawer
          Sections, Reviews, Repositories, \* all the entries there may be, in their order
          Leads,               \* by entry, the path it goes to
          Needles, Matching,   \* what may be typed, and the entries that match it
          FirstReviews, FirstRepositories, Cap,
          MaxActs, MaxChanges

VARIABLES path,
          open,     \* what is open over the page, in the order it was opened
          found,    \* by overlay, what it found of the page: [overflow, opener]
          overflow, \* whether the page behind scrolls: "" when it does, or "hidden"
          focus,    \* where the keyboard is: an overlay, a "field" of the page, or the "page"
          query, at,
          held,     \* by list, how many of its entries the server has
          lists,    \* by list, [data, failed, asked]: what was read last
          astray,   \* whether the browser ever walked the page from under something open
          acts, changes

reading == <<query, at>>
server == <<held, lists, changes>>
vars == <<path, open, found, overflow, focus, reading, server, astray, acts>>

Overlays == {"panel", "nav", "palette", "sheet"}
Names == {"reviews", "repositories"}
All(l) == IF l = "reviews" THEN Reviews ELSE Repositories
Unread == [data |-> -1, failed |-> FALSE, asked |-> FALSE]

\* What is assumed of the constants.
ShellAssumption ==
    /\ \A s \in {Sections, Reviews, Repositories} : s \in Seq(Range(s))
    /\ Len(Reviews) >= 1 /\ Len(Repositories) >= 1
    /\ Landing \in Paths /\ Drawers \subseteq Paths
    /\ Matching \in [Needles -> SUBSET (Range(Sections) \cup Range(Reviews) \cup Range(Repositories))]
    /\ Leads \in [Range(Sections) \cup Range(Reviews) \cup Range(Repositories) -> Paths]
    /\ FirstReviews \in Nat /\ FirstRepositories \in Nat /\ Cap \in Nat
    /\ MaxActs \in Nat /\ MaxChanges \in Nat

Init ==
    /\ path \in Paths /\ open = <<>> /\ focus = "page" /\ overflow = ""
    /\ found = [o \in Overlays |-> [overflow |-> "", opener |-> "page"]]
    /\ query = "" /\ at = 0
    /\ held = [l \in Names |-> 1] /\ lists = [l \in Names |-> Unread]
    /\ astray = FALSE /\ acts = 0 /\ changes = 0

Acts == acts < MaxActs /\ acts' = acts + 1

IsOpen(o) == o \in Range(open)

(***************************************************************************)
(* Opening and closing                                                     *)
(***************************************************************************)
\* Nothing is being typed into and nothing modal is up.
PlainShortcut == focus \notin {"field", "palette"} /\ open = <<>>

\* The controls of the page are behind what is open, unless the keyboard was taken to them.
Reachable == open = <<>> \/ focus \in {"page", "field"}

\* A list is read for the palette when it has not been, or when what was read is old.
Refetched(l) == [lists[l] EXCEPT !.asked = TRUE, !.failed = @ /\ lists[l].data >= 0]

Open(o) ==
    /\ Acts /\ ~IsOpen(o)
    /\ open' = Append(open, o)
    /\ found' = [found EXCEPT ![o] = [overflow |-> overflow, opener |-> focus]]
    /\ overflow' = "hidden" /\ focus' = o
    /\ UNCHANGED <<path, reading, held, changes, astray>>

\* By its shortcut, or by the button in the rail.
OpensPalette ==
    /\ path # Landing /\ (PlainShortcut \/ Reachable)
    /\ Open("palette")
    /\ \E old \in SUBSET Names :
           lists' = [l \in Names |-> IF l \in old \/ lists[l].data = -1 THEN Refetched(l) ELSE lists[l]]

OpensSheet ==
    /\ path # Landing /\ (PlainShortcut \/ Reachable)
    /\ Open("sheet") /\ UNCHANGED lists

\* The navigation of the shell, or the drawer of the page.
OpensDrawer(o) ==
    /\ IF o = "nav" THEN path # Landing ELSE path \in Drawers
    /\ Reachable
    /\ Open(o) /\ UNCHANGED lists

\* The overlays of S are closed and each gives back what it found: in the order they were
\* opened where they hear a key, in the order they are drawn where the page went, and a field
\* that was on that page has gone with it.
Closed(S, there) ==
    LET left == Within(open, Overlays \ S)
        order == IF there THEN open ELSE <<"panel", "nav", "palette", "sheet">>
        last == found[Last(Within(order, S))]
        home == IF last.opener \in Overlays \ Range(left) \/ (last.opener = "field" /\ ~there)
                THEN "page" ELSE last.opener
    IN /\ open' = left
       /\ overflow' = IF S = {} THEN overflow ELSE last.overflow
       /\ focus' = IF ~there THEN "page" ELSE IF S = {} THEN focus ELSE home
       /\ found' = [o \in Overlays |-> IF ~there /\ found[o].opener = "field"
                                       THEN [found[o] EXCEPT !.opener = "page"] ELSE found[o]]

Rested == IF IsOpen("palette") /\ "palette" \notin Range(open') THEN query' = "" /\ at' = 0
          ELSE UNCHANGED reading

\* Every overlay hears the key, wherever the keyboard is.
Escape ==
    /\ open # <<>> /\ Closed(Range(open), TRUE) /\ Rested
    /\ UNCHANGED <<path, server, astray, acts>>

\* By its own button or the scrim around it, of what was opened last.
Close(o) ==
    /\ open # <<>> /\ Last(open) = o /\ Closed({o}, TRUE) /\ Rested
    /\ UNCHANGED <<path, server, astray, acts>>

ClosesDrawer == Close("panel") \/ Close("nav")

ClosesSheet == Close("sheet")

\* The palette has no button, only its scrim.
ClosesPalette == Close("palette")

\* What does not outlive a walk to p: the navigation, the drawer of a screen that goes, and
\* all of it where the shell itself comes or goes.
Left(p) ==
    IF p = path THEN {}
    ELSE IF Landing \in {p, path} THEN Range(open)
    ELSE Range(open) \cap ({"nav"} \cup IF Screen[p] = Screen[path] THEN {} ELSE {"panel"})

Arrive(p, S) == path' = p /\ Closed((S \cap Range(open)) \cup Left(p), p = path) /\ Rested

\* Following a link of the page or of the navigation, which closes itself.
Walks(p) ==
    /\ Acts /\ (Reachable \/ focus = "nav")
    /\ Arrive(p, {"nav"})
    /\ astray' = (astray \/ ("nav" # focus /\ open # <<>>))
    /\ UNCHANGED server

\* The browser's own way to another address asks nothing of what is open.
BrowserWalks(p) ==
    /\ Acts /\ p # path /\ Arrive(p, {})
    /\ astray' = (astray \/ open # <<>>)
    /\ UNCHANGED server

Focuses(f) ==
    /\ Acts /\ Reachable /\ focus' = f /\ f # focus
    /\ UNCHANGED <<path, open, found, overflow, reading, server, astray>>

(***************************************************************************)
(* The palette                                                             *)
(***************************************************************************)
Listed(l) == IF lists[l].data < 1 THEN <<>> ELSE SubSeq(All(l), Len(All(l)) - lists[l].data + 1, Len(All(l)))

FirstOf(s, n) == SubSeq(s, 1, IF n < Len(s) THEN n ELSE Len(s))

Found(q) == Within(Sections \o Listed("reviews") \o Listed("repositories"), Matching[q])

Entries ==
    IF query = "" THEN Sections \o FirstOf(Listed("reviews"), FirstReviews)
                                \o FirstOf(Listed("repositories"), FirstRepositories)
    ELSE FirstOf(Found(query), Cap)

\* Whether there was more than is listed.
Cut ==
    IF query = "" THEN Len(Listed("reviews")) > FirstReviews \/ Len(Listed("repositories")) > FirstRepositories
    ELSE Len(Found(query)) > Cap

\* What the palette says when it has nothing to list.
Says ==
    IF \E l \in Names : lists[l].data = -1 /\ ~lists[l].failed THEN "reading"
    ELSE IF \E l \in Names : lists[l].failed THEN "could not read"
    ELSE "nothing matches"

Types(q) ==
    /\ Acts /\ focus = "palette" /\ q # query
    /\ query' = q /\ at' = 0
    /\ UNCHANGED <<path, open, found, overflow, focus, server, astray>>

Smaller(a, b) == IF a < b THEN a ELSE b

\* The arrow keys, and the pointer moving over a row.
Moves(i) ==
    /\ i # at
    /\ \/ focus = "palette" /\ i = Smaller(at + 1, Len(Entries) - 1)
       \/ focus = "palette" /\ i = (IF at > 0 THEN at - 1 ELSE 0)
       \/ IsOpen("palette") /\ Last(open) = "palette" /\ i \in 0 .. Len(Entries) - 1
    /\ at' = i
    /\ UNCHANGED <<path, open, found, overflow, focus, query, server, astray, acts>>

\* Enter, or a click, on row i.
Goes(i) ==
    /\ Acts /\ i \in 0 .. Len(Entries) - 1
    /\ \/ focus = "palette" /\ i = at
       \/ IsOpen("palette") /\ Last(open) = "palette"
    /\ Arrive(Leads[Entries[i + 1]], {"palette"})
    /\ astray' = (astray \/ Len(open) > 1)
    /\ UNCHANGED server

(***************************************************************************)
(* The two lists                                                           *)
(***************************************************************************)
Changes(l) ==
    /\ changes < MaxChanges /\ changes' = changes + 1
    /\ \E n \in 0 .. Len(All(l)) : n # held[l] /\ held' = [held EXCEPT ![l] = n]
    /\ UNCHANGED <<path, open, found, overflow, focus, reading, lists, astray, acts>>

\* A page reads the same list, of its own accord.
Reads(l) ==
    /\ Acts /\ ~lists[l].asked
    /\ lists' = [lists EXCEPT ![l] = Refetched(l)]
    /\ UNCHANGED <<path, open, found, overflow, focus, reading, held, changes, astray>>

Answered(l) ==
    /\ lists[l].asked
    /\ \/ lists' = [lists EXCEPT ![l] = [data |-> held[l], failed |-> FALSE, asked |-> FALSE]]
       \/ lists' = [lists EXCEPT ![l].failed = TRUE, ![l].asked = FALSE]
    /\ UNCHANGED <<path, open, found, overflow, focus, reading, held, changes, astray, acts>>

Next ==
    \/ OpensPalette \/ OpensSheet \/ \E o \in {"panel", "nav"} : OpensDrawer(o)
    \/ Escape \/ ClosesDrawer \/ ClosesSheet \/ ClosesPalette
    \/ \E p \in Paths : Walks(p) \/ BrowserWalks(p)
    \/ \E f \in {"page", "field"} : Focuses(f)
    \/ \E q \in Needles \cup {""} : Types(q)
    \/ \E i \in -1 .. Len(Entries) : Moves(i) \/ Goes(i)
    \/ \E l \in Names : Changes(l) \/ Reads(l) \/ Answered(l)

Spec == Init /\ [][Next]_vars

-----------------------------------------------------------------------------
TypeOK ==
    /\ path \in Paths /\ Range(open) \subseteq Overlays /\ Len(open) = Cardinality(Range(open))
    /\ overflow \in {"", "hidden"} /\ focus \in Overlays \cup {"page", "field"}
    /\ query \in Needles \cup {""} /\ at \in -1 .. Len(Sections) + Len(Reviews) + Len(Repositories)
    /\ \A l \in Names : held[l] \in 0 .. Len(All(l)) /\ lists[l].data \in -1 .. Len(All(l))
    /\ astray \in BOOLEAN /\ acts \in 0 .. MaxActs /\ changes \in 0 .. MaxChanges

\* The page behind scrolls again when, and only when, nothing is open over it, and one thing is
\* open at a time: two stacked by shortcuts would each give back what it found, and the last to
\* close leaves a page that never scrolls (lib/motion.ts 147-164, lib/keyboard.ts 32-43). A
\* page that was walked from under something open is excepted (README, disagreements).
ThePageIsGivenBack ==
    ~astray => /\ Len(open) <= 1
               /\ (overflow = "hidden") = (open # <<>>)
               /\ open # <<>> => focus = Head(open)

\* "Nothing matches" is said only when both lists were read and hold nothing that matches, and
\* an entry that matches is listed or the list owns to being cut (command-palette.tsx 217-240).
TheSearchIsHonest ==
    IsOpen("palette") =>
        /\ Entries = <<>> /\ Says = "nothing matches" => \A l \in Names : lists[l].data >= 0 /\ ~lists[l].failed
        /\ LET all == Range(Sections) \cup Range(Listed("reviews")) \cup Range(Listed("repositories"))
           IN \A e \in all : (query = "" \/ e \in Matching[query]) => e \in Range(Entries) \/ Cut

\* What the proof of the two rests on: what is open holds the keyboard, and found a page that
\* scrolled; and what the palette lists of is the end of a list there is.
ShellTypeOK ==
    /\ open \in Seq(Overlays) /\ query \in Needles \cup {""}
    /\ DOMAIN found = Overlays /\ \A o \in Overlays : DOMAIN found[o] = {"overflow", "opener"}
    /\ held \in [Names -> Nat] /\ \A l \in Names : held[l] \in 0 .. Len(All(l))
    /\ DOMAIN lists = Names
    /\ \A l \in Names : lists[l] \in [data : -1 .. Len(All(l)), failed : BOOLEAN, asked : BOOLEAN]

EachFoundAPageThatScrolls ==
    ~astray => /\ Len(open) \in 0 .. 1 /\ overflow = IF open = <<>> THEN "" ELSE "hidden"
               /\ \A i \in 1 .. Len(open) : focus = open[i] /\ found[open[i]].overflow = ""

IInv == ShellTypeOK /\ EachFoundAPageThatScrolls

\* The highlight is on a row whenever there is one. Not run: the code does otherwise.
TheHighlightIsOnARow ==
    IsOpen("palette") /\ Entries # <<>> => at \in 0 .. Len(Entries) - 1

\* The keyboard is inside what is open. Not run: the code does otherwise.
FocusStaysInside == open # <<>> => focus \in Range(open)

\* Once nothing is open the page scrolls. Not run: the code does otherwise.
NothingOpenScrolls == open = <<>> => overflow = ""
=============================================================================

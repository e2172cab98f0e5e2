---------------------------- MODULE AtlasExplorer ----------------------------
(***************************************************************************)
(* The map of a review (features/review/atlas-surface.tsx and              *)
(* features/atlas/explorer.tsx, visible-graph.ts): what the atlas answered *)
(* about the review and about everything the reader went on to ask, the    *)
(* lens and the filters that decide how much of it is drawn, the search    *)
(* over it and the paths traced on it.                                     *)
(***************************************************************************)
EXTENDS Integers, Sequences, SequencesExt, FiniteSets, Lists

CONSTANTS Elements,        \* of the atlas
          Tests, Private,  \* those that are tests, those that are not public
          Judged,          \* those a finding was made about
          Edges,           \* [from, to, kind], kind "contains", "imports" or "calls"
          Requests, Op,    \* what can be asked; "near", "search", "path" or "cycles"
          On, To,          \* the element it is asked of, or the term; the end of a path
          Found, Round,    \* the elements and the edges of its answer, and of Context's
          Context, None,   \* model values
          Remembered,      \* what an earlier visit to this map asked
          MaxActs          \* bound on what the reader does

Lenses == <<"structure", "dependencies", "judged">>
Kinds == {e.kind : e \in Edges}
Terms == {On[r] : r \in {q \in Requests : Op[q] = "search"}}

\* What is assumed of the constants.
ExplorerAssumption ==
    /\ Found \in [Requests \cup {Context} -> SUBSET Elements]
    /\ Round \in [Requests \cup {Context} -> SUBSET Edges]
    /\ Op \in [Requests -> {"near", "search", "path", "cycles"}]
    /\ Context \notin Requests
    \* The edges of a path or of cycles join elements of that answer (query_service.py).
    /\ \A r \in Requests : Op[r] \in {"path", "cycles"} =>
           \A e \in Round[r] : {e.from, e.to} \subseteq Found[r]
    /\ IsFiniteSet(Elements) /\ Remembered \in Seq(Requests) /\ MaxActs \in Nat
    \* What an earlier visit asked was on its map once.
    /\ \A i, j \in 1 .. Len(Remembered) : Remembered[i] = Remembered[j] => i = j

VARIABLES answer,    \* per request, and for the context: unread, reading, failed or read
          explored,  \* the requests on the map, in order
          selected, start,        \* an element or None
          lens, hidden, tests, public, \* the lens, the kinds, tests and private parts left out
          term, queried, matches, \* typed; sent to the atlas, or None; [ids, at]
          traced,    \* the request whose edges are in full ink, or None
          forced,    \* whether the lens was moved to draw them
          settled,   \* whether the lens it opened on was looked at
          acts

asked == <<answer, explored>>
filters == <<hidden, tests, public>>
search == <<term, queried, matches>>
vars == <<asked, selected, start, lens, filters, search, traced, forced, settled, acts>>

Acts == acts < MaxActs /\ acts' = acts + 1

(***************************************************************************)
(* What is on the map                                                      *)
(***************************************************************************)
Results(x, a) == {r \in {Context} \cup ToSet(x) : a[r] = "read"}

Nodes(x, a) == UNION {Found[r] : r \in Results(x, a)}

EdgesOf(x, a) == {e \in UNION {Round[r] : r \in Results(x, a)} : {e.from, e.to} \subseteq Nodes(x, a)}

FaultyRevealed(x, a) ==
    IF x = <<>> \/ Op[Last(x)] = "path" \/ a[Last(x)] # "read" THEN {} ELSE Found[Last(x)]

\* Everything the reader has asked the atlas for, paths apart.
Revealed(x, a) == UNION {Found[r] : r \in {q \in ToSet(x) : Op[q] # "path" /\ a[q] = "read"}}

\* What the lens l and the filters f leave of the map, with the element s selected.
Visible(x, a, l, f, s) ==
    LET nodes   == Nodes(x, a)
        kept    == Revealed(x, a) \cup ({s} \cap nodes)
        allowed == {n \in nodes : n \in kept \/ ~((f.tests /\ n \in Tests) \/ (f.public /\ n \in Private))}
        byLens  == {e \in EdgesOf(x, a) :
                       /\ e.from # e.to /\ e.kind \notin f.hidden
                       /\ CASE l = "structure" -> e.kind = "contains"
                            [] l = "dependencies" -> e.kind # "contains"
                            [] OTHER -> {e.from, e.to} \cap Judged # {}}
        drawn   == (UNION {{e.from, e.to} : e \in byLens}) \cup kept
                       \cup (IF l = "judged" THEN Judged ELSE {})
        bound   == l = "judged" \/ (l = "dependencies" /\ byLens # {})
        cards   == IF bound THEN allowed \cap drawn ELSE allowed
    IN  [nodes |-> cards, edges |-> {e \in byLens : {e.from, e.to} \subseteq cards}]

Filters == [hidden |-> hidden, tests |-> tests, public |-> public]
Unfiltered == [hidden |-> {}, tests |-> FALSE, public |-> FALSE]

OnScreen == Visible(explored, answer, lens, Filters, selected)

Loading(x, a) == \E r \in {Context} \cup ToSet(x) : a[r] = "reading"

\* The last path or cycle asked for, once it has been answered.
Traced(x, a) ==
    LET at == {i \in DOMAIN x : Op[x[i]] \in {"path", "cycles"}}
        r  == x[CHOOSE i \in at : \A j \in at : j <= i]
    IN  IF at = {} \/ a[r] # "read" THEN None ELSE r

(***************************************************************************)
(* The effects of a render                                                 *)
(***************************************************************************)
ByTerm(t, ns) == SetToSeq({n \in ns : n \in Found[CHOOSE r \in Requests : Op[r] = "search" /\ On[r] = t]})

\* A path is drawn on the lens that draws its edges.
LensFor(t, l) == IF t # None /\ Round[t] # {} THEN "dependencies" ELSE l

\* The lens after a render of x and a on the lens l, with the filters f, the element s selected and
\* the trace w drawn before: an answer to trace moves it once, and the one the map opened on, o
\* saying whether it was looked at, gives way to one that draws.
LensAfter(x, a, l, f, s, w, o) ==
    LET drawing == {z \in ToSet(Lenses) : z # l /\ Visible(x, a, z, f, s).nodes # {}}
        others  == Within(<<"dependencies", "structure">>, drawing)
    IN  IF ~o /\ Nodes(x, a) # {} /\ Visible(x, a, l, f, s).nodes = {} /\ others # <<>>
        THEN Head(others)
        ELSE IF Traced(x, a) = w THEN l ELSE LensFor(Traced(x, a), l)

\* Whether the lens was moved for the trace t, w being the one before.
ForcedBy(t, w, l, was) ==
    IF t = w THEN was ELSE t # None /\ Round[t] # {} /\ (l # "dependencies" \/ was)

\* What follows when the map holds x and a, the lens being l and the search q: cards a sent
\* term brought are matched and the first selected, and the lens moves as it does.
Renders(x, a, l, q, m, s) ==
    LET found == IF q = None THEN <<>> ELSE ByTerm(q, Nodes(x, a))
    IN  /\ queried' = IF found # <<>> THEN None ELSE q
        /\ matches' = IF found # <<>> THEN [ids |-> found, at |-> 1] ELSE m
        /\ selected' = IF found # <<>> THEN Head(found) ELSE s
        /\ traced' = Traced(x, a)
        /\ forced' = ForcedBy(Traced(x, a), traced, l, forced)
        /\ settled' = (settled \/ Nodes(x, a) # {})
        /\ lens' = LensAfter(x, a, l, Filters, s, traced, settled)

\* What was asked on an earlier visit is on the map at once, and the context where it was read.
Init ==
    /\ explored = Remembered
    /\ \E c \in {"reading", "read"} :
          answer = [r \in Requests \cup {Context} |->
                       IF r = Context THEN c ELSE IF r \in ToSet(Remembered) THEN "read" ELSE "unread"]
    /\ selected = None /\ start = None
    /\ hidden = {} /\ tests = FALSE /\ public = FALSE
    /\ term = None /\ queried = None /\ matches = [ids |-> <<>>, at |-> 1]
    /\ traced = Traced(explored, answer) /\ forced = ForcedBy(traced, None, "judged", FALSE)
    /\ settled = (Nodes(explored, answer) # {})
    /\ lens = LensAfter(explored, answer, "judged", Unfiltered, None, None, FALSE)
    /\ acts = 0

(***************************************************************************)
(* Asking                                                                  *)
(***************************************************************************)
\* Asked again, a request is moved to the end, and read again only where it failed.
Without(r) == Within(explored, Requests \ {r})
Explored(r) == Append(Without(r), r)
AnswerOf(r) == IF answer[r] \in {"unread", "failed"} THEN [answer EXCEPT ![r] = "reading"] ELSE answer

Explore(r) ==
    /\ Acts /\ ~Loading(explored, answer)
    /\ CASE Op[r] = "near" -> selected = On[r] /\ selected \in Nodes(explored, answer)
         [] Op[r] = "path" -> start = On[r] /\ selected = To[r] /\ selected \in Nodes(explored, answer)
         [] Op[r] = "cycles" -> TRUE
         [] OTHER -> FALSE
    /\ explored' = Explored(r) /\ answer' = AnswerOf(r)
    /\ Renders(explored', answer', lens, queried, matches, selected)
    /\ UNCHANGED <<start, filters, term>>

Answers(r) ==
    /\ answer[r] = "reading"
    /\ answer' = [answer EXCEPT ![r] = "read"]
    /\ Renders(explored, answer', lens, queried, matches, selected)
    /\ UNCHANGED <<explored, start, filters, term, acts>>

DoesNotAnswer(r) ==
    /\ answer[r] = "reading"
    /\ answer' = [answer EXCEPT ![r] = "failed"]
    /\ UNCHANGED <<explored, selected, start, lens, filters, search, traced, forced, settled, acts>>

\* The context's failure is tried again before any other.
TryAgain(r) ==
    /\ Acts /\ answer[r] = "failed" /\ r \in {Context} \cup ToSet(explored)
    /\ r # Context => answer[Context] # "failed"
    /\ answer' = [answer EXCEPT ![r] = "reading"]
    /\ UNCHANGED <<explored, selected, start, lens, filters, search, traced, forced, settled>>

Drop(r) ==
    /\ Acts /\ r \in ToSet(explored)
    /\ explored' = Without(r)
    /\ Renders(explored', answer, lens, queried, matches, selected)
    /\ UNCHANGED <<answer, start, filters, term>>

ResetMap ==
    /\ Acts /\ explored # <<>>
    /\ explored' = <<>> /\ start' = None
    /\ Renders(<<>>, answer, lens, queried, matches, None)
    /\ UNCHANGED <<answer, filters, term>>

\* A card on the map, or one listed beside the selected one.
Select(n) ==
    /\ Acts /\ n \in Nodes(explored, answer) /\ n # selected
    /\ n \in OnScreen.nodes \/ \E e \in EdgesOf(explored, answer) : {e.from, e.to} = {n, selected}
    /\ selected' = n
    /\ UNCHANGED <<asked, start, lens, filters, search, traced, forced, settled>>

Deselect ==
    /\ Acts /\ selected # None
    /\ selected' = None
    /\ UNCHANGED <<asked, start, lens, filters, search, traced, forced, settled>>

SetPathStart ==
    /\ Acts /\ selected \in Nodes(explored, answer) /\ start \in {None, selected}
    /\ ~Loading(explored, answer)
    /\ start' = selected
    /\ UNCHANGED <<asked, selected, lens, filters, search, traced, forced, settled>>

(***************************************************************************)
(* The lens and the filters                                                *)
(***************************************************************************)
PickLens(l) ==
    /\ Acts /\ l # lens
    /\ lens' = l /\ forced' = FALSE
    /\ UNCHANGED <<asked, selected, start, filters, search, traced, settled>>

ToggleKind(k) ==
    /\ Acts /\ \E e \in EdgesOf(explored, answer) : e.kind = k
    /\ hidden' = IF k \in hidden THEN hidden \ {k} ELSE hidden \cup {k}
    /\ UNCHANGED <<asked, selected, start, lens, tests, public, search, traced, forced, settled>>

HideTests ==
    /\ Acts /\ tests' = ~tests
    /\ UNCHANGED <<asked, selected, start, lens, hidden, public, search, traced, forced, settled>>

PublicOnly ==
    /\ Acts /\ public' = ~public
    /\ UNCHANGED <<asked, selected, start, lens, hidden, tests, search, traced, forced, settled>>

\* What a blank map offers: to clear the filters, another lens, or nothing.
Offer ==
    LET named  == Filters # Unfiltered
        others == Within(Lenses, {l \in ToSet(Lenses) :
                          l # lens /\ Visible(explored, answer, l, Filters, selected).nodes # {}})
    IN  IF Nodes(explored, answer) = {} \/ OnScreen.nodes # {} THEN "nothing"
        ELSE IF named /\ Visible(explored, answer, lens, Unfiltered, selected).nodes # {} THEN "clear"
        ELSE IF others # <<>> THEN Head(others)
        ELSE IF named THEN "clear" ELSE "nothing"

TakeOffer ==
    /\ Acts /\ Offer # "nothing" /\ ~Loading(explored, answer)
    /\ IF Offer = "clear"
       THEN hidden' = {} /\ tests' = FALSE /\ public' = FALSE /\ UNCHANGED lens
       ELSE lens' = Offer /\ UNCHANGED filters
    /\ UNCHANGED <<asked, selected, start, search, traced, forced, settled>>

(***************************************************************************)
(* Searching                                                               *)
(***************************************************************************)
Matches == Within(matches.ids, Nodes(explored, answer))
At == IF matches.at <= Len(Matches) THEN matches.at ELSE Len(Matches)

Type(t) ==
    /\ Acts /\ t # term
    /\ term' = t /\ queried' = None
    /\ matches' = [ids |-> <<>>, at |-> 1]
    /\ UNCHANGED <<asked, selected, start, lens, filters, traced, forced, settled>>

\* Cards already on the map answer a term; otherwise the atlas is asked.
Submit ==
    /\ Acts /\ term # None
    /\ LET found == ByTerm(term, Nodes(explored, answer))
           r     == CHOOSE q \in Requests : Op[q] = "search" /\ On[q] = term
       IN  IF found # <<>>
           THEN /\ matches' = [ids |-> found, at |-> 1] /\ queried' = None
                /\ selected' = Head(found)
                /\ UNCHANGED <<asked, lens, traced, forced, settled>>
           ELSE /\ explored' = Explored(r) /\ answer' = AnswerOf(r)
                /\ Renders(explored', answer', lens, term, [ids |-> <<>>, at |-> 1], selected)
    /\ UNCHANGED <<start, filters, term>>

Step(by) ==
    /\ Acts /\ Len(Matches) > 1
    /\ LET next == ((At - 1 + by + Len(Matches)) % Len(Matches)) + 1
       IN  matches' = [ids |-> Matches, at |-> next] /\ selected' = Matches[next]
    /\ UNCHANGED <<asked, start, lens, filters, term, queried, traced, forced, settled>>

Next ==
    \/ \E r \in Requests : Explore(r) \/ Drop(r)
    \/ \E r \in Requests \cup {Context} : Answers(r) \/ DoesNotAnswer(r) \/ TryAgain(r)
    \/ \E n \in Elements : Select(n)
    \/ \E l \in ToSet(Lenses) : PickLens(l)
    \/ \E k \in Kinds : ToggleKind(k)
    \/ \E t \in Terms \cup {None} : Type(t)
    \/ \E by \in {-1, 1} : Step(by)
    \/ ResetMap \/ Deselect \/ SetPathStart \/ HideTests \/ PublicOnly \/ TakeOffer \/ Submit

Spec == Init /\ [][Next]_vars

-----------------------------------------------------------------------------
TypeOK ==
    /\ answer \in [Requests \cup {Context} -> {"unread", "reading", "failed", "read"}]
    /\ ToSet(explored) \subseteq Requests /\ Len(explored) = Cardinality(ToSet(explored))
    /\ selected \in Elements \cup {None} /\ start \in Elements \cup {None}
    /\ lens \in ToSet(Lenses) /\ hidden \subseteq Kinds
    /\ tests \in BOOLEAN /\ public \in BOOLEAN /\ forced \in BOOLEAN /\ settled \in BOOLEAN
    /\ traced \in Requests \cup {None} /\ acts \in 0 .. MaxActs

\* Everything the reader asked the atlas for stays drawn under every lens and filter until they
\* drop the request that brought it, whatever they ask next (revealedNodeIds, visibleGraphFor).
NothingAskedForIsHidden ==
    \A r \in ToSet(explored) : Op[r] # "path" /\ answer[r] = "read" => Found[r] \subseteq OnScreen.nodes

\* "Shown on the Dependencies lens, which is where those edges are drawn" is said while it is
\* so, and a lens the reader chose is left alone until another trace is answered.
TheMovedLensIsOwnedTo ==
    forced => lens = "dependencies" /\ traced # None /\ Round[traced] # {}

\* What a blank map offers draws something, where anything would.
OffersDraw ==
    /\ Offer \in ToSet(Lenses) =>
           Visible(explored, answer, Offer, Filters, selected).nodes # {}
    /\ Nodes(explored, answer) # {} /\ OnScreen.nodes = {} => Offer # "nothing"

\* What the proof of these rests on.  The trace drawn is the last one answered.
TraceIsTheLast == traced = Traced(explored, answer)

\* While the lens it opened on was not looked at nothing is drawn: no path was asked for, which
\* takes two cards, and one asked for on an earlier visit found nothing.
NothingIsDrawnYet ==
    settled \/ /\ Nodes(explored, answer) = {}
               /\ \A r \in Requests : Op[r] = "path" =>
                      answer[r] = "unread" \/ (answer[r] = "read" /\ Found[r] = {})

IInv ==
    /\ answer \in [Requests \cup {Context} -> {"unread", "reading", "failed", "read"}]
    /\ explored \in Seq(Requests) /\ term \in Terms \cup {None}
    /\ lens \in ToSet(Lenses) /\ forced \in BOOLEAN /\ settled \in BOOLEAN
    /\ TraceIsTheLast /\ NothingIsDrawnYet /\ TheMovedLensIsOwnedTo

\* "A path of n elements, drawn on the map" (traceNote).
\* Not run: the code does otherwise (README, disagreements that are not run).
TracedPathIsDrawn ==
    traced # None /\ Op[traced] = "path" =>
        Found[traced] \subseteq OnScreen.nodes /\ Round[traced] \subseteq OnScreen.edges
=============================================================================

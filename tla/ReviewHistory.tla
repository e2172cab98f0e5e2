---------------------------- MODULE ReviewHistory ----------------------------
(***************************************************************************)
(* The reviews page (features/reviews/reviews-page.tsx): the reviews of    *)
(* the workspace and the runs making new ones, read separately, grouped    *)
(* into one line of work per branch, filtered, and deleted from their row. *)
(***************************************************************************)
EXTENDS Integers, FiniteSets

CONSTANTS Reviews, Runs, Branches, Statuses, \* with "awaiting_answers" among the statuses
          Words,        \* what may be searched for: the branches, and words of none of them
          None,         \* model value
          MaxActs       \* bound on what the reader does

\* What is assumed of the constants.
HistoryAssumption ==
    /\ IsFiniteSet(Reviews) /\ None \notin Reviews \cup Runs \cup Words /\ Branches \subseteq Words /\ MaxActs \in Nat
    /\ "awaiting_answers" \in Statuses /\ "all" \notin Statuses

VARIABLES filed,    \* each review: [branch, sequence, status, open] or None
          running,  \* each run: [branch, review] where it is at work, or None
          reviews, runs, \* what the page last read of them
          decided,  \* per branch whether its standing decisions are read
          query, status, \* what is searched for or None, and the status filter
          expanded, \* the lines whose older revisions are shown
          confirming, deleting, \* the rows asking before a delete, and the deletes under way
          pending,  \* the delete the page shows under way, or None
          acts

world == <<filed, running>>
cache == <<reviews, runs, decided>>
view == <<query, status, expanded>>
rows == <<confirming, deleting, pending>>
vars == <<world, cache, view, rows, acts>>

Review == [branch : Branches, sequence : 1 .. Cardinality(Reviews), status : Statuses, open : 0 .. 1]
Run == [branch : Branches, review : Reviews \cup {None}]

Kept(f) == {v \in Reviews : f[v] # None}
Working(r) == {x \in Runs : r[x] # None}

\* Reviews of a branch are numbered in order.
Numbered(f) ==
    \A v, w \in Kept(f) : v # w /\ f[v].branch = f[w].branch => f[v].sequence # f[w].sequence

Init ==
    /\ filed \in [Reviews -> Review] /\ Numbered(filed)
    /\ running = [x \in Runs |-> None]
    /\ reviews = [v \in Reviews |-> None] /\ runs = running
    /\ decided = {}
    /\ query = None /\ status = "all" /\ expanded = {}
    /\ confirming = {} /\ deleting = {} /\ pending = None
    /\ acts = 0

-----------------------------------------------------------------------------
(* What is drawn.                                                          *)
Matching == {v \in Kept(reviews) : query \in {None, reviews[v].branch}}
Visible == {v \in Matching : status \in {"all", reviews[v].status}}
MatchingRuns == {x \in Working(runs) : query \in {None, runs[x].branch}}

\* How many revisions each chip would return.
StatusCounts(s) == Cardinality({v \in Matching : s \in {"all", reviews[v].status}})

\* One line of work per branch, of whatever is shown of it.
Lineages == {reviews[v].branch : v \in Visible} \cup {runs[x].branch : x \in MatchingRuns}
Line(b) == {v \in Visible : reviews[v].branch = b}
LineRuns(b) == {x \in MatchingRuns : runs[x].branch = b}

First(S) == {v \in S : \A w \in S : reviews[w].sequence <= reviews[v].sequence}

\* The runs that are drawn on the row of the review they judge again.
RejudgingRun(b, v) == {x \in LineRuns(b) : runs[x].review = v}

FaultyPendingRows(b) == {x \in LineRuns(b) : runs[x].review = None}

\* The others are revisions being made, or rejudge one that is not on the page.
PendingRows(b) == {x \in LineRuns(b) : runs[x].review = None \/ runs[x].review \notin Line(b)}

\* The newest spells itself out, and whatever is being judged again; the rest are one press away.
ShownRows(b) ==
    IF b \in expanded THEN Line(b)
    ELSE First(Line(b)) \cup {v \in Line(b) : RejudgingRun(b, v) # {}}
Hidden(b) == Cardinality(Line(b)) - Cardinality(ShownRows(b))

\* The newest of a branch, whatever the filters are set to.
Newest == UNION {First({v \in Kept(reviews) : reviews[v].branch = b}) : b \in Branches}

\* What still wants a person, once the branch's decisions are read; nothing otherwise.
WantsOf(v) == reviews[v].open + IF reviews[v].status = "awaiting_answers" THEN 1 ELSE 0
Wants(v) == IF v \in Newest /\ reviews[v].branch \in decided THEN WantsOf(v) ELSE None

\* A rail of the branch's revisions where there are several.
TrajectoryRail(b) == Cardinality(Line(b)) > 1

-----------------------------------------------------------------------------
(* The workspace.                                                          *)
RunBegins(x, b, v) ==
    /\ running[x] = None
    /\ v # None => filed[v] # None /\ filed[v].branch = b /\ filed[v].status = "awaiting_answers"
    /\ \A y \in Working(running) : v = None \/ running[y].review # v
    /\ running' = [running EXCEPT ![x] = [branch |-> b, review |-> v]]
    /\ UNCHANGED <<filed, cache, view, rows, acts>>

\* A run that ends may have filed a review in the place of one deleted.
RunEnds(x) ==
    /\ running[x] # None
    /\ running' = [running EXCEPT ![x] = None]
    /\ \/ UNCHANGED filed
       \/ \E v \in Reviews \ Kept(filed), s \in Statuses, o \in 0 .. 1 :
             LET f == [filed EXCEPT ![v] = [branch |-> running[x].branch, status |-> s, open |-> o,
                         sequence |-> 1 + Cardinality({w \in Kept(filed) :
                                                        filed[w].branch = running[x].branch})]]
             IN  Numbered(f) /\ filed' = f
    /\ UNCHANGED <<cache, view, rows, acts>>

ReviewsArrive ==
    /\ reviews # filed
    /\ reviews' = filed
    /\ confirming' = confirming \cap Kept(filed)
    /\ UNCHANGED <<world, runs, decided, view, deleting, pending, acts>>

RunsArrive ==
    /\ runs # running
    /\ runs' = running
    /\ UNCHANGED <<world, reviews, decided, view, rows, acts>>

DecisionsArrive(b) ==
    /\ b \notin decided /\ \E v \in Newest : reviews[v].branch = b
    /\ decided' = decided \cup {b}
    /\ UNCHANGED <<world, reviews, runs, view, rows, acts>>

-----------------------------------------------------------------------------
(* The reader.                                                             *)
Acts == acts < MaxActs /\ acts' = acts + 1

\* A row that leaves the page forgets its question.
Drawn == UNION {ShownRows(b) : b \in Branches}

Search(q) ==
    /\ Acts /\ q # query
    /\ query' = q
    /\ confirming' = {v \in confirming : q \in {None, reviews[v].branch}}
    /\ UNCHANGED <<world, cache, status, expanded, deleting, pending>>

\* A chip that would return nothing is off, unless it is the one pressed.
SetStatus(s) ==
    /\ Acts /\ s # status /\ StatusCounts(s) > 0
    /\ status' = s
    /\ confirming' = {v \in confirming : s \in {"all", reviews[v].status}}
    /\ UNCHANGED <<world, cache, query, expanded, deleting, pending>>

ClearFilters ==
    /\ Acts /\ Lineages = {} /\ Kept(reviews) # {}
    /\ query' = None /\ status' = "all"
    /\ UNCHANGED <<world, cache, expanded, rows>>

Expand(b) ==
    /\ Acts /\ b \in Lineages /\ (Hidden(b) > 0 \/ b \in expanded)
    /\ expanded' = IF b \in expanded THEN expanded \ {b} ELSE expanded \cup {b}
    /\ UNCHANGED <<world, cache, query, status, rows>>

AskToDelete(v) ==
    /\ Acts /\ v \in Drawn \ confirming /\ RejudgingRun(reviews[v].branch, v) = {}
    /\ confirming' = confirming \cup {v}
    /\ UNCHANGED <<world, cache, view, deleting, pending>>

Keep(v) ==
    /\ Acts /\ v \in confirming \cap Drawn
    /\ confirming' = confirming \ {v}
    /\ UNCHANGED <<world, cache, view, deleting, pending>>

\* The page shows the last delete it began.
Delete(v) ==
    /\ Acts /\ v \in confirming \cap Drawn /\ RejudgingRun(reviews[v].branch, v) = {}
    /\ v # pending
    /\ deleting' = deleting \cup {v} /\ pending' = v
    /\ UNCHANGED <<world, cache, view, confirming>>

Deleted(v) ==
    /\ v \in deleting
    /\ \/ filed' = [filed EXCEPT ![v] = None]
       \/ UNCHANGED filed
    /\ deleting' = deleting \ {v}
    /\ pending' = IF pending = v THEN None ELSE pending
    /\ UNCHANGED <<running, cache, view, confirming, acts>>

Next ==
    \/ \E x \in Runs : RunEnds(x) \/ \E b \in Branches, v \in Reviews \cup {None} : RunBegins(x, b, v)
    \/ ReviewsArrive \/ RunsArrive \/ ClearFilters
    \/ \E b \in Branches : DecisionsArrive(b) \/ Expand(b)
    \/ \E q \in Words \cup {None} : Search(q)
    \/ \E s \in Statuses \cup {"all"} : SetStatus(s)
    \/ \E v \in Reviews : AskToDelete(v) \/ Keep(v) \/ Delete(v) \/ Deleted(v)

Spec == Init /\ [][Next]_vars

-----------------------------------------------------------------------------
TypeOK ==
    /\ filed \in [Reviews -> Review \cup {None}] /\ running \in [Runs -> Run \cup {None}]
    /\ reviews \in [Reviews -> Review \cup {None}] /\ runs \in [Runs -> Run \cup {None}]
    /\ decided \subseteq Branches /\ query \in Words \cup {None}
    /\ status \in Statuses \cup {"all"} /\ expanded \subseteq Branches
    /\ confirming \subseteq Reviews /\ deleting \subseteq Reviews

\* "The status filter cannot hide them": every run of the branches searched for is drawn,
\* once, on the row of the review it judges again or as a row of its own, whatever reviews
\* have been read, filtered off, folded away or deleted meanwhile (LineageBlock).
RunsAreDrawnOnce ==
    \A x \in MatchingRuns :
        Cardinality({v \in Drawn : x \in RejudgingRun(reviews[v].branch, v)})
        + Cardinality({b \in Branches : x \in PendingRows(b)}) = 1

\* Of one branch no more than one row says that work is open, and it is the row of the newest
\* revision there is: not of the newest the filters let through (newest, wants).
OpenWorkIsSaidOnce ==
    \A v \in Drawn :
        Wants(v) # None
        => \A w \in Kept(reviews) :
              reviews[w].branch = reviews[v].branch => reviews[w].sequence <= reviews[v].sequence

\* What the proof of the first rests on: a run is of a branch.
RunsAreOfBranches == running \in [Runs -> Run \cup {None}] /\ runs \in [Runs -> Run \cup {None}]
=============================================================================

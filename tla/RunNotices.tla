----------------------------- MODULE RunNotices -----------------------------
(***************************************************************************)
(* One notification when a rejudgement lands (useRejudgementNotice in      *)
(* features/start/run-progress.tsx): the run is watched from the review's  *)
(* page, which stays while the reader walks from one review to another,    *)
(* and a run is over when it has left the listing of what is running.      *)
(***************************************************************************)
EXTENDS Integers, FiniteSets

CONSTANTS Runs,    \* the runs, each the rejudgement of a review of its own
          None,    \* model value, which is no set either
          MaxActs  \* bound on what the reader does

\* What is assumed of the constants.
NoticesAssumption == None \notin Runs /\ (\A S \in SUBSET Runs : S # None) /\ MaxActs \in Nat

VARIABLES running,  \* the runs at work
          listed,   \* those last listed, or None before the first answer
          open,     \* the run whose review is open, or None where that has not arrived
          armed,    \* whether the reader will be told
          asking,   \* whether the browser is asking them whether it may
          watching, \* the run watched, or None
          told,     \* the runs a notification was given for
          promised, \* the run that was watched when the reader was promised one, or None
          acts

vars == <<running, listed, open, armed, asking, watching, told, promised, acts>>

Init ==
    /\ running \in SUBSET Runs /\ listed = None /\ open \in Runs
    /\ armed = FALSE /\ asking = FALSE /\ watching = None
    /\ told = {} /\ promised = None /\ acts = 0

Acts == acts < MaxActs /\ acts' = acts + 1

\* The rejudgement of the review that is open.
InView(o, l) == IF o # None /\ l # None /\ o \in l THEN o ELSE None

\* A promise already made outranks the run in view.
TakesOver(r, a, w) == ~a \/ w = None \/ w = r

\* What a render does with the review o, the listing l and the promise a: it watches the run
\* in view, or tells of the watched one that has left the listing. No listing is no absence.
Renders(o, l, a) ==
    LET r     == InView(o, l)
        takes == r # None /\ TakesOver(r, a, watching)
        gone  == ~takes /\ watching # None /\ l # None /\ watching \notin l
    IN  /\ open' = o /\ listed' = l
        /\ watching' = IF takes THEN r
                       ELSE IF ~gone THEN watching
                       ELSE IF a /\ r # None THEN r ELSE None
        /\ told' = IF gone /\ a THEN told \cup {watching} ELSE told
        /\ armed' = (a /\ ~gone)

Begins(r) ==
    /\ r \notin running /\ r \notin told
    /\ running' = running \cup {r}
    /\ UNCHANGED <<listed, open, armed, asking, watching, told, promised, acts>>

Ends(r) ==
    /\ r \in running
    /\ running' = running \ {r}
    /\ UNCHANGED <<listed, open, armed, asking, watching, told, promised, acts>>

Poll ==
    /\ listed # running
    /\ Renders(open, running, armed)
    /\ UNCHANGED <<running, asking, promised, acts>>

\* Walking to another review; the page has none until it is read.
Walk ==
    /\ Acts /\ open # None
    /\ Renders(None, listed, armed)
    /\ UNCHANGED <<running, asking, promised>>

Arrives(r) ==
    /\ open = None
    /\ Renders(r, listed, armed)
    /\ UNCHANGED <<running, asking, promised, acts>>

\* "Tell me when it is done", beside the run in view.
Offered == InView(open, listed) # None /\ ~armed

Ask ==
    /\ Acts /\ Offered /\ ~asking
    /\ asking' = TRUE
    /\ UNCHANGED <<running, listed, open, armed, watching, told, promised>>

Granted ==
    /\ asking /\ asking' = FALSE
    /\ Renders(open, listed, TRUE)
    /\ promised' = watching'
    /\ UNCHANGED <<running, acts>>

Denied ==
    /\ asking /\ asking' = FALSE
    /\ UNCHANGED <<running, listed, open, armed, watching, told, promised, acts>>

Next ==
    \/ \E r \in Runs : Begins(r) \/ Ends(r) \/ Arrives(r)
    \/ Poll \/ Walk \/ Ask \/ Granted \/ Denied

Spec == Init /\ [][Next]_vars

-----------------------------------------------------------------------------
TypeOK ==
    /\ running \subseteq Runs /\ (listed # None => listed \subseteq Runs)
    /\ open \in Runs \cup {None} /\ watching \in Runs \cup {None}
    /\ armed \in BOOLEAN /\ asking \in BOOLEAN
    /\ told \subseteq Runs /\ promised \in Runs \cup {None} /\ acts \in 0 .. MaxActs

\* The reader is told of the run they were promised, and of no other before it, whatever
\* reviews they walk to and whatever runs come and go meanwhile.
PromiseOutranksTheView ==
    /\ armed /\ promised # None => watching = promised
    /\ promised # None /\ listed # None /\ promised \notin listed /\ ~asking => promised \in told

\* What the proof of it rests on: a watched run is one of those last listed, and a promise
\* stands while its run is watched, until the reader has been told.
WatchedAreListed == watching # None => listed # None /\ watching \in listed
PromisesStandOrAreKept == promised # None => (armed /\ watching = promised) \/ promised \in told
LatestPromiseIsWatched == armed /\ promised # None => watching = promised
IInv == TypeOK /\ WatchedAreListed /\ PromisesStandOrAreKept /\ LatestPromiseIsWatched
=============================================================================

---------------------------- MODULE ReviewDelta ----------------------------
(***************************************************************************)
(* The Delta tab of a review (features/review/surfaces.tsx) and the line of*)
(* verdicts a docket row carries (features/review/trajectory.tsx).  The tab*)
(* lists the candidates by what moved since the review before, under one   *)
(* filter, and says once over the list what all its rows would repeat.  The*)
(* tab outlives the record it shows: a browser that goes back several pages*)
(* at once changes the record under it.                                    *)
(***************************************************************************)
EXTENDS Integers, Sequences, FiniteSets, SequencesExt, Lists

CONSTANTS Lineage,    \* how many reviews the line has
          Candidates, \* what they detect, in the order the server lists it
          Verdicts,
          None, Asked, \* model values
          Drawn       \* how many verdicts a row draws: six

\* What is assumed of the constants.
DeltaAssumption ==
    /\ Lineage \in Nat \ {0} /\ Drawn \in Nat \ {0}
    /\ Candidates \in Seq(Range(Candidates)) /\ IsInjective(Candidates)
    /\ None \notin {"addressed", "changed", "new", "unchanged", Asked}

VARIABLES verdicts, \* per review and candidate, its verdict, or None if not detected
          causes,   \* per review and candidate, why it was judged again
          at,       \* the review whose tab is open
          earlier,  \* what the page holds of the review before it
          filter,   \* of the tab: all, or one kind of movement
          lineage   \* the reviews the page has read for the rows' lines

vars == <<verdicts, causes, at, earlier, filter, lineage>>

States == <<"addressed", "changed", "new", "unchanged">>
Causes == {<<>>, <<"content">>, <<"case">>, <<"case", "model">>}

Was(r, c) == IF r = 1 THEN None ELSE verdicts[r - 1][c]

\* The server's delta of review r: a candidate that kept its evidence keeps its verdict.
Movement(r, c) ==
    CASE Was(r, c) # None /\ verdicts[r][c] = None -> "addressed"
      [] Was(r, c) = None /\ verdicts[r][c] # None -> "new"
      [] Was(r, c) # None /\ verdicts[r][c] # None ->
            IF causes[r][c] = None THEN "unchanged" ELSE "changed"
      [] OTHER -> None

Init ==
    /\ verdicts \in [1 .. Lineage -> [Range(Candidates) -> Verdicts \cup {None}]]
    /\ causes \in [1 .. Lineage -> [Range(Candidates) -> Causes \cup {None}]]
    /\ \A r \in 1 .. Lineage, c \in Range(Candidates) :
          /\ causes[r][c] # None => Was(r, c) # None /\ verdicts[r][c] # None
          /\ causes[r][c] = None /\ Was(r, c) # None => verdicts[r][c] \in {Was(r, c), None}
    /\ at \in 1 .. Lineage
    /\ earlier = IF at = 1 THEN None ELSE Asked
    /\ filter = "all"
    /\ lineage = 0

(***************************************************************************)
(* The rows                                                                *)
(***************************************************************************)
\* The page reads the review before to say what a verdict was; a row it has not is without.
VerdictLastTime(r, c) == IF earlier = r - 1 /\ r > 1 THEN Was(r, c) ELSE None

WhyChanged(why) == IF why = <<>> THEN <<"something it was judged against moved">> ELSE why

Reason(r, c) ==
    CASE Movement(r, c) = "addressed" -> <<"raised in review", r - 1, "not detected in this one">>
      [] Movement(r, c) = "changed" -> WhyChanged(causes[r][c])
      [] Movement(r, c) = "new" -> IF r = 1 THEN <<"the first review">> ELSE <<"not detected in review", r - 1>>
      [] OTHER -> <<"carried forward from review", r - 1>>

\* A row: an addressed candidate carries its last verdict, a changed one what it was if the
\* verdict changed, and only the candidates of this review open.
Entry(r, c) ==
    LET state == Movement(r, c)
        last == VerdictLastTime(r, c)
    IN  [candidate |-> c, state |-> state, reason |-> Reason(r, c),
         was |-> CASE state = "addressed" -> Was(r, c)
                   [] state = "changed" -> IF last = verdicts[r][c] THEN None ELSE last
                   [] OTHER -> None,
         now |-> verdicts[r][c],
         opens |-> verdicts[r][c] # None]

OfState(r, s) == Within(Candidates, {c \in Range(Candidates) : Movement(r, c) = s})
Entries ==
    LET Rows(s) == [i \in DOMAIN OfState(at, s) |-> Entry(at, OfState(at, s)[i])]
    IN  Rows("addressed") \o Rows("changed") \o Rows("new") \o Rows("unchanged")

Counts(s) == Len(Within(Entries, {e \in Range(Entries) : e.state = s}))
Visible == Within(Entries, {e \in Range(Entries) : filter = "all" \/ e.state = filter})
Elsewhere == {s \in Range(States) : filter # "all" /\ s # filter /\ Counts(s) > 0}

\* What every visible row would say, and nothing of a list of one.
AgreesOn(Read(_)) ==
    IF Len(Visible) >= 2 /\ \A e \in Range(Visible) : Read(e) = Read(Visible[1])
    THEN Read(Visible[1])
    ELSE None

SharedMovement == AgreesOn(LAMBDA e : <<e.state, e.reason>>)

\* A verdict is not said once for rows that say what it was before.
SharedVerdict ==
    IF \E e \in Range(Visible) : e.was # None THEN None ELSE AgreesOn(LAMBDA e : e.now)

\* What a row itself still says under the line over the list.
RowShows(e) ==
    [movement |-> IF SharedMovement # None THEN None ELSE <<e.state, e.reason>>,
     was |-> IF SharedVerdict # None THEN None ELSE e.was,
     verdict |-> CASE SharedVerdict # None -> None
                   [] SharedVerdict = None /\ e.now # None -> e.now
                   [] SharedVerdict = None /\ e.now = None /\ e.state = "addressed" -> "no longer detected"
                   [] OTHER -> None]

\* The sentence at the head of the tab, and the one in the place of an empty list.
NothingMoved == at # 1 /\ Entries # <<>> /\ \A s \in {"addressed", "changed", "new"} : Counts(s) = 0
NothingDetected == Visible = <<>>

(***************************************************************************)
(* The line of a row                                                       *)
(***************************************************************************)
\* The verdict of each review on a candidate, the newest ones drawn and the rest counted.
CandidateTrajectory(c) ==
    IF lineage < 2 THEN None
    ELSE LET steps == [r \in 1 .. lineage |-> [review |-> r, verdict |-> verdicts[r][c], current |-> r = at]]
             first == IF lineage > Drawn THEN lineage - Drawn + 1 ELSE 1
         IN  [said |-> steps, drawn |-> SubSeq(steps, first, lineage), elided |-> first - 1]

\* What holds its place until the reviews are read.
TrajectoryPlaceholder(depth) ==
    IF depth < 2 THEN None
    ELSE [nodes |-> IF depth < Drawn THEN depth ELSE Drawn,
          elided |-> IF depth < Drawn THEN 0 ELSE depth - Drawn]

-----------------------------------------------------------------------------
SetFilter(s) ==
    /\ s = "all" \/ Counts(s) > 0
    /\ filter' = s
    /\ UNCHANGED <<verdicts, causes, at, earlier, lineage>>

EarlierArrives ==
    /\ earlier = Asked
    /\ earlier' \in {at - 1, None}
    /\ UNCHANGED <<verdicts, causes, at, filter, lineage>>

LineageArrives ==
    /\ Lineage > 1 /\ lineage = 0
    /\ lineage' = Lineage
    /\ UNCHANGED <<verdicts, causes, at, earlier, filter>>

\* Another record of the line, from the page's own copies: the tab stays as it is.
Jump(r) ==
    /\ r # at
    /\ at' = r
    /\ earlier' = IF r = 1 THEN None ELSE IF lineage # 0 THEN r - 1 ELSE Asked
    /\ UNCHANGED <<verdicts, causes, filter, lineage>>

Next ==
    \/ \E s \in Range(States) \cup {"all"} : SetFilter(s)
    \/ EarlierArrives \/ LineageArrives
    \/ \E r \in 1 .. Lineage : Jump(r)

Spec == Init /\ [][Next]_vars

-----------------------------------------------------------------------------
TypeOK ==
    /\ at \in 1 .. Lineage
    /\ earlier \in {None, Asked} \cup 1 .. Lineage
    /\ filter \in Range(States) \cup {"all"}
    /\ lineage \in {0, Lineage}

IInv == at \in 1 .. Lineage /\ lineage \in {0, Lineage}

\* Reading the line over the list and then a row says what happened to that candidate, neither
\* more nor less: the movement, the verdict it has, and the one it had where it changed and the
\* page has read it (DeltaSurface's hoisted line and DeltaRow).
RowsReadInFull ==
    \A e \in Range(Visible) :
       LET row == RowShows(e)
           movement == IF SharedMovement # None THEN SharedMovement ELSE row.movement
           verdict == IF SharedVerdict # None THEN SharedVerdict ELSE row.verdict
       IN  /\ movement = <<Movement(at, e.candidate), Reason(at, e.candidate)>>
           /\ verdict = IF verdicts[at][e.candidate] = None THEN "no longer detected" ELSE verdicts[at][e.candidate]
           /\ row.was # None => at > 1 /\ row.was = Was(at, e.candidate) /\ row.was # verdicts[at][e.candidate]
           /\ (e.state = "changed" /\ earlier = at - 1 /\ Was(at, e.candidate) # verdicts[at][e.candidate])
                 => row.was = Was(at, e.candidate)

\* The list and its footer account for every candidate of either review, each once.
EveryCandidateIsListed ==
    /\ \A c \in Range(Candidates) : Movement(at, c) # None =>
          Cardinality({k \in DOMAIN Entries : Entries[k].candidate = c}) = 1
    /\ Len(Visible) + Len(Within(Entries, {e \in Range(Entries) : e.state \in Elsewhere})) = Len(Entries)
    /\ NothingMoved => \A c \in Range(Candidates) : at > 1 /\ verdicts[at][c] = verdicts[at - 1][c]

\* The line that arrives takes the room that was held for it.
PlaceholderHoldsTheRoom ==
    \A c \in Range(Candidates) : lineage > 1 =>
       LET line == CandidateTrajectory(c)
           held == TrajectoryPlaceholder(Lineage)
       IN  held.nodes = Len(line.drawn) /\ held.elided = line.elided

\* "Reachable in one way only: the review detected nothing at all."
\* Not run: the code does otherwise (README, disagreements that are not run).
NoFilterEmptiesTheList == NothingDetected => Entries = <<>>
=============================================================================

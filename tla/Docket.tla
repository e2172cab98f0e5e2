------------------------------- MODULE Docket -------------------------------
(***************************************************************************)
(* The docket of one review page (features/review: docket.tsx,             *)
(* decision-bar.tsx, docket-rules.ts and the parts of review-page.tsx that *)
(* hold the docket's state): the rows a reader walks, the standing         *)
(* decisions taken on them, and the list of the branch's decisions that    *)
(* the page caches and writes into before the server has answered.         *)
(*                                                                         *)
(* A candidate is a number; its order among equals is its summary's.  The  *)
(* search box holds a word that matches Found, or nothing.                 *)
(***************************************************************************)
EXTENDS Integers, Sequences, FiniteSets, SequencesExt, Lists

CONSTANTS Candidates,   \* the findings of the review, a set of naturals
          Verdict,      \* [Candidates -> verdict]
          Moved,        \* those new or changed since the previous review
          Found,        \* those the searched word matches
          Dispositions, \* a subset of accept, park and waive
          Earlier,      \* decisions already on the branch: [Candidates -> decision or None]
          HasPrevious,  \* whether the review has a predecessor
          Waiting,      \* whether its round is open
          Clarification, None, Asked, \* model values
          MaxActs,      \* bound on the reader's steps
          MaxCalls,     \* bound on the decisions in flight at once
          Faults        \* a subset of unread, lost and slow, see below

Rank == [material |-> 0, held |-> 1, cleared |-> 2]

Decision == [disp : Dispositions, against : DOMAIN Rank]
List == [Candidates -> Decision \cup {None}]

\* A decision in flight, on one candidate or on many, and the list as it was when it was sent.
Call == [cands : SUBSET Candidates, disp : Dispositions, bulk : BOOLEAN,
         state : {"sent", "recorded", "refreshing"}, previous : List \cup {None}]

\* Faults: the first read of the list, or the one after a decision on many, may fail; the
\* answer to a decision that was recorded may be lost; a decision may take longer than the
\* list stays fresh.
DocketAssumption ==
    /\ Candidates \subseteq Nat /\ IsFiniteSet(Candidates)
    /\ Earlier \in List
    /\ None \notin Candidates \cup Decision \cup List \cup Call
    /\ Clarification \notin Candidates \cup {None} /\ Asked \notin List \cup {None}
    /\ Verdict \in [Candidates -> DOMAIN Rank]
    /\ Moved \subseteq Candidates /\ Found \subseteq Candidates
    /\ Dispositions \subseteq {"accept", "park", "waive"}
    /\ MaxActs \in Nat /\ MaxCalls \in Nat
    /\ HasPrevious \in BOOLEAN /\ Waiting \in BOOLEAN
    /\ Faults \subseteq {"unread", "lost", "slow"}

VARIABLES recorded,  \* the server's standing decision of each candidate
          listed,    \* the page's cached copy of them
          loaded,    \* whether the cache holds a list at all
          ready,     \* whether the first read of it is over
          fresh,     \* whether it is younger than the client's stale time
          fetch,     \* a read of the list: None, Asked, or what the server answered
          calls,     \* decisions in flight
          acts,      \* how many steps the reader has taken
          open,      \* the row that is open, or None
          filter, kept, selected, find,
          bar,       \* the waiver panel of the open row: closed, empty or typed
          mine,      \* the call the open row's bar waits for, or 0
          surface,   \* whether the docket is the surface shown
          batches,   \* the decisions on many that the bar over the rows checked waits for
          unsure     \* history, which no step reads: the rows the page may be wrong about, see below

vars == <<recorded, listed, loaded, ready, fresh, fetch, calls, acts, open, filter, kept,
          selected, find, bar, mine, surface, batches, unsure>>

(***************************************************************************)
(* The rules every surface shares                                          *)
(***************************************************************************)
DecisionIsStale(c, l) == l[c] # None /\ l[c].against # Verdict[c]

NeedsAttention(c, l) == DecisionIsStale(c, l) \/ (Verdict[c] # "cleared" /\ l[c] = None)

InFilter(c, f, l) == f = "all" \/ (NeedsAttention(c, l) <=> f = "attention")

\* What moved first, then by verdict, then by name.
Before(c, d) ==
    \/ c \in Moved /\ d \notin Moved
    \/ /\ c \in Moved <=> d \in Moved
       /\ \/ Rank[Verdict[c]] < Rank[Verdict[d]]
          \/ Rank[Verdict[c]] = Rank[Verdict[d]] /\ c < d

\* Each is at the place that those before it leave.
OrderedFindings ==
    [n \in 1 .. Cardinality(Candidates) |->
        CHOOSE c \in Candidates : Cardinality({d \in Candidates : Before(d, c)}) = n - 1]

\* A standing decision is one per candidate: writing one replaces what was there.
WithDecision(l, c, d) ==
    [l EXCEPT ![c] = [disp |-> d, against |-> Verdict[c]]]

(***************************************************************************)
(* What the docket lists                                                   *)
(***************************************************************************)
Matching(f, l) == {c \in Candidates : InFilter(c, f, l)}

Listed(l) == {c \in Matching(filter, l) \cup kept \cup ({open} \cap Candidates) :
                find = "nothing" \/ c \in Found}

Visible(l) == Within(OrderedFindings, Listed(l))

\* The groups the list is read in: what moved since the previous review, then the rest.
Sections(l) ==
    LET moved == Within(Visible(l), Moved)
        carried == Within(Visible(l), Candidates \ Moved)
    IN IF HasPrevious /\ moved # <<>> /\ carried # <<>> THEN <<moved, carried>> ELSE <<Visible(l)>>

\* The next row that wants a person, in the order shown, wrapping to the first.
Advance(from, l) ==
    LET rows == Visible(l)
        wanting == {i \in DOMAIN rows : NeedsAttention(rows[i], l)}
        after == {i \in wanting : \A k \in DOMAIN rows : rows[k] = from => k < i}
    IN  IF after # {} THEN rows[Min(after)]
        ELSE IF wanting # {} THEN rows[Min(wanting)] ELSE None

\* The rows checked that the list still shows: what a decision on many is taken on.
Checked == selected \cap Listed(listed)

Settled(c, l) == c \in Candidates /\ ~NeedsAttention(c, l)

WorkedThrough == Candidates # {} /\ \A c \in Candidates : ~NeedsAttention(c, listed)

(***************************************************************************)
(* A render with the list l.  A row that settles while it is open stays    *)
(* listed and hands the cursor to the next that wants a person; a bar is   *)
(* gone with its row.                                                      *)
(***************************************************************************)
Receive(l, decided) ==
    LET settles == surface = "docket" /\ Settled(open, l) /\ ~Settled(open, listed)
    IN /\ listed' = l
       /\ kept' = kept \cup decided \cup (IF settles THEN {open} ELSE {})
       /\ open' = IF settles THEN Advance(open, l) ELSE open

\* The bar and the call it waits for are those of the row that is open.
BarFollows(b, m) ==
    IF open' = open THEN bar' = b /\ mine' = m ELSE bar' = "closed" /\ mine' = 0

(***************************************************************************)
(* The list of decisions                                                   *)
(***************************************************************************)
Init ==
    /\ recorded = Earlier
    /\ listed = [c \in Candidates |-> None]
    /\ loaded = FALSE
    /\ ready = FALSE
    /\ fresh = FALSE
    /\ fetch = Asked
    /\ calls = [i \in 1 .. MaxCalls |-> None]
    /\ acts = 0
    /\ open = None
    /\ filter = "attention"
    /\ kept = {}
    /\ selected = {}
    /\ find = "nothing"
    /\ bar = "closed"
    /\ mine = 0
    /\ surface = "docket"
    /\ batches = {}
    /\ unsure = Candidates

FetchReads ==
    /\ fetch = Asked
    /\ fetch' = recorded
    /\ UNCHANGED <<recorded, listed, loaded, ready, fresh, calls, acts, open, filter, kept,
                   selected, find, bar, mine, surface, unsure>>

\* The end of the first read chooses the filter and the row the page opens on.
Opens(l) ==
    LET wanting == Within(OrderedFindings, {c \in Candidates : NeedsAttention(c, l)})
    IN /\ filter' = IF wanting # <<>> THEN "attention" ELSE "all"
       /\ open' = IF Waiting THEN Clarification ELSE IF wanting = <<>> THEN None ELSE wanting[1]

InFlight == {i \in DOMAIN calls : calls[i] # None}
RowsOf(these) == UNION {calls[i].cands : i \in these}

\* The decisions on many that only wait for the list to be read again: the end of that read, or
\* its being cancelled, is theirs too, and their rows stay listed.
Refreshed == {i \in InFlight : calls[i].state = "refreshing"}
AfterRefresh == [i \in DOMAIN calls |-> IF i \in Refreshed THEN None ELSE calls[i]]

AfterFetch(l) ==
    /\ ready' = TRUE
    /\ calls' = AfterRefresh
    /\ IF ready THEN Receive(l, RowsOf(Refreshed)) /\ UNCHANGED filter
                ELSE Opens(l) /\ listed' = l /\ UNCHANGED kept
    /\ BarFollows(bar, mine)
    /\ fetch' = IF open' # open /\ open' \in Candidates /\ ~fresh' THEN Asked ELSE None
    /\ UNCHANGED <<recorded, acts, selected, find, surface>>

FetchArrives ==
    /\ fetch \notin {None, Asked}
    /\ loaded' = TRUE
    /\ fresh' = TRUE
    /\ AfterFetch(fetch)
    /\ unsure' = {c \in Candidates : fetch[c] # recorded[c]} \cup (unsure \cap RowsOf(InFlight \ Refreshed))

\* A read that fails leaves the list as it was; the page is drawn all the same.
FetchFails ==
    /\ fetch # None
    /\ \/ loaded /\ Refreshed = {}
       \/ "unread" \in Faults
    /\ UNCHANGED <<loaded, fresh>>
    /\ AfterFetch(listed)
    /\ unsure' = unsure \cup RowsOf(Refreshed)

Ages ==
    /\ fresh
    /\ InFlight # {} => "slow" \in Faults
    /\ fresh' = FALSE
    /\ UNCHANGED <<recorded, listed, loaded, ready, fetch, calls, acts, open, filter, kept,
                   selected, find, bar, mine, surface, unsure>>

(***************************************************************************)
(* One decision: written into the list before it is sent, taken back if    *)
(* the server refuses it, replaced by the server's own record otherwise    *)
(***************************************************************************)
Live == ready /\ surface = "docket"

\* What the open row's bar accepts: a waiver needs its reason, the others do not.
MayDecide(d) ==
    /\ Live
    /\ open \in Candidates
    /\ open \in Listed(listed)
    /\ mine = 0
    /\ d = "waive" => bar = "typed"

Acts == acts < MaxActs /\ acts' = acts + 1

Sends(i, others, call) ==
    /\ calls[i] = None
    /\ Acts
    /\ calls' = [others EXCEPT ![i] = call]

\* A read under way is cancelled first, the refresh of a decision on many with it.
Decide(d) ==
    /\ MayDecide(d)
    /\ \E i \in DOMAIN calls :
        /\ Sends(i, AfterRefresh, [cands |-> {open}, disp |-> d, bulk |-> FALSE, state |-> "sent",
                     previous |-> IF loaded THEN listed ELSE None])
        /\ Receive(WithDecision(listed, open, d), RowsOf(Refreshed))
        /\ BarFollows(bar, i)
    /\ fetch' = None
    /\ loaded' = TRUE
    /\ fresh' = TRUE
    /\ unsure' = unsure \cup RowsOf(Refreshed) \cup ({open} \cap RowsOf(InFlight))
    /\ UNCHANGED <<recorded, ready, filter, selected, find, surface>>

\* One decision on every row checked that the list still shows; a waiver stays one at a time.
DecideMany(d) ==
    /\ Live
    /\ d # "waive"
    /\ Checked # {}
    /\ batches = {}
    /\ \E i \in DOMAIN calls :
        Sends(i, calls, [cands |-> Checked, disp |-> d, bulk |-> TRUE, state |-> "sent", previous |-> None])
    /\ unsure' = unsure \cup (Checked \cap RowsOf(InFlight))
    /\ UNCHANGED <<recorded, listed, loaded, ready, fresh, fetch, open, filter, kept,
                   selected, find, bar, mine, surface>>

ServerRecords(i) ==
    /\ i \in InFlight /\ calls[i].state = "sent"
    /\ recorded' = [c \in Candidates |-> IF c \in calls[i].cands
                        THEN [disp |-> calls[i].disp, against |-> Verdict[c]] ELSE recorded[c]]
    /\ calls' = [calls EXCEPT ![i].state = "recorded"]
    /\ UNCHANGED <<listed, loaded, ready, fresh, fetch, acts, open, filter, kept,
                   selected, find, bar, mine, surface, unsure>>

Done(i) == calls' = [calls EXCEPT ![i] = None]
Waits(i) == IF mine = i THEN 0 ELSE mine

\* The bar that sent it, if it is still the open row's, closes its waiver and is free again.
Succeeds(i) ==
    /\ i \in InFlight /\ calls[i].state = "recorded" /\ ~calls[i].bulk
    /\ Done(i)
    /\ \E c \in calls[i].cands : Receive(WithDecision(listed, c, calls[i].disp), {})
    /\ BarFollows(IF mine = i THEN "closed" ELSE bar, Waits(i))
    /\ loaded' = TRUE
    /\ fresh' = TRUE
    /\ UNCHANGED <<recorded, ready, fetch, acts, filter, selected, find, surface, unsure>>

\* A decision on many is not merged: the selection is dropped and the list read again.
ManySucceed(i) ==
    /\ i \in InFlight /\ calls[i].state = "recorded" /\ calls[i].bulk
    /\ calls' = [calls EXCEPT ![i].state = "refreshing"]
    /\ selected' = {}
    /\ fetch' = Asked
    /\ fresh' = FALSE
    /\ UNCHANGED <<recorded, listed, loaded, ready, acts, open, filter, kept, find, bar, mine, surface,
                   unsure>>

FaultyTakeBack(i) == listed

\* Back to the list as it stood when the decision was sent, where there was one.
TakeBack(i) == IF calls[i].previous = None THEN listed ELSE calls[i].previous

Fails(i) ==
    /\ i \in InFlight
    /\ \/ calls[i].state = "sent"
       \/ calls[i].state = "recorded" /\ "lost" \in Faults
    /\ Done(i)
    /\ Receive(TakeBack(i), {})
    /\ BarFollows(bar, Waits(i))
    /\ unsure' = unsure \cup {c \in Candidates \ calls[i].cands : TakeBack(i)[c] # listed[c]}
                        \cup (IF calls[i].state = "recorded" THEN calls[i].cands ELSE {})
    /\ UNCHANGED <<recorded, loaded, ready, fresh, fetch, acts, filter, selected, find, surface>>

(***************************************************************************)
(* The reader's own steps                                                  *)
(***************************************************************************)
\* Opening a row mounts its bar, whose query reads the list again where it is stale.
Goes(to) ==
    /\ open' = to
    /\ bar' = "closed"
    /\ mine' = 0
    /\ fetch' = IF to \in Candidates /\ ~fresh /\ fetch = None THEN Asked ELSE fetch

Still == Acts /\ UNCHANGED <<recorded, listed, loaded, ready, fresh, calls, unsure>>

Rows == (IF Waiting THEN <<Clarification>> ELSE <<>>) \o Visible(listed)

\* A click on a row or on the round's card opens it, or closes it where it was open.
Toggle(row) ==
    /\ Live
    /\ \E i \in DOMAIN Rows : Rows[i] = row
    /\ Goes(IF open = row THEN None ELSE row)
    /\ Still /\ UNCHANGED <<filter, kept, selected, find, surface>>

\* The keys stop at both ends; with no row open they start from the end they come from.
Walk(step) ==
    LET at == IF open = None THEN 0 ELSE SelectInSeq(Rows, LAMBDA r : r = open)
        to == IF at = 0 THEN (IF step = 1 THEN 1 ELSE Len(Rows)) ELSE at + step
    IN /\ Live /\ bar = "closed"
       /\ Rows # <<>>
       /\ to \in DOMAIN Rows
       /\ Goes(Rows[to])
       /\ Still /\ UNCHANGED <<filter, kept, selected, find, surface>>

Escape ==
    /\ Live /\ bar = "closed"
    /\ open # None
    /\ Goes(None)
    /\ Still /\ UNCHANGED <<filter, kept, selected, find, surface>>

Select(c) ==
    /\ Live
    /\ c \in Listed(listed)
    /\ selected' = IF c \in selected THEN selected \ {c} ELSE selected \cup {c}
    /\ Still /\ UNCHANGED <<fetch, open, filter, kept, find, bar, mine, surface>>

ClearSelection ==
    /\ Live
    /\ Checked # {}
    /\ batches = {}
    /\ selected' = {}
    /\ Still /\ UNCHANGED <<fetch, open, filter, kept, find, bar, mine, surface>>

\* A filter with nothing in it is not offered; a new one forgets the rows kept for the last.
SetFilter(f) ==
    /\ Live
    /\ filter # f
    /\ Matching(f, listed) # {}
    /\ filter' = f
    /\ kept' = {}
    /\ Still /\ UNCHANGED <<fetch, open, selected, find, bar, mine, surface>>

\* A word that the open row does not match hides it, and its bar with it.
Search ==
    /\ Live
    /\ find' = IF find = "nothing" THEN "word" ELSE "nothing"
    /\ IF find = "nothing" /\ open \notin Found THEN bar' = "closed" /\ mine' = 0 ELSE UNCHANGED <<bar, mine>>
    /\ Still /\ UNCHANGED <<fetch, open, filter, kept, selected, surface>>

OpenWaiver ==
    /\ Live
    /\ open \in Listed(listed)
    /\ mine = 0 /\ bar = "closed"
    /\ bar' = "empty"
    /\ Still /\ UNCHANGED <<fetch, open, filter, kept, selected, find, mine, surface>>

TypeReason ==
    /\ bar = "empty" /\ mine = 0
    /\ bar' = "typed"
    /\ Still /\ UNCHANGED <<fetch, open, filter, kept, selected, find, mine, surface>>

CancelWaiver ==
    /\ bar # "closed" /\ mine = 0
    /\ bar' = "closed"
    /\ Still /\ UNCHANGED <<fetch, open, filter, kept, selected, find, mine, surface>>

\* Another surface unmounts the docket: its bar and its search go, the rest is the page's.
Leave ==
    /\ Live
    /\ surface' = "other"
    /\ bar' = "closed" /\ mine' = 0 /\ find' = "nothing"
    /\ Still /\ UNCHANGED <<fetch, open, filter, kept, selected>>

Return ==
    /\ surface = "other"
    /\ surface' = "docket"
    /\ Goes(open)
    /\ Still /\ UNCHANGED <<filter, kept, selected, find>>

\* A link to one finding, from another surface: the filter widens to hold it.
OpenCandidate(c) ==
    /\ ready
    /\ surface = "other"
    /\ surface' = "docket"
    /\ filter' = IF InFilter(c, filter, listed) THEN filter
                 ELSE IF NeedsAttention(c, listed) THEN "attention" ELSE "settled"
    /\ kept' = IF filter' = filter THEN kept ELSE {}
    /\ Goes(c)
    /\ Still /\ UNCHANGED <<selected, find>>

\* The bar over the rows checked is there while some are, and one that comes back knows nothing of
\* what the one before it has sent.
BulkBarFollows ==
    batches' = IF Live' /\ Checked' # {}
               THEN {i \in InFlight' : calls'[i].bulk /\ (i \in batches \/ calls[i] = None)} ELSE {}

Step ==
    \/ FetchReads \/ FetchArrives \/ FetchFails \/ Ages
    \/ \E d \in Dispositions : Decide(d) \/ DecideMany(d)
    \/ \E i \in DOMAIN calls : ServerRecords(i) \/ Succeeds(i) \/ ManySucceed(i) \/ Fails(i)
    \/ \E c \in Candidates : Toggle(c) \/ Select(c) \/ OpenCandidate(c)
    \/ Toggle(Clarification)
    \/ \E step \in {-1, 1} : Walk(step)
    \/ \E f \in {"attention", "settled", "all"} : SetFilter(f)
    \/ Escape \/ ClearSelection \/ Search \/ OpenWaiver \/ TypeReason \/ CancelWaiver
    \/ Leave \/ Return

Next == Step /\ BulkBarFollows

Spec == Init /\ [][Next]_vars

(***************************************************************************)
(* Properties                                                              *)
(***************************************************************************)
TypeOK ==
    /\ recorded \in List /\ listed \in List
    /\ loaded \in BOOLEAN /\ ready \in BOOLEAN /\ fresh \in BOOLEAN
    /\ fetch \in List \cup {None, Asked}
    /\ \A i \in DOMAIN calls : calls[i] # None => /\ calls[i].cands \subseteq Candidates
                                                 /\ calls[i].disp \in Dispositions
    /\ acts \in 0 .. MaxActs
    /\ open \in Candidates \cup {None, Clarification}
    /\ filter \in {"attention", "settled", "all"}
    /\ kept \subseteq Candidates /\ selected \subseteq Candidates
    /\ bar \in {"closed", "empty", "typed"} /\ mine \in 0 .. MaxCalls /\ batches \subseteq InFlight
    /\ bar # "closed" \/ mine # 0 => open \in Listed(listed) /\ surface = "docket"

(***************************************************************************)
(* A row is unsure from the step that lets the page be wrong about it until *)
(* the list is next read in full: before the first read; when two decisions *)
(* on it are in flight at once; when the answer to its decision was lost;   *)
(* when the read that was to show it failed, was cancelled by the next      *)
(* decision or was answered before it was recorded; when putting back the   *)
(* list of a refused decision moved it.  Of every other row the page speaks *)
(* the truth, which the claims below say.                                   *)
(***************************************************************************)
CallsAreTyped ==
    /\ calls \in [1 .. MaxCalls -> Call \cup {None}]
    /\ \A i \in InFlight : ~calls[i].bulk => \E c \in Candidates : calls[i].cands = {c}
    /\ find \in {"nothing", "word"} /\ surface \in {"docket", "other"}
    /\ ~ready => open = None /\ InFlight = {} /\ surface = "docket"

\* The row of a decision in flight: what it was, for one, is what a refusal puts back, and the
\* server holds the decision once it has recorded it; many are written only by the read after.
Decided(i, c) ==
    LET call == calls[i]
    IN  IF call.bulk
        THEN /\ call.previous = None
             /\ call.state = "sent" => listed[c] = recorded[c]
             /\ call.state = "refreshing" => fetch # None /\ (fetch # Asked => fetch[c] = recorded[c])
        ELSE /\ call.previous # None
             /\ call.state = "sent" => call.previous[c] = recorded[c]
             /\ call.state # "sent" => recorded[c] = [disp |-> call.disp, against |-> Verdict[c]]

Accounted(c) ==
    /\ c \notin RowsOf(InFlight) => listed[c] = recorded[c]
    /\ \A i, k \in InFlight : c \in calls[i].cands \cap calls[k].cands => i = k
    /\ \A i \in InFlight : c \in calls[i].cands => Decided(i, c)

SureRowsAreAccountedFor ==
    /\ unsure \subseteq Candidates
    /\ ~loaded => unsure = Candidates
    /\ \A c \in Candidates \ unsure : Accounted(c)

IInv == TypeOK /\ CallsAreTyped /\ SureRowsAreAccountedFor

\* Whatever else is in flight, overlaps, fails, is late or is lost, a row the page has no reason
\* to be unsure of and no decision on its way for is listed as the server has it: a decision
\* written before it was sent was recorded, and one that was refused is gone from the list
\* (decision-bar.tsx 130-183: "lands on the list before the request does, and is taken back if
\* it fails").
SureRowsTellTheTruth ==
    \A c \in Candidates \ unsure : c \notin RowsOf(InFlight) => listed[c] = recorded[c]

\* The same of every row once nothing is in flight, as the comment has it.  Not run: two decisions
\* that are both refused leave a row the server never recorded (README, disagreements that are not run).
QuietListTellsTheTruth ==
    loaded /\ fetch = None /\ InFlight = {} => listed = recorded

\* Deciding hands the reader a row that still wants a person, and says that nothing is left
\* only when no row the search shows is (docket.tsx 1421-1440, 1460-1485).
AdvanceFindsWhatIsLeft ==
    listed' # listed /\ open \in Candidates /\ open' # open =>
        /\ open' # None => NeedsAttention(open', listed')
        /\ open' = None /\ filter # "settled" =>
               \A c \in Candidates : find = "nothing" \/ c \in Found => ~NeedsAttention(c, listed')
=============================================================================

----------------------------- MODULE RoundForm -----------------------------
(***************************************************************************)
(* The form a clarification round is answered in (features/review:         *)
(* clarification.tsx and question.tsx).  What was typed is remembered by   *)
(* the module, beyond the card that shows it; which row is open and what   *)
(* became of the post are the card's, and are forgotten when another       *)
(* surface replaces it.                                                    *)
(*                                                                         *)
(* Questions are numbered in the round's order.  A value is "" or blank,   *)
(* an option, the reader's own words, or the wording an agent proposed.    *)
(***************************************************************************)
EXTENDS Integers, FiniteSets, FiniteSetsExt

CONSTANTS Questions,  \* 1 .. n
          Options,    \* [Questions -> the answers proposed, a set without "", words and draft]
          None,       \* a model value
          MaxEdits,   \* bound on the edits of the form
          MaxPosts    \* bound on the posts of it

Values(q) == {"", "words", "draft"} \cup Options[q]

\* What may be on the record, and what is remembered of a form.
AllValues == UNION {Values(q) : q \in Questions}
Outcomes == [status : {"skipped", "answered"}, value : AllValues \cup {""}, drafted : BOOLEAN]
Fingerprints == [Questions -> AllValues] \X (SUBSET Questions) \X (SUBSET Questions)

\* What is assumed of the constants.
RoundFormAssumption ==
    /\ IsFiniteSet(Questions) /\ Questions = 1 .. Cardinality(Questions)
    /\ \A q \in Questions : Options[q] \cap {"", "words", "draft"} = {}
    /\ MaxEdits \in Nat /\ MaxPosts \in Nat
    /\ None \notin Questions \cup [Questions -> Outcomes] \cup Fingerprints

VARIABLES values, skipped, own, drafts, asking, \* what was typed, kept while the page lives
          filed,      \* what of it was last known to be on the record, or None
          opened,     \* the row the reader moved to, or None
          card,       \* whether the round's card is on screen
          resume,     \* what the card knows of its post: idle, pending, done or failed
          posts,      \* posts on their way
          answerable, \* the page's copy of whether the round may be answered
          record,     \* server: the outcomes recorded, or None
          said,       \* what the rows said when that post was sent
          edits, sends

typed == <<values, skipped, own, drafts, asking>>
vars == <<values, skipped, own, drafts, asking, filed, opened, card, resume, posts, answerable,
          record, said, edits, sends>>

(***************************************************************************)
(* What the rows say                                                       *)
(***************************************************************************)
IsResolved(q) == q \in skipped \/ values[q] # ""

\* The skip wins over words that are kept under it.
StandingOf(q) == IF q \in skipped THEN "skipped" ELSE IF values[q] # "" THEN "answered" ELSE "open"

Unresolved == {q \in Questions : ~IsResolved(q)}

Open == IF opened # None THEN opened ELSE IF Unresolved # {} THEN Min(Unresolved) ELSE None

\* A closed row: its mark, and the answer it was given.
RoundRow(q) == [standing |-> StandingOf(q),
                answer |-> IF StandingOf(q) = "answered" THEN values[q] ELSE ""]

FaultyOutcome(q) ==
    [status |-> IF q \in skipped THEN "skipped" ELSE "answered", value |-> values[q], drafted |-> q \in drafts]

\* An answer is the model's wording only while it is word for word what the model wrote.
Outcome(q) ==
    LET skip == q \in skipped \/ values[q] = ""
    IN [status |-> IF skip THEN "skipped" ELSE "answered",
        value |-> IF skip THEN "" ELSE values[q],
        drafted |-> ~skip /\ q \in drafts /\ values[q] = "draft"]

(***************************************************************************)
(* What is remembered                                                      *)
(***************************************************************************)
Fingerprint == <<values, skipped, asking>>

Started == skipped # {} \/ asking # {} \/ \E q \in Questions : values[q] # ""

\* The page asks before it is left.
Guarded == Started /\ Fingerprint # filed

Remembers ==
    /\ values = [q \in Questions |-> ""]
    /\ skipped = {} /\ own = {} /\ drafts = {} /\ asking = {}
    /\ filed = None

Init ==
    /\ Remembers
    /\ opened = None
    /\ card = TRUE
    /\ resume = "idle"
    /\ posts = {}
    /\ answerable = TRUE
    /\ record = None
    /\ said = None
    /\ edits = 0 /\ sends = 0

(***************************************************************************)
(* Edits, which the whole form refuses while its post is out or has landed *)
(***************************************************************************)
Sent == resume \in {"pending", "done"}

Form == card /\ answerable

Edits(q) ==
    /\ Form /\ ~Sent
    /\ q = Open
    /\ edits < MaxEdits
    /\ edits' = edits + 1
    /\ UNCHANGED <<filed, card, resume, posts, answerable, record, said, sends>>

FaultyOpenNextAfter(q) == opened' = IF \E r \in Unresolved : r > q THEN Min({r \in Unresolved : r > q}) ELSE q

\* On to the next row that is not settled, then round to those above; else the row stays open.
OpenNextAfter(q) ==
    LET left == Unresolved \ {q}
        after == {r \in left : r > q}
    IN opened' = IF after # {} THEN Min(after) ELSE IF left # {} THEN Min(left) ELSE q

Choose(q, option) ==
    /\ Edits(q)
    /\ q \notin skipped /\ option \in Options[q]
    /\ values' = [values EXCEPT ![q] = option]
    /\ own' = own \ {q}
    /\ OpenNextAfter(q)
    /\ UNCHANGED <<skipped, drafts, asking>>

\* Writing one's own takes the menu's answer off and starts from an empty box.
ChooseOwn(q) ==
    /\ Edits(q)
    /\ q \notin skipped /\ Options[q] # {} /\ q \notin own
    /\ values' = [values EXCEPT ![q] = ""]
    /\ own' = own \cup {q}
    /\ opened' = q
    /\ UNCHANGED <<skipped, drafts, asking>>

\* The box is there for a question with no options and for one answered in one's own words.
HasBox(q) == Options[q] = {} \/ q \in own

Write(q, text) ==
    /\ Edits(q)
    /\ HasBox(q) /\ q \notin skipped /\ values[q] # text
    /\ values' = [values EXCEPT ![q] = text]
    /\ UNCHANGED <<skipped, own, drafts, asking, opened>>

\* The agent's wording lands in the box, undoes a skip, and the row stays.
UseDraft(q) ==
    /\ Edits(q)
    /\ values' = [values EXCEPT ![q] = "draft"]
    /\ own' = own \cup {q}
    /\ skipped' = skipped \ {q}
    /\ drafts' = drafts \cup {q}
    /\ opened' = q
    /\ UNCHANGED asking

\* A skip keeps the words; undoing it hands them back and stays on the row.
ToggleSkip(q) ==
    /\ Edits(q)
    /\ IF q \in skipped THEN skipped' = skipped \ {q} /\ opened' = q
                        ELSE skipped' = skipped \cup {q} /\ OpenNextAfter(q)
    /\ UNCHANGED <<values, own, drafts, asking>>

\* Words in the box that asks about the question; an answered one empties it.
TypeQuestion(q) ==
    /\ Edits(q)
    /\ asking' = asking \cup {q}
    /\ UNCHANGED <<values, skipped, own, drafts, opened>>

QuestionAnswered(q) ==
    /\ card /\ q \in asking
    /\ asking' = asking \ {q}
    /\ UNCHANGED <<values, skipped, own, drafts, filed, opened, card, resume, posts, answerable,
                   record, said, edits, sends>>

OpenRow(q) ==
    /\ Form /\ ~Sent
    /\ q # Open
    /\ opened' = q
    /\ UNCHANGED <<typed, filed, card, resume, posts, answerable, record, said, edits, sends>>

(***************************************************************************)
(* The post                                                                *)
(***************************************************************************)
Submit(stop) ==
    /\ Form /\ ~Sent
    /\ sends < MaxPosts
    /\ sends' = sends + 1
    /\ posts' = posts \cup {[n |-> sends', stop |-> stop, state |-> "sent", own |-> TRUE,
                             outcomes |-> [q \in Questions |-> Outcome(q)],
                             rows |-> [q \in Questions |-> RoundRow(q)], of |-> Fingerprint]}
    /\ resume' = "pending"
    /\ UNCHANGED <<typed, filed, opened, card, answerable, record, said, edits>>

Moves(p, state) == posts' = (posts \ {p}) \cup {[p EXCEPT !.state = state]}

\* The server takes a round once.
Takes(p) ==
    /\ p.state = "sent"
    /\ IF record = None THEN record' = p.outcomes /\ said' = p.rows /\ Moves(p, "taken")
                        ELSE Moves(p, "refused") /\ UNCHANGED <<record, said>>
    /\ UNCHANGED <<typed, filed, opened, card, resume, answerable, edits, sends>>

\* What was posted is what the record holds; the card that sent it, if it is still there, says so.
Succeeds(p) ==
    /\ p.state = "taken"
    /\ posts' = (posts \ {p}) \cup {[p EXCEPT !.state = "refetching"]}
    /\ filed' = IF p.own THEN Fingerprint ELSE p.of
    /\ resume' = IF p.own THEN "done" ELSE resume
    /\ UNCHANGED <<typed, opened, card, answerable, record, said, edits, sends>>

\* A refusal, or an answer that was lost.
Fails(p) ==
    /\ p.state \in {"sent", "taken", "refused"}
    /\ posts' = posts \ {p}
    /\ resume' = IF p.own THEN "failed" ELSE resume
    /\ UNCHANGED <<typed, filed, opened, card, answerable, record, said, edits, sends>>

\* The review read again: a round that was taken is not this page's to answer.
Refreshes(p) ==
    /\ p.state = "refetching"
    /\ posts' = {IF r.own THEN [r EXCEPT !.own = FALSE] ELSE r : r \in posts \ {p}}
    /\ answerable' = FALSE
    /\ opened' = None
    /\ resume' = "idle"
    /\ UNCHANGED <<typed, filed, card, record, said, edits, sends>>

\* Another surface takes the card away: a post outlives it, what it answers is not the next card's.
Leave ==
    /\ card
    /\ card' = FALSE
    /\ opened' = None
    /\ resume' = "idle"
    /\ posts' = {[p EXCEPT !.own = FALSE] : p \in posts}
    /\ UNCHANGED <<typed, filed, answerable, record, said, edits, sends>>

Return ==
    /\ ~card
    /\ card' = TRUE
    /\ UNCHANGED <<typed, filed, opened, resume, posts, answerable, record, said, edits, sends>>

Next ==
    \/ \E q \in Questions :
        \/ \E option \in Options[q] : Choose(q, option)
        \/ \E text \in {"", "words"} : Write(q, text)
        \/ ChooseOwn(q) \/ UseDraft(q) \/ ToggleSkip(q) \/ TypeQuestion(q)
        \/ QuestionAnswered(q) \/ OpenRow(q)
    \/ \E stop \in BOOLEAN : Submit(stop)
    \/ \E p \in posts : Takes(p) \/ Succeeds(p) \/ Fails(p) \/ Refreshes(p)
    \/ Leave \/ Return

Spec == Init /\ [][Next]_vars

(***************************************************************************)
(* Properties                                                              *)
(***************************************************************************)
TypeOK ==
    /\ values \in [Questions -> AllValues]
    /\ \A q \in Questions : values[q] \in Values(q)
    /\ skipped \subseteq Questions /\ own \subseteq Questions
    /\ drafts \subseteq Questions /\ asking \subseteq Questions
    /\ opened \in Questions \cup {None}
    /\ resume \in {"idle", "pending", "done", "failed"}
    /\ Cardinality({p \in posts : p.own}) <= 1
    /\ resume = "pending" <=> \E p \in posts : p.own /\ p.state # "refetching"

\* What the server records of each question is what its row said when the round was sent: a
\* skip where it said skipped or nothing, the words it showed where it said answered, and the
\* model's name only under words that are the model's (clarification.tsx 462-475, 522-542).
RecordIsWhatTheRowsSaid ==
    record # None => \A q \in Questions :
        /\ record[q].status = "answered" <=> said[q].standing = "answered"
        /\ record[q].status = "answered" => record[q].value = said[q].answer
        /\ record[q].drafted <=> said[q].answer = "draft"

\* Choosing an answer or skipping hands the reader a row that is not settled, as long as there
\* is one (clarification.tsx 559-582).
TheRoundMovesToWhatIsLeft ==
    \A q \in Questions :
        (Open = q /\ \/ q \in skipped' \ skipped
                     \/ values'[q] # values[q] /\ values'[q] \in Options[q])
            => Open' \in Unresolved' \/ Unresolved' = {}

\* The page lets itself be reloaded over typed answers only when the server has exactly those
\* (clarification.tsx 183-211).
UnguardedAnswersAreRecorded ==
    Started /\ ~Guarded => record # None /\ \A q \in Questions : record[q] = Outcome(q)

\* What the proof of these two rests on.  A row that holds the model's wording was given it.
DraftsAreMarked == \A q \in Questions : values[q] = "draft" => q \in drafts

\* What is recorded of a row that was remembered so.
Remembered(of, q) ==
    LET skip == q \in of[2] \/ of[1][q] = ""
    IN [status |-> IF skip THEN "skipped" ELSE "answered",
        value |-> IF skip THEN "" ELSE of[1][q],
        drafted |-> ~skip /\ of[1][q] = "draft"]

\* Whatever may be on its way.
Posts == [n : Nat, stop : BOOLEAN, state : {"sent", "taken", "refused", "refetching"}, own : BOOLEAN,
          outcomes : [Questions -> Outcomes], of : Fingerprints,
          rows : [Questions -> [standing : {"skipped", "answered", "open"}, answer : AllValues \cup {""}]]]

\* An outcome that says what the row did.
SaysTheSame(outcome, row) ==
    /\ outcome.status = "answered" <=> row.standing = "answered"
    /\ outcome.status = "answered" => outcome.value = row.answer
    /\ outcome.drafted <=> row.answer = "draft"

\* The card waits for one post at most, and holds the form to what it sent.
OwnPost(p) ==
    /\ p.own => resume = IF p.state = "refetching" THEN "done" ELSE "pending"
    /\ p.own => \A r \in posts : r.own => r = p
    /\ p.own /\ p.state # "refetching" => p.of[1] = values /\ p.of[2] = skipped

\* A post carries what its rows said, and what was taken of it is on the record.
PostsAreOfTheirRows ==
    \A p \in posts :
        /\ OwnPost(p)
        /\ p.outcomes = [q \in Questions |-> Remembered(p.of, q)]
        /\ \A q \in Questions : SaysTheSame(p.outcomes[q], p.rows[q])
        /\ p.state \in {"taken", "refetching"} => record = p.outcomes

IInv ==
    /\ values \in [Questions -> AllValues] /\ \A q \in Questions : values[q] \in Values(q)
    /\ skipped \in SUBSET Questions /\ asking \in SUBSET Questions
    /\ posts \subseteq Posts /\ sends \in Nat
    /\ DraftsAreMarked /\ PostsAreOfTheirRows
    /\ filed # None => filed \in Fingerprints /\ record = [q \in Questions |-> Remembered(filed, q)]
    /\ RecordIsWhatTheRowsSaid

\* A row closes because another one opened (clarification.tsx 566-571: "with nothing to open
\* nothing closes").
\* Not run: the code does otherwise (README, disagreements that are not run).
RowsCloseForAnother ==
    [][Form /\ Form' /\ Open # None => Open' # None]_<<values, skipped, own>>
=============================================================================

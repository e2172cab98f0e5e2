--------------------------- MODULE ReviewRecords ---------------------------
(***************************************************************************)
(* What the pages of a review say of it (features/review: the finding, the *)
(* Rounds tab, the page's head and its notice of an earlier record).  A    *)
(* review files a record each time it waits, ends or is stopped.  A record *)
(* never changes, the review goes on without it, and everything a page     *)
(* says is derived from one record and three facts the server adds to it   *)
(* when it is read: whether its round can still be answered, which record  *)
(* replaced it, and how that one ended.                                    *)
(***************************************************************************)
EXTENDS Integers, Sequences, FiniteSets, SequencesExt, Lists

CONSTANTS Candidates, \* what the review judges
          None,       \* model value
          Earlier     \* whether an earlier review of the case was answered

\* What is assumed of the constants.
RecordsAssumption == IsFiniteSet(Candidates) /\ None \notin Candidates /\ Earlier \in BOOLEAN

VARIABLES stage,    \* where the review is: judging, asking, waiting, stopping or over
          round,
          answers,  \* of its case, in the order they were given
          revision, \* of its case
          opened,   \* whether it opened that revision
          had,      \* per candidate, the answers its standing judgement was given
          hinge,    \* the candidates whose judgement hinges on something
          filed,    \* its records, in the order they were filed
          status,   \* the execution's word
          gone      \* facts no record holds: whether a round was put, and was answered

vars == <<stage, round, answers, revision, opened, had, hinge, filed, status, gone>>

Question(c) == [about |-> c, round |-> round]
Answered(q, by) == [question |-> q, revision |-> revision + (IF opened THEN 0 ELSE 1), by |-> by]

EarlierAnswers ==
    IF Earlier
    THEN <<[question |-> [about |-> None, round |-> 1], revision |-> 2, by |-> "answered"]>>
    ELSE <<>>

Init ==
    /\ stage = "judging" /\ round = 1
    /\ answers = EarlierAnswers
    /\ revision = 1 + Len(answers) /\ opened = FALSE
    /\ had \in [Candidates -> {EarlierAnswers}]
    /\ hinge \in SUBSET Candidates
    /\ filed = <<>> /\ status = "running"
    /\ gone = [put |-> {}, taken |-> {}]

Record(kind, asked) ==
    [status |-> kind, round |-> round, answers |-> answers, revision |-> revision,
     questions |-> asked, findings |-> had, hinge |-> hinge]

Files(kind, asked) == filed' = Append(filed, Record(kind, asked)) /\ status' = kind

(***************************************************************************)
(* The review                                                              *)
(***************************************************************************)
Judge ==
    /\ stage = "judging"
    /\ stage' = "asking"
    /\ had' = [c \in Candidates |-> answers]
    /\ \E h \in SUBSET Candidates : hinge' = h
    /\ UNCHANGED <<round, answers, revision, opened, filed, status, gone>>

\* A review asks at most twice, and about some of what its judgements hinge on.
Ask ==
    /\ stage = "asking" /\ round < 3
    /\ \E s \in (SUBSET hinge) \ {{}} :
         /\ Files("awaiting_answers", {Question(c) : c \in s})
         /\ gone' = [gone EXCEPT !.put = @ \cup {Question(c) : c \in s}]
    /\ stage' = "waiting"
    /\ UNCHANGED <<round, answers, revision, opened, had, hinge>>

Complete ==
    /\ stage = "asking" \/ stage = "stopping"
    /\ Files("completed", IF stage = "stopping" THEN gone.put \cap {q \in gone.put : q.round = round - 1} ELSE {})
    /\ stage' = "over"
    /\ UNCHANGED <<round, answers, revision, opened, had, hinge, gone>>

CanAnswer == stage = "waiting" /\ status = "awaiting_answers"

\* Every question of the round is answered or skipped; a reader who concludes is judged no more.
Answer(stop) ==
    /\ CanAnswer
    /\ LET asks == Last(filed).questions
           places == 1 .. Cardinality(asks)
       IN  /\ \E asked \in Bijection(places, asks), by \in [places -> {"answered", "skipped"}] :
                answers' = answers \o [i \in places |-> Answered(asked[i], by[i])]
           /\ gone' = [gone EXCEPT !.taken = @ \cup asks]
    /\ revision' = revision + (IF opened THEN 0 ELSE 1) /\ opened' = TRUE
    /\ round' = round + 1
    /\ stage' = IF stop THEN "stopping" ELSE "judging"
    /\ status' = "running"
    /\ UNCHANGED <<had, hinge, filed>>

Cancel ==
    /\ stage = "waiting" /\ status = "awaiting_answers"
    /\ Files("cancelled", Last(filed).questions)
    /\ stage' = "over"
    /\ UNCHANGED <<round, answers, revision, opened, had, hinge, gone>>

\* The run is stopped, or its process dies: the row says so and nothing is filed.
Dies(word) ==
    /\ stage \in {"judging", "asking", "stopping"}
    /\ stage' = "over" /\ status' = word
    /\ UNCHANGED <<round, answers, revision, opened, had, hinge, filed, gone>>

Fail ==
    /\ stage \in {"judging", "asking", "stopping"}
    /\ Files("failed", {})
    /\ stage' = "over"
    /\ UNCHANGED <<round, answers, revision, opened, had, hinge, gone>>

Next ==
    \/ Judge \/ Ask \/ Complete \/ Cancel \/ Fail
    \/ \E stop \in BOOLEAN : Answer(stop)
    \/ \E word \in {"cancelled", "failed"} : Dies(word)

Spec == Init /\ [][Next]_vars

(***************************************************************************)
(* What the server adds to record i                                        *)
(***************************************************************************)
Answerable(i) == filed[i].status = "awaiting_answers" /\ status = "awaiting_answers" /\ i = Len(filed)
SupersededBy(i) == IF i < Len(filed) THEN Len(filed) ELSE 0
SupersededByStatus(i) == IF i < Len(filed) THEN Last(filed).status ELSE None

(***************************************************************************)
(* What the pages say of record i                                          *)
(***************************************************************************)
AwaitsAnswers(i) == Answerable(i) /\ filed[i].questions # {}

NamedBy(i, c) == \E q \in filed[i].questions : q.about = c

\* A link to the form, under the hinge of a candidate a question names.
AnswerIt(i, c) == c \in filed[i].hinge /\ AwaitsAnswers(i) /\ NamedBy(i, c)

\* "Judged on case revision N, with x answers and y skipped".
JudgedAgainst(i) ==
    LET Said(by) == Len(Within(filed[i].answers, {a \in Range(filed[i].answers) : a.by = by}))
    IN  [revision |-> filed[i].revision, answered |-> Said("answered"), skipped |-> Said("skipped")]

FaultyHingeFootnote(i, c) ==
    CASE filed[i].status = "failed" -> "never put to anyone"
      [] filed[i].status = "cancelled" -> "cancelled before it was answered"
      [] filed[i].status = "awaiting_answers" -> "answering judges it again"
      [] OTHER -> "concluded with the uncertainty preserved"

HingeFootnote(i, c) ==
    LET asked == NamedBy(i, c)
    IN  CASE filed[i].status = "cancelled" ->
               IF asked THEN "cancelled before it was answered" ELSE "cancelled unresolved"
          [] filed[i].status = "failed" ->
               IF filed[i].round > 1 THEN "had asked and been answered" ELSE "never put to anyone"
          [] AwaitsAnswers(i) ->
               IF asked THEN "answering judges it again" ELSE "not asked, answering judges it again"
          [] ~AwaitsAnswers(i) /\ SupersededBy(i) # 0 ->
               IF asked THEN "asked here, see the record that replaced this" ELSE "not asked, moved on"
          [] ~AwaitsAnswers(i) /\ SupersededBy(i) = 0 /\ filed[i].status = "awaiting_answers" ->
               IF asked THEN "asked here, and closed" ELSE "not asked, and closed"
          [] OTHER -> "concluded with the uncertainty preserved"

\* A case has three revisions here and a review three rounds, in their order.
Keys == [n \in 1 .. 9 |-> [revision |-> 1 + (n - 1) \div 3, round |-> 1 + ((n - 1) % 3)]]

\* The Rounds tab: the answers by the revision and round they were given in, and last the
\* questions of the record that no answer of its case is to.
RoundsOf(i) ==
    LET told == Range(filed[i].answers)
        Key(a) == [revision |-> a.revision, round |-> a.question.round]
        given == Within(Keys, {Key(a) : a \in told})
        Of(k) == [revision |-> k.revision, round |-> k.round, open |-> {},
                  answers |-> Within(filed[i].answers, {a \in told : Key(a) = k})]
        open == filed[i].questions \ {a.question : a \in told}
        last == [revision |-> filed[i].revision, round |-> (CHOOSE q \in open : TRUE).round,
                 open |-> open, answers |-> <<>>]
    IN  [n \in DOMAIN given |-> Of(given[n])] \o (IF open = {} THEN <<>> ELSE <<last>>)

\* The line over the open questions of that tab.
StandingOf(i) ==
    CASE AwaitsAnswers(i) -> "waiting, on the docket"
      [] ~AwaitsAnswers(i) /\ filed[i].status = "cancelled" -> "stopped before it was answered"
      [] ~AwaitsAnswers(i) /\ filed[i].status = "awaiting_answers" ->
           IF SupersededBy(i) # 0 THEN "closed, see the record that replaced this" ELSE "closed, not on this record"
      [] OTHER -> "asked, and never answered"

\* The tab when nothing was ever asked of the case.
NothingAsked(i) ==
    IF RoundsOf(i) # <<>> THEN None
    ELSE CASE filed[i].status # "completed" -> "nothing asked"
           [] filed[i].status = "completed" /\ filed[i].hinge # {} -> "nothing asked, and some hinge still"
           [] OTHER -> "nothing asked, and settled on the evidence"

\* The notice over an earlier record, by what the review has come to.
SupersededNotice(i) ==
    CASE SupersededBy(i) = 0 -> None
      [] SupersededByStatus(i) = "completed" -> "has finished since"
      [] SupersededByStatus(i) = "cancelled" -> "was stopped since"
      [] SupersededByStatus(i) = "failed" -> "did not finish"
      [] OTHER -> "asked again since"

\* The head counts the candidates a question holds up, of those that want a decision.
ReviewCounts(i) ==
    LET outstanding == Cardinality(filed[i].hinge)
        blocked == Cardinality({c \in Candidates : NamedBy(i, c)})
    IN  [wants |-> outstanding + (IF AwaitsAnswers(i) THEN 1 ELSE 0),
         held |-> IF AwaitsAnswers(i) THEN blocked ELSE 0,
         all |-> AwaitsAnswers(i) /\ blocked = outstanding /\ blocked > 1]

\* The head's button.
ReviewHead(i) == IF AwaitsAnswers(i) THEN "Cancel review" ELSE "New review"

-----------------------------------------------------------------------------
(***************************************************************************)
(* The claims, against what happened                                       *)
(***************************************************************************)
TypeOK ==
    /\ stage \in {"judging", "asking", "waiting", "stopping", "over"}
    /\ round \in 1 .. 3 /\ revision \in 1 .. 3 /\ opened \in BOOLEAN
    /\ hinge \subseteq Candidates
    /\ status \in {"running", "awaiting_answers", "completed", "cancelled", "failed"}
    /\ gone.taken \subseteq gone.put

Taken(q) == \E a \in Range(answers) : a.question = q
Put(i) == {q \in filed[i].questions : q \in gone.put}

(***************************************************************************)
(* What the claims rest on: only the last record can be other than one that*)
(* waits, and with it all is over; and what a record asks is, later, either*)
(* answered in the case or asked by the last record.                       *)
(***************************************************************************)
QuestionSet == [about : Candidates \cup {None}, round : 1 .. 3]
AnswerSet == [question : QuestionSet, revision : 1 .. 3, by : {"answered", "skipped"}]
RecordSet ==
    [status : {"awaiting_answers", "completed", "cancelled", "failed"}, round : 1 .. 3,
     answers : Seq(AnswerSet), revision : 1 .. 3, questions : SUBSET QuestionSet,
     findings : [Candidates -> Seq(AnswerSet)], hinge : SUBSET Candidates]

RecordsAreTyped ==
    /\ stage \in {"judging", "asking", "waiting", "stopping", "over"}
    /\ status \in {"running", "awaiting_answers", "completed", "cancelled", "failed"}
    /\ round \in 1 .. 3 /\ opened \in BOOLEAN
    /\ revision = 1 + Len(EarlierAnswers) + (IF opened THEN 1 ELSE 0)
    /\ answers \in Seq(AnswerSet) /\ had \in [Candidates -> Seq(AnswerSet)]
    /\ hinge \in SUBSET Candidates
    /\ filed \in Seq(RecordSet)
    /\ gone \in [put : SUBSET QuestionSet, taken : SUBSET QuestionSet]

OnlyTheLastEnds ==
    /\ \A i \in DOMAIN filed : filed[i].status # "awaiting_answers" =>
          i = Len(filed) /\ stage = "over" /\ status = filed[i].status
    /\ status = "awaiting_answers" <=> stage = "waiting"
    /\ \A i \in DOMAIN filed : filed[i].status = "awaiting_answers" => filed[i].questions # {}

\* An open round is of questions no answer is to.
AnswersAreOfEarlierRounds ==
    /\ \A a \in Range(answers) : a.question.about = None \/ a.question.round < round
    /\ stage = "waiting" =>
          /\ round < 3 /\ filed # <<>>
          /\ \A q \in Last(filed).questions : q.round = round /\ q.about \in Candidates
    /\ \A i \in DOMAIN filed : filed[i].status = "cancelled" => \A q \in filed[i].questions : ~Taken(q)

\* Whether anything was put and answered shows in the round.
RoundsLeaveTheirMark ==
    /\ round > 1 => gone.taken # {}
    /\ round = 1 /\ stage \notin {"waiting", "over"} => gone.put = {}
    /\ \A i \in DOMAIN filed : filed[i].status = "failed" =>
          IF filed[i].round > 1 THEN gone.taken # {} ELSE gone.put = {}

AnsweredIn(given) == {a.question : a \in Range(given)}

QuestionsAreFollowedUp ==
    \A i \in DOMAIN filed :
       /\ stage # "over" => filed[i].questions \subseteq
             AnsweredIn(answers) \cup (IF stage = "waiting" THEN Last(filed).questions ELSE {})
       /\ i # Len(filed) => filed[i].questions \subseteq
             AnsweredIn(Last(filed).answers) \cup Last(filed).questions

IInv ==
    /\ RecordsAreTyped /\ OnlyTheLastEnds /\ AnswersAreOfEarlierRounds
    /\ RoundsLeaveTheirMark /\ QuestionsAreFollowedUp

\* What each footnote under a hinge asserts.
Means(i, c, note) ==
    LET asks == {q \in filed[i].questions : q.about = c}
    IN  CASE note = "cancelled before it was answered" -> asks # {} /\ \A q \in asks : ~Taken(q)
          [] note = "cancelled unresolved" -> asks = {}
          [] note = "had asked and been answered" -> gone.taken # {}
          [] note = "never put to anyone" -> gone.put = {}
          [] note = "answering judges it again" -> asks # {} /\ CanAnswer
          [] note = "not asked, answering judges it again" -> asks = {} /\ CanAnswer
          [] note = "asked here, see the record that replaced this" ->
               \A q \in asks : \E r \in Range(RoundsOf(SupersededBy(i))) :
                    q \in r.open \/ \E a \in Range(r.answers) : a.question = q
          [] note = "asked here, and closed" -> asks # {} /\ ~CanAnswer
          [] note = "not asked, and closed" -> asks = {} /\ ~CanAnswer
          [] note = "not asked, moved on" -> asks = {} /\ i # Len(filed)
          [] OTHER -> status = "completed"

\* Whatever became of the review, the footnote under a hinge is true of its candidate
\* (hingeFootnote): a question said never to have been put was never put, one that can be
\* answered can, and the record it sends a reader to does tell what became of it.
FootnotesTellTheTruth ==
    \A i \in DOMAIN filed : \A c \in filed[i].hinge : Means(i, c, HingeFootnote(i, c))

\* The Rounds tab holds every answer of the case and every question of the record exactly
\* once, and reads in the order they were put, whatever reviews they came from.
RoundsAreWhole ==
    \A i \in DOMAIN filed :
       LET rounds == RoundsOf(i)
           Holds(r, q) == q \in r.open \/ \E a \in Range(r.answers) : a.question = q
       IN  /\ \A q \in filed[i].questions :
                 Cardinality({k \in DOMAIN rounds : Holds(rounds[k], q)}) = 1
           /\ FlattenSeq([k \in DOMAIN rounds |-> rounds[k].answers]) = filed[i].answers
           /\ \A k \in DOMAIN rounds : rounds[k].open # {} =>
                 /\ k = Len(rounds)
                 /\ StandingOf(i) = "waiting, on the docket" <=> CanAnswer /\ i = Len(filed)
                 /\ StandingOf(i) = "stopped before it was answered" => gone.taken \cap rounds[k].open = {}

\* The line under a verdict counts the answers its judgement was given (judgedAgainst).
\* Not run: the code does otherwise (README, disagreements that are not run).
JudgedAgainstIsTrue ==
    \A i \in DOMAIN filed : \A c \in Candidates :
       Cardinality(Range(filed[i].findings[c])) = JudgedAgainst(i).answered + JudgedAgainst(i).skipped
=============================================================================

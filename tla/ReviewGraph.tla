---------------------------- MODULE ReviewGraph ----------------------------
(***************************************************************************)
(* One review, as the compiled LangGraph runs it (workflow/graph.py,       *)
(* workflow/nodes.py), with what workflow/service.py does to it from       *)
(* outside: the handler that takes over where a node raises, the stop of a *)
(* review that waits and the stop of a run that judges.                    *)
(*                                                                         *)
(* One action per node. "node" names the node about to run; the candidate  *)
(* branches of "review_candidate" run in any order and meet at the end of  *)
(* their superstep. A finding keeps the answers it was judged on, a        *)
(* question is its equivalence key, and everything else a review carries   *)
(* (atlas, corpus, prose) is left out. Other reviews of the same case and  *)
(* re-scopings appear as OthersRecord, which takes revision numbers.       *)
(*                                                                         *)
(* An operator named Faulty... is no part of the specification: it is a    *)
(* plausible mistake in the operator defined after it, kept to show that   *)
(* a property notices it.                                                  *)
(***************************************************************************)
EXTENDS Naturals, Sequences, FiniteSets

CONSTANTS
    NumCandidates,      \* how many candidates the detector reports
    Facets,             \* the facets a question can be filed under
    PriorHistories,     \* the case histories a review may start from
    MaxRevisions        \* bound: no other review records past this revision

Candidates == 1..NumCandidates
LastRound == 3

\* stable_id("qeq", facet, *candidates): the key that says two questions are one.
Keys == [candidate : Candidates, facet : Facets]
Answers == [key : Keys, status : {"answered", "skipped"}]
Revisions == [by : {"this review", "another"}, answers : SUBSET Answers]
Findings == [judgedOn : SUBSET Answers, held : BOOLEAN]
FindingMaps == UNION {[S -> Findings] : S \in SUBSET Candidates}

KeysOf(answers) == {a.key : a \in answers}

\* A case revision never records two outcomes of one question.
OneOutcomeEach(answers) == \A a, b \in answers : a.key = b.key => a = b

ASSUME ConstantsAssumption ==
    /\ NumCandidates \in Nat
    /\ MaxRevisions \in Nat
    /\ \A h \in PriorHistories :
          /\ h \in Seq(Revisions)
          /\ Len(h) > 0
          /\ \A r \in DOMAIN h : /\ h[r].by = "another"
                                 /\ OneOutcomeEach(h[r].answers)

VARIABLES
    node,               \* the node about to run, or how the run ended
    ci,                 \* a review nobody can be asked anything by
    store,              \* core_case_snapshots of this case, by revision
    case,               \* ReviewState.case: the revision and what it records
    previousAnswers,    \* ReviewState.previous_case: what the round before recorded
    opened,             \* ReviewState.case_opened
    round,              \* ReviewState.round
    excluded,           \* ReviewState.excluded_equivalence_keys
    selected,           \* ReviewState.selected_candidates
    findings,           \* ReviewState.findings
    branch,             \* where each dispatched branch of the superstep is
    output,             \* what each finished branch will write
    questions,          \* ReviewState.questions, by equivalence key
    pending,            \* ReviewState.pending_answers
    stop,               \* ReviewState.stop_requested
    filed               \* the snapshots this review has filed

caseVars  == <<case, previousAnswers, opened, round, excluded>>
judgeVars == <<selected, findings, branch, output>>
askVars   == <<questions, pending, stop>>
vars == <<node, ci, store, caseVars, judgeVars, askVars, filed>>

Case == [revision : Nat, answers : SUBSET Answers]
Snapshots ==
    [status : {"awaiting_answers", "completed", "failed", "cancelled"}, round : Nat,
     case : Case, findings : FindingMaps, questions : SUBSET Keys,
     stopped : BOOLEAN]

\* Nodes that change nothing this module keeps, and where each leads.
PlainEdges ==
    [analyze_repository     |-> "detect_candidates",
     detect_candidates      |-> "calculate_delta",
     calculate_delta        |-> "select_initial_candidates",
     write_waiting_synopsis |-> "compose_waiting_review",
     compose_waiting_review |-> "record_waiting_review",
     write_final_synopsis   |-> "compose_final_review",
     compose_final_review   |-> "record_review"]

Ended == {"end", "failed", "cancelled"}
\* From the routing of a round's questions to the answers being recorded.
AskingNodes ==
    {"write_waiting_synopsis", "compose_waiting_review", "record_waiting_review",
     "await_answers", "revise_case"}

Nodes ==
    DOMAIN PlainEdges \cup Ended \cup AskingNodes \cup
    {"load_context", "select_initial_candidates", "load_policy_corpus",
     "review_candidate", "generate_questions", "select_candidates_for_rejudgement", "seal_case",
     "record_review"}

Idle == [c \in Candidates |-> "idle"]
NoOutput == [c \in Candidates |-> [d \in {} |-> [judgedOn |-> {}, held |-> FALSE]]]
NoFindings == [d \in {} |-> [judgedOn |-> {}, held |-> FALSE]]

Init ==
    /\ node = "load_context"
    /\ ci \in BOOLEAN
    /\ store \in PriorHistories
    /\ case = [revision |-> 0, answers |-> {}]
    /\ previousAnswers = {}
    /\ opened = FALSE
    /\ round = 1
    /\ excluded = {}
    /\ selected = {}
    /\ findings = NoFindings
    /\ branch = Idle
    /\ output = NoOutput
    /\ questions = {}
    /\ pending = {}
    /\ stop = FALSE
    /\ filed = {}

-----------------------------------------------------------------------------
\* The nodes before the judging

\* The case at the revision asked for, which need not be the newest.
LoadContext ==
    /\ node = "load_context"
    /\ \E r \in DOMAIN store :
          /\ case' = [revision |-> r, answers |-> store[r].answers]
          /\ previousAnswers' = store[r].answers
          /\ excluded' = KeysOf(store[r].answers)
    /\ node' = "analyze_repository"
    /\ UNCHANGED <<ci, store, opened, round, judgeVars, askVars, filed>>

PlainNode ==
    /\ node \in DOMAIN PlainEdges
    /\ node' = PlainEdges[node]
    /\ UNCHANGED <<ci, store, caseVars, judgeVars, askVars, filed>>

\* The delta's verdict on what moved: "unchanged" findings are carried, every
\* other candidate is judged, and a review with nothing to do is refused.
SelectInitialCandidates ==
    /\ node = "select_initial_candidates"
    /\ \E hasPrevious, addressed \in BOOLEAN, unchanged \in SUBSET Candidates,
          held \in SUBSET Candidates :
          /\ ~hasPrevious => unchanged = {} /\ ~addressed
          /\ held \subseteq unchanged
          /\ \/ /\ hasPrevious /\ ~ci /\ ~addressed
                /\ unchanged = Candidates
                /\ node' = "failed"
                /\ UNCHANGED judgeVars
             \/ /\ ~(hasPrevious /\ ~ci /\ ~addressed /\ unchanged = Candidates)
                /\ selected' = Candidates \ unchanged
                /\ findings' = [c \in unchanged |->
                                  [judgedOn |-> case.answers, held |-> c \in held]]
                /\ node' = "load_policy_corpus"
                /\ UNCHANGED <<branch, output>>
    /\ UNCHANGED <<ci, store, caseVars, askVars, filed>>

-----------------------------------------------------------------------------
\* The fan-out: one branch per selected candidate, one barrier

\* A Send per candidate carries the candidate, the case and the corpus. Nothing
\* selected is routed past the judging.
Dispatch(chosen) ==
    IF chosen = {}
    THEN /\ node' = "generate_questions"
         /\ UNCHANGED branch
    ELSE /\ node' = "review_candidate"
         /\ branch' = [c \in Candidates |-> IF c \in chosen THEN "retrieve" ELSE "idle"]

LoadPolicyCorpus ==
    /\ node = "load_policy_corpus"
    /\ Dispatch(selected)
    /\ UNCHANGED <<ci, store, caseVars, selected, findings, output, askVars, filed>>

RetrievePolicySet(c) ==
    /\ node = "review_candidate"
    /\ branch[c] = "retrieve"
    /\ branch' = [branch EXCEPT ![c] = "judge"]
    /\ UNCHANGED <<node, ci, store, caseVars, selected, findings, output, askVars, filed>>

\* The whole state sent to a branch comes back with its verdict.
FaultyBranchOutput(c, finding) ==
    [d \in DOMAIN findings \cup {c} |-> IF d = c THEN finding ELSE findings[d]]

\* The "findings" a branch hands back, which is its own verdict and nothing else.
BranchOutput(c, finding) == [d \in {c} |-> finding]

JudgeCandidate(c) ==
    /\ node = "review_candidate"
    /\ branch[c] = "judge"
    /\ \E held \in BOOLEAN :
          output' = [output EXCEPT ![c] =
                       BranchOutput(c, [judgedOn |-> case.answers, held |-> held])]
    /\ branch' = [branch EXCEPT ![c] = "done"]
    /\ UNCHANGED <<node, ci, store, caseVars, selected, findings, askVars, filed>>

\* merge_mappings over the finished branches in task order: the last writer wins.
Writers(c) == {b \in Candidates : branch[b] = "done" /\ c \in DOMAIN output[b]}
LastWriter(c) == CHOOSE b \in Writers(c) : \A other \in Writers(c) : other <= b
Merged ==
    [c \in DOMAIN findings \cup {d \in Candidates : Writers(d) # {}} |->
        IF Writers(c) = {} THEN findings[c] ELSE output[LastWriter(c)][c]]

FaultyAllBranchesDone == \A c \in Candidates : branch[c] = "done"
AllBranchesDone == \A c \in selected : branch[c] = "done"

\* The superstep ends when its last branch does, and its writes land together.
JoinBranches ==
    /\ node = "review_candidate"
    /\ AllBranchesDone
    /\ findings' = Merged
    /\ branch' = Idle
    /\ output' = NoOutput
    /\ node' = "generate_questions"
    /\ UNCHANGED <<ci, store, caseVars, selected, askVars, filed>>

-----------------------------------------------------------------------------
\* The clarification round

FaultyCapOfSealNow(asked) == asked = {} \/ ci \/ round > LastRound \/ stop
FaultyCIOfSealNow(asked) == asked = {} \/ round >= LastRound \/ stop

\* _after_questions
SealNow(asked) == asked = {} \/ ci \/ round >= LastRound \/ stop

FaultyNewQuestions(asked) == asked
NewQuestions(asked) == asked \ excluded

\* One question per held finding; one the model would not write, or one this
\* case already answers, is dropped. A generator that raises asks nothing.
GenerateQuestions ==
    /\ node = "generate_questions"
    /\ \E held \in SUBSET {c \in DOMAIN findings : findings[c].held} :
       \E facet \in [held -> Facets] :
          questions' = NewQuestions({[candidate |-> c, facet |-> facet[c]] : c \in held})
    /\ node' = IF SealNow(questions') THEN "seal_case" ELSE "write_waiting_synopsis"
    /\ UNCHANGED <<ci, store, caseVars, judgeVars, pending, stop, filed>>

\* What the composer, or the failure handler, puts in the review it files.
Snapshot(status, thisCase, theseFindings, asked) ==
    [status |-> status, round |-> round, case |-> thisCase,
     findings |-> theseFindings, questions |-> asked, stopped |-> stop]

RecordWaitingReview ==
    /\ node = "record_waiting_review"
    /\ filed' = filed \cup {Snapshot("awaiting_answers", case, findings, questions)}
    /\ node' = "await_answers"
    /\ UNCHANGED <<ci, store, caseVars, judgeVars, askVars>>

FaultyOutcomesOf(answered) == {[key |-> q, status |-> "answered"] : q \in answered}

\* Every pending question receives an outcome: a submission, or else a skip.
OutcomesOf(answered) ==
    {[key |-> q, status |-> IF q \in answered THEN "answered" ELSE "skipped"]
        : q \in questions}

\* A person answers the interrupt, and may ask the review to stop there.
AwaitAnswers ==
    /\ node = "await_answers"
    /\ \E answered \in SUBSET questions : pending' = OutcomesOf(answered)
    /\ stop' \in BOOLEAN
    /\ node' = "revise_case"
    /\ UNCHANGED <<ci, store, caseVars, judgeVars, questions, filed>>

FaultyNextRound == round
NextRound == round + 1

\* The first round that records an answer opens the next free revision; every
\* later round adds to it. with_answers refuses a question already recorded.
ReviseCase ==
    /\ node = "revise_case"
    /\ pending # {}
    /\ KeysOf(pending) \cap KeysOf(case.answers) = {}
    /\ case' = [revision |-> IF opened THEN case.revision ELSE Len(store) + 1,
                answers  |-> case.answers \cup pending]
    /\ previousAnswers' = case.answers
    /\ opened' = TRUE
    /\ round' = NextRound
    /\ excluded' = excluded \cup KeysOf(pending)
    /\ node' = IF stop THEN "seal_case" ELSE "select_candidates_for_rejudgement"
    /\ UNCHANGED <<ci, store, judgeVars, askVars, filed>>

\* validate_continuation_of, then every candidate again.
SelectRejudgements ==
    /\ node = "select_candidates_for_rejudgement"
    /\ previousAnswers \subseteq case.answers
    /\ previousAnswers # case.answers
    /\ selected' = Candidates
    /\ Dispatch(Candidates)
    /\ UNCHANGED <<ci, store, caseVars, findings, output, askVars, filed>>

-----------------------------------------------------------------------------
\* The ways out

\* SQLiteCoreCaseRepository.record: a revision number is written once.
Free(revision) == revision \notin DOMAIN store
Record(thisCase) == Append(store, [by |-> "this review", answers |-> thisCase.answers])

SealCase ==
    /\ node = "seal_case"
    /\ opened => Free(case.revision)
    /\ store' = IF opened THEN Record(case) ELSE store
    /\ node' = "write_final_synopsis"
    /\ UNCHANGED <<ci, caseVars, judgeVars, askVars, filed>>

RecordReview ==
    /\ node = "record_review"
    /\ filed' = filed \cup {Snapshot("completed", case, findings, questions)}
    /\ node' = "end"
    /\ UNCHANGED <<ci, store, caseVars, judgeVars, askVars>>

\* Nodes an exception can leave by. generate_questions degrades instead, the
\* case nodes raise only on what the case or the store holds.
Raises ==
    \/ node \in {"analyze_repository", "load_context", "detect_candidates",
                 "calculate_delta", "select_initial_candidates",
                 "load_policy_corpus", "write_waiting_synopsis",
                 "record_waiting_review", "write_final_synopsis", "record_review"}
    \/ node = "review_candidate" /\ \E c \in Candidates : branch[c] \in {"retrieve", "judge"}
    \/ node = "seal_case" /\ opened /\ ~Free(case.revision)

FaultyNoSealAfterFailure == store
FaultyBlindSealAfterFailure == IF opened THEN Record(case) ELSE store

\* _seal_after_failure: the revision the round opened is written where its
\* number is still free, and a conflict is swallowed.
StoreAfterFailure ==
    IF opened /\ Free(case.revision) THEN Record(case) ELSE store

\* _record_failure: a snapshot of what the finished stages permit, and none
\* before the atlas exists. get_state includes the finished siblings' writes.
RecordFailure ==
    /\ Raises
    /\ IF node \in {"load_context", "analyze_repository"}
       THEN UNCHANGED <<store, filed>>
       ELSE /\ store' = StoreAfterFailure
            /\ filed' = filed \cup {Snapshot("failed", case, Merged, {})}
    /\ node' = "failed"
    /\ UNCHANGED <<ci, caseVars, judgeVars, askVars>>

\* cancel: the waiting snapshot is filed again as a stopped one, under the case
\* it named. The revision a round before may have opened is not written.
Cancel ==
    /\ node = "await_answers"
    /\ filed' = filed \cup {Snapshot("cancelled", case, findings, questions)}
    /\ node' = "cancelled"
    /\ UNCHANGED <<ci, store, caseVars, judgeVars, askVars>>

\* cancel_run: the driver leaves the stream once a stage has returned, and what
\* was filed stays as it is.
CancelRun ==
    /\ node \notin Ended \cup {"load_context", "await_answers"}
    /\ node' = "cancelled"
    /\ UNCHANGED <<ci, store, caseVars, judgeVars, askVars, filed>>

\* Another review of this case, or a re-scoping, takes the next revision.
OthersRecord ==
    /\ Len(store) < MaxRevisions
    /\ store' = Append(store, [by |-> "another", answers |-> {}])
    /\ UNCHANGED <<node, ci, caseVars, judgeVars, askVars, filed>>

Terminating == node \in Ended /\ UNCHANGED vars

GraphStep ==
    \/ LoadContext
    \/ PlainNode
    \/ SelectInitialCandidates
    \/ LoadPolicyCorpus
    \/ \E c \in Candidates : RetrievePolicySet(c) \/ JudgeCandidate(c)
    \/ JoinBranches
    \/ GenerateQuestions
    \/ RecordWaitingReview
    \/ ReviseCase
    \/ SelectRejudgements
    \/ SealCase
    \/ RecordReview
    \/ RecordFailure

Next == GraphStep \/ AwaitAnswers \/ Cancel \/ CancelRun \/ OthersRecord \/ Terminating

(***************************************************************************)
(* The thread driving the graph keeps running its nodes, and every node    *)
(* either returns or raises. No person has to answer or to stop anything,  *)
(* and no other review has to run.                                         *)
(***************************************************************************)
Spec == Init /\ [][Next]_vars /\ WF_vars(GraphStep)

-----------------------------------------------------------------------------
\* Properties

\* The state is well typed: every field of ReviewState holds what its
\* annotation in workflow/state.py says, at every node.
TypeOK ==
    /\ node \in Nodes
    /\ ci \in BOOLEAN /\ opened \in BOOLEAN /\ stop \in BOOLEAN
    /\ store \in Seq(Revisions)
    /\ case \in Case
    /\ previousAnswers \in SUBSET Answers
    /\ round \in 1..LastRound
    /\ excluded \in SUBSET Keys
    /\ selected \in SUBSET Candidates
    /\ findings \in FindingMaps
    /\ branch \in [Candidates -> {"idle", "retrieve", "judge", "done"}]
    /\ output \in [Candidates -> FindingMaps]
    /\ questions \in SUBSET Keys
    /\ pending \in SUBSET Answers
    /\ filed \in SUBSET Snapshots

Waits == {s \in filed : s.status = "awaiting_answers"}

\* No question is put to a person twice in one review, and none the case
\* already answers is put at all (excluded_equivalence_keys): the questions of
\* two waits never meet, and a wait's questions are not among its own case's
\* answers.
NeverAsksTwice ==
    /\ \A s, t \in Waits : s # t => s.questions \cap t.questions = {}
    /\ \A s \in Waits : s.questions \cap KeysOf(s.case.answers) = {}

\* A submitted round is never refused by the case it is recorded on: neither
\* ValueError of with_answers (nothing recorded, an equivalent question already
\* recorded), nor open_revision's, nor validate_continuation_of's can fire.
ARoundIsNeverRefused ==
    /\ node = "revise_case" =>
          /\ pending # {}
          /\ KeysOf(pending) \cap KeysOf(case.answers) = {}
          /\ OneOutcomeEach(pending)
          /\ ~opened => case.revision <= Len(store)
    /\ node = "select_candidates_for_rejudgement" =>
          previousAnswers \subseteq case.answers /\ previousAnswers # case.answers

\* A wait is always before the last round, one per round, and never in a CI
\* review or after somebody asked it to stop: two waits at most.
AtMostTwoWaits ==
    /\ \A s \in Waits : s.round < LastRound /\ ~ci /\ ~s.stopped
    /\ \A s, t \in Waits : s.round = t.round => s = t

\* The composer derives a snapshot's id from the case revision, the round and
\* the status, and the store keeps the first row under an id: two different
\* snapshots of one review never share one.
SnapshotIdentitiesDiffer ==
    \A s, t \in filed :
        (s.status = t.status /\ s.round = t.round /\ s.case.revision = t.case.revision)
            => s = t

\* A review that went on to judge a round's answers files only verdicts reached
\* on them: no finding of a sibling's stale copy survives the rejudgement.
VerdictsFollowTheAnswers ==
    \A s \in filed :
        (s.status # "failed" /\ s.round > 1 /\ ~s.stopped) =>
            /\ DOMAIN s.findings = Candidates
            /\ \A c \in Candidates : s.findings[c].judgedOn = s.case.answers

\* Every question a filed wait asked has exactly one recorded outcome in each
\* later snapshot of the review, the failed ones included.
EveryQuestionHasAnOutcome ==
    \A s \in Waits : \A t \in filed : t.round > s.round =>
        \A q \in s.questions : \E a \in t.case.answers :
            a.key = q /\ \A b \in t.case.answers : b.key = q => b = a

\* The revision a snapshot names is stored. Where this review opened it, it holds
\* this review's answers, unless the number went to another review first and
\* this one failed over it.
NamesAStoredRevision(s) ==
    /\ s.case.revision \in DOMAIN store
    /\ \/ store[s.case.revision].answers = s.case.answers
       \/ s.status = "failed" /\ store[s.case.revision].by = "another"

\* A review that ended names a case revision the store holds: "the snapshot is
\* written when the review that opened it finishes" (cases.py 113-115), and a
\* review is not filed naming a revision that is not there (service.py 909-914).
EndedReviewsNameStoredRevisions ==
    \A s \in filed : s.status # "awaiting_answers" => NamesAStoredRevision(s)

\* So does every review that completes, fails at whatever node after the case was
\* opened, or is stopped in the wait of its first round. What is left out is a
\* stop in a later wait, which EndedReviewsNameStoredRevisions is violated by.
UnstoppedReviewsNameStoredRevisions ==
    \A s \in filed :
        s.status # "awaiting_answers" /\ ~(s.status = "cancelled" /\ s.round > 1) =>
            NamesAStoredRevision(s)

\* Only a review that recorded an answer writes a case revision, and it writes
\* one: waiting twice does not take two numbers.
OneRevisionPerReview ==
    LET mine == {r \in DOMAIN store : store[r].by = "this review"}
    IN  /\ \A r, t \in mine : r = t
        /\ mine # {} => opened

\* The protocol this review implements for whoever watches it.
Phase ==
    CASE node \in Ended        -> "ended"
      [] node = "await_answers" -> "waiting"
      [] node = "revise_case"   -> "answered"
      [] OTHER                  -> "judging"
Protocol == INSTANCE RoundProtocol WITH phase <- Phase
ImplementsRoundProtocol == Protocol!Spec

=============================================================================

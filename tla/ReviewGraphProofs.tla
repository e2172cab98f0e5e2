------------------------- MODULE ReviewGraphProofs -------------------------
(***************************************************************************)
(* Theorems of ReviewGraph, for any number of candidates, any facets, any  *)
(* prior histories of the case and any number of revisions others record.  *)
(***************************************************************************)
EXTENDS ReviewGraph, SequenceTheorems, TLAPS

\* A branch that finished writes its own candidate and nothing else, so the
\* merge at the barrier has one writer per candidate whatever order it takes.
BranchesWriteTheirOwn ==
    \A b \in Candidates : branch[b] = "done" => DOMAIN output[b] = {b}

\* A round asks only while there is a round left to count after it.
AskingLeavesARound == node \in AskingNodes => round < LastRound

TypeInv == TypeOK /\ BranchesWriteTheirOwn /\ AskingLeavesARound

LEMMA NodesOfPlainEdges ==
    /\ DOMAIN PlainEdges =
         {"analyze_repository", "detect_candidates", "calculate_delta",
          "write_waiting_synopsis", "compose_waiting_review",
          "write_final_synopsis", "compose_final_review"}
    /\ \A n \in DOMAIN PlainEdges : PlainEdges[n] \in Nodes
BY DEF PlainEdges, Nodes, AskingNodes, Ended

\* The merge of the finished branches is a map of findings.
LEMMA MergedIsAMap ==
    ASSUME TypeInv
    PROVE  Merged \in FindingMaps
<1>1. \A c \in Candidates : Writers(c) \subseteq {c}
  BY DEF TypeInv, BranchesWriteTheirOwn, Writers
<1>2. ASSUME NEW c \in Candidates, Writers(c) # {}
      PROVE  /\ LastWriter(c) = c
             /\ output[c][c] \in Findings
  <2>1. Writers(c) = {c}
    BY <1>1, <1>2
  <2>2. \A other \in Writers(c) : other <= c
    BY <2>1 DEF Candidates
  <2>3. LastWriter(c) = c
    BY <2>1, <2>2 DEF LastWriter
  <2>4. c \in DOMAIN output[c] /\ output[c] \in FindingMaps
    BY <2>1 DEF Writers, TypeInv, TypeOK
  <2> QED
    BY <2>3, <2>4 DEF FindingMaps
<1>3. PICK S \in SUBSET Candidates : findings \in [S -> Findings]
  BY DEF TypeInv, TypeOK, FindingMaps
<1> DEFINE D == S \cup {d \in Candidates : Writers(d) # {}}
<1>4. Merged \in [D -> Findings]
  BY <1>2, <1>3 DEF Merged
<1>5. D \in SUBSET Candidates
  OBVIOUS
<1> QED
  BY <1>4, <1>5 DEF FindingMaps

LEMMA StoredRevisions ==
    ASSUME store \in Seq(Revisions), NEW r \in DOMAIN store
    PROVE  r \in Nat /\ store[r].answers \in SUBSET Answers
<1>1. r \in 1..Len(store) /\ Len(store) \in Nat
  BY LenProperties
<1>2. store[r] \in Revisions
  BY <1>1, ElementOfSeq
<1>3. \A revision \in Revisions : revision.answers \in SUBSET Answers
  BY DEF Revisions
<1> QED
  BY <1>1, <1>2, <1>3

LEMMA TypeInvInitially == Init => TypeInv
<1> SUFFICES ASSUME Init PROVE TypeInv
  OBVIOUS
<1>1. store \in Seq(Revisions)
  BY ConstantsAssumption DEF Init
<1>2. NoFindings \in FindingMaps /\ NoOutput \in [Candidates -> FindingMaps]
  <2>1. [d \in {} |-> [judgedOn |-> {}, held |-> FALSE]] \in [{} -> Findings]
    OBVIOUS
  <2> QED
    BY <2>1 DEF NoFindings, NoOutput, FindingMaps
<1>3. case \in Case
  BY DEF Init, Case
<1>4. Idle \in [Candidates -> {"idle", "retrieve", "judge", "done"}]
  BY DEF Idle
<1>5. node \in Nodes /\ round \in 1..LastRound
  BY DEF Init, Nodes, LastRound
<1>6. filed \in SUBSET Snapshots /\ findings \in FindingMaps /\ output \in [Candidates -> FindingMaps]
  BY <1>2 DEF Init
<1>7. TypeOK
  BY <1>1, <1>3, <1>4, <1>5, <1>6 DEF Init, TypeOK
<1>8. BranchesWriteTheirOwn
  BY DEF Init, Idle, BranchesWriteTheirOwn
<1>9. AskingLeavesARound
  BY DEF Init, AskingLeavesARound, LastRound
<1> QED
  BY <1>7, <1>8, <1>9 DEF TypeInv

LEMMA KeysOfAnswers == \A answers \in SUBSET Answers : KeysOf(answers) \in SUBSET Keys
BY DEF KeysOf, Answers

\* What the composer and the failure handler file is a snapshot.
LEMMA SnapshotsAreTyped ==
    ASSUME TypeInv,
           NEW status \in {"awaiting_answers", "completed", "failed", "cancelled"},
           NEW theseFindings \in FindingMaps, NEW asked \in SUBSET Keys
    PROVE  Snapshot(status, case, theseFindings, asked) \in Snapshots
<1>1. round \in Nat /\ case \in Case /\ stop \in BOOLEAN
  BY DEF TypeInv, TypeOK, LastRound
<1> QED
  BY <1>1 DEF Snapshot, Snapshots

LEMMA RecordIsAStore ==
    ASSUME TypeInv
    PROVE  Record(case) \in Seq(Revisions)
<1>1. [by |-> "this review", answers |-> case.answers] \in Revisions
  BY DEF TypeInv, TypeOK, Case, Revisions
<1> QED
  BY <1>1, AppendProperties DEF TypeInv, TypeOK, Record

LEMMA TypeInvPreserved == TypeInv /\ [Next]_vars => TypeInv'
<1> SUFFICES ASSUME TypeInv, [Next]_vars PROVE TypeInv'
  OBVIOUS
<1> USE DEF TypeInv, TypeOK, BranchesWriteTheirOwn, AskingLeavesARound,
            caseVars, judgeVars, askVars
<1>1. CASE LoadContext
  <2>1. PICK r \in DOMAIN store :
            /\ case' = [revision |-> r, answers |-> store[r].answers]
            /\ previousAnswers' = store[r].answers
            /\ excluded' = KeysOf(store[r].answers)
    BY <1>1 DEF LoadContext
  <2>2. r \in Nat /\ store[r].answers \in SUBSET Answers
    BY StoredRevisions
  <2>3. case' \in Case /\ excluded' \in SUBSET Keys
    BY <2>1, <2>2, KeysOfAnswers DEF Case
  <2> QED
    BY <1>1, <2>1, <2>2, <2>3, NodesOfPlainEdges DEF LoadContext, Nodes, AskingNodes
<1>2. CASE PlainNode
  <2>1. node' \in Nodes
    BY <1>2, NodesOfPlainEdges DEF PlainNode
  <2>2. node' \in AskingNodes => node \in AskingNodes
    BY <1>2 DEF PlainNode, PlainEdges, AskingNodes
  <2> QED
    BY <1>2, <2>1, <2>2 DEF PlainNode
<1>3. CASE SelectInitialCandidates
  <2>1. /\ node' \in {"failed", "load_policy_corpus"}
        /\ selected' \in SUBSET Candidates
        /\ UNCHANGED <<branch, output>>
    BY <1>3 DEF SelectInitialCandidates
  <2>2. findings' \in FindingMaps
    <3>1. \/ findings' = findings
          \/ \E unchanged \in SUBSET Candidates, held \in SUBSET Candidates :
                findings' = [c \in unchanged |->
                               [judgedOn |-> case.answers, held |-> c \in held]]
      BY <1>3 DEF SelectInitialCandidates
    <3>2. ASSUME NEW unchanged \in SUBSET Candidates, NEW held \in SUBSET Candidates
          PROVE  [c \in unchanged |-> [judgedOn |-> case.answers, held |-> c \in held]]
                   \in [unchanged -> Findings]
      <4>1. ASSUME NEW c \in unchanged
            PROVE  [judgedOn |-> case.answers, held |-> c \in held] \in Findings
        <5>1. \A isHeld \in BOOLEAN :
                  [judgedOn |-> case.answers, held |-> isHeld] \in Findings
          BY DEF Findings, Case
        <5>2. CASE c \in held
          BY <5>1, <5>2
        <5>3. CASE c \notin held
          <6>1. (c \in held) = FALSE
            BY <5>3
          <6> QED
            BY <5>1, <6>1, Zenon
        <5> QED
          BY <5>2, <5>3
      <4> QED
        BY <4>1, Zenon
    <3> QED
      BY <3>1, <3>2 DEF FindingMaps
  <2> QED
    BY <1>3, <2>1, <2>2 DEF SelectInitialCandidates, Nodes, AskingNodes, Ended
<1>4. CASE LoadPolicyCorpus
  BY <1>4 DEF LoadPolicyCorpus, Dispatch, Nodes, AskingNodes
<1>5. ASSUME NEW c \in Candidates, RetrievePolicySet(c) PROVE TypeInv'
  BY <1>5 DEF RetrievePolicySet
<1>6. ASSUME NEW c \in Candidates, JudgeCandidate(c) PROVE TypeInv'
  <2>1. PICK held \in BOOLEAN :
            output' = [output EXCEPT ![c] =
                         BranchOutput(c, [judgedOn |-> case.answers, held |-> held])]
    BY <1>6 DEF JudgeCandidate
  <2> DEFINE mine == BranchOutput(c, [judgedOn |-> case.answers, held |-> held])
  <2>2. [judgedOn |-> case.answers, held |-> held] \in Findings
    BY DEF Findings, Case
  <2>3. mine \in [{c} -> Findings]
    BY <2>2 DEF BranchOutput
  <2>4. mine \in FindingMaps /\ DOMAIN mine = {c}
    BY <2>3 DEF FindingMaps
  <2> HIDE DEF mine
  <2>5. output' \in [Candidates -> FindingMaps] /\ branch' \in [Candidates -> {"idle", "retrieve", "judge", "done"}]
    BY <1>6, <2>1, <2>4 DEF JudgeCandidate, mine
  <2>6. ASSUME NEW b \in Candidates, branch'[b] = "done" PROVE DOMAIN output'[b] = {b}
    BY <1>6, <2>1, <2>4, <2>6 DEF JudgeCandidate, mine
  <2> QED
    BY <1>6, <2>5, <2>6 DEF JudgeCandidate
<1>7. CASE JoinBranches
  <2>1. findings' \in FindingMaps
    BY <1>7, MergedIsAMap DEF JoinBranches
  <2>2. NoOutput \in [Candidates -> FindingMaps]
    <3>1. [d \in {} |-> [judgedOn |-> {}, held |-> FALSE]] \in [{} -> Findings]
      OBVIOUS
    <3> QED
      BY <3>1 DEF NoOutput, FindingMaps
  <2> QED
    BY <1>7, <2>1, <2>2 DEF JoinBranches, Idle, Nodes, AskingNodes
<1>8. CASE GenerateQuestions
  <2>1. PICK held \in SUBSET {c \in DOMAIN findings : findings[c].held} :
          \E facet \in [held -> Facets] :
            questions' = NewQuestions({[candidate |-> c, facet |-> facet[c]] : c \in held})
    BY <1>8 DEF GenerateQuestions
  <2>2. PICK facet \in [held -> Facets] :
            questions' = NewQuestions({[candidate |-> c, facet |-> facet[c]] : c \in held})
    BY <2>1
  <2>3. held \subseteq Candidates
    BY DEF FindingMaps
  <2>4. questions' \in SUBSET Keys
    BY <2>2, <2>3 DEF NewQuestions, Keys
  <2>5. /\ node' \in {"seal_case", "write_waiting_synopsis"}
        /\ node' = "write_waiting_synopsis" => round < LastRound
    BY <1>8 DEF GenerateQuestions, SealNow, LastRound
  <2> QED
    BY <1>8, <2>4, <2>5 DEF GenerateQuestions, Nodes, AskingNodes
<1>9. CASE RecordWaitingReview
  <2>1. Snapshot("awaiting_answers", case, findings, questions) \in Snapshots
    BY SnapshotsAreTyped
  <2> QED
    BY <1>9, <2>1 DEF RecordWaitingReview, Nodes, AskingNodes
<1>10. CASE AwaitAnswers
  <2>1. pending' \in SUBSET Answers
    BY <1>10 DEF AwaitAnswers, OutcomesOf, Answers
  <2> QED
    BY <1>10, <2>1 DEF AwaitAnswers, Nodes, AskingNodes
<1>11. CASE ReviseCase
  <2>1. case' \in Case
    BY <1>11 DEF ReviseCase, Case
  <2>2. round' \in 1..LastRound
    BY <1>11 DEF ReviseCase, NextRound, AskingNodes, LastRound
  <2>3. excluded' \in SUBSET Keys
    BY <1>11, KeysOfAnswers DEF ReviseCase
  <2>4. previousAnswers' \in SUBSET Answers
    BY <1>11 DEF ReviseCase, Case
  <2> QED
    BY <1>11, <2>1, <2>2, <2>3, <2>4 DEF ReviseCase, Nodes, AskingNodes
<1>12. CASE SelectRejudgements
  BY <1>12 DEF SelectRejudgements, Dispatch, Nodes, AskingNodes
<1>13. CASE SealCase
  <2>1. store' \in Seq(Revisions)
    BY <1>13, RecordIsAStore DEF SealCase
  <2> QED
    BY <1>13, <2>1, NodesOfPlainEdges DEF SealCase, Nodes, AskingNodes
<1>14. CASE RecordReview
  <2>1. Snapshot("completed", case, findings, questions) \in Snapshots
    BY SnapshotsAreTyped
  <2> QED
    BY <1>14, <2>1 DEF RecordReview, Nodes, AskingNodes, Ended
<1>15. CASE RecordFailure
  <2>1. Snapshot("failed", case, Merged, {}) \in Snapshots
    BY SnapshotsAreTyped, MergedIsAMap
  <2>2. store' \in Seq(Revisions) /\ filed' \in SUBSET Snapshots
    BY <1>15, <2>1, RecordIsAStore DEF RecordFailure, StoreAfterFailure
  <2> QED
    BY <1>15, <2>2 DEF RecordFailure, Nodes, AskingNodes, Ended
<1>16. CASE OthersRecord
  <2>1. [by |-> "another", answers |-> {}] \in Revisions
    BY DEF Revisions
  <2> QED
    BY <1>16, <2>1 DEF OthersRecord
<1>17. CASE UNCHANGED vars
  BY <1>17 DEF vars
<1>18. CASE Cancel
  <2>1. Snapshot("cancelled", case, findings, questions) \in Snapshots
    BY SnapshotsAreTyped
  <2> QED
    BY <1>18, <2>1 DEF Cancel, Nodes, AskingNodes, Ended
<1>19. CASE CancelRun
  BY <1>19 DEF CancelRun, Nodes, AskingNodes, Ended
<1> QED
  BY <1>1, <1>2, <1>3, <1>4, <1>5, <1>6, <1>7, <1>8, <1>9, <1>10, <1>11, <1>12,
     <1>13, <1>14, <1>15, <1>16, <1>17, <1>18, <1>19 DEF Next, GraphStep, Terminating

\* In every behaviour each field of ReviewState holds what its annotation says,
\* and the round never passes the last one.
THEOREM TypeCorrect == Spec => []TypeOK
<1>1. Init => TypeInv
  BY TypeInvInitially
<1>2. TypeInv /\ [Next]_vars => TypeInv'
  BY TypeInvPreserved
<1>3. TypeInv => TypeOK
  BY DEF TypeInv
<1> QED
  BY <1>1, <1>2, <1>3, PTL DEF Spec

(***************************************************************************)
(* What a review asks, and what becomes of the answers: the invariant      *)
(* RoundInv ties the questions a round is about to ask, the snapshots      *)
(* already filed and the answers the case records.                         *)
(***************************************************************************)
\* excluded_equivalence_keys is what the case answers, at every node.
ExcludedAreAnswered == excluded = KeysOf(case.answers)

\* No revision of the case, stored or open, answers one question twice.
AnswersAreSingle ==
    /\ OneOutcomeEach(case.answers)
    /\ \A r \in DOMAIN store : OneOutcomeEach(store[r].answers)

\* A round that is being asked is one that may still be asked.
AskingIsAllowed ==
    node \in AskingNodes =>
        /\ questions # {} /\ questions \cap excluded = {}
        /\ ~ci
        /\ node # "revise_case" => ~stop

\* The answers about to be recorded are one outcome of each question asked.
PendingAnswersTheRound ==
    node = "revise_case" => KeysOf(pending) = questions /\ OneOutcomeEach(pending)

\* Until it opens a revision a review stands on a stored one.
StandsOnAStoredRevision == ~opened => case.revision <= Len(store)

\* The rejudgement continues the case the round before judged on.
RejudgesAContinuation ==
    node = "select_candidates_for_rejudgement" =>
        previousAnswers \subseteq case.answers /\ previousAnswers # case.answers

\* A filed wait is the one now open, was stopped with the review, or was answered in full.
OpenWait(s) ==
    /\ s.round = round /\ node \in {"await_answers", "revise_case", "cancelled"}
    /\ s.questions = questions
AnsweredWait(s) == s.round < round /\ s.questions \subseteq excluded
WaitsAreOpenOrAnswered ==
    \A s \in Waits :
        /\ s.round < LastRound /\ ~ci /\ ~s.stopped
        /\ s.questions \cap KeysOf(s.case.answers) = {}
        /\ OpenWait(s) \/ AnsweredWait(s)

\* No two waits share a round or a question.
WaitsAreApart ==
    \A s, t \in Waits :
        /\ s.round = t.round => s = t
        /\ s # t => s.questions \cap t.questions = {}

\* What is filed answers every wait of an earlier round.
FiledAnswersEarlierWaits ==
    \A t \in filed :
        /\ t.round <= round
        /\ OneOutcomeEach(t.case.answers)
        /\ \A s \in Waits : s.round < t.round => s.questions \subseteq KeysOf(t.case.answers)

\* Nothing is filed before the case is loaded.
NothingFiledBeforeLoading == node = "load_context" => filed = {}

RoundInv ==
    /\ NothingFiledBeforeLoading
    /\ ExcludedAreAnswered /\ AnswersAreSingle /\ AskingIsAllowed
    /\ PendingAnswersTheRound /\ StandsOnAStoredRevision /\ RejudgesAContinuation
    /\ WaitsAreOpenOrAnswered /\ WaitsAreApart /\ FiledAnswersEarlierWaits

-----------------------------------------------------------------------------
\* Lemmas on answers

LEMMA KeysOfUnion == \A a, b : KeysOf(a \cup b) = KeysOf(a) \cup KeysOf(b)
BY DEF KeysOf

\* with_answers: recording single outcomes of new questions keeps them single.
LEMMA RecordingKeepsAnswersSingle ==
    ASSUME NEW old, NEW new, OneOutcomeEach(old), OneOutcomeEach(new),
           KeysOf(old) \cap KeysOf(new) = {}
    PROVE  OneOutcomeEach(old \cup new)
BY DEF OneOutcomeEach, KeysOf

\* _resume_command answers every question it was asked, once.
LEMMA OutcomesAnswerTheQuestions ==
    \A answered : KeysOf(OutcomesOf(answered)) = questions /\ OneOutcomeEach(OutcomesOf(answered))
<1> TAKE answered
<1> DEFINE outcome(q) == [key |-> q, status |-> IF q \in answered THEN "answered" ELSE "skipped"]
<1>1. OutcomesOf(answered) = {outcome(q) : q \in questions}
  BY DEF OutcomesOf
<1>2. \A q : outcome(q).key = q
  OBVIOUS
<1> HIDE DEF outcome
<1> QED
  BY <1>1, <1>2 DEF KeysOf, OneOutcomeEach

LEMMA AppendedStore ==
    ASSUME store \in Seq(Revisions), NEW revision \in Revisions,
           \A r \in DOMAIN store : OneOutcomeEach(store[r].answers),
           OneOutcomeEach(revision.answers)
    PROVE  /\ Len(store) \in Nat
           /\ Len(Append(store, revision)) = Len(store) + 1
           /\ \A r \in DOMAIN Append(store, revision) :
                  OneOutcomeEach(Append(store, revision)[r].answers)
<1>1. /\ Len(store) \in Nat
      /\ DOMAIN store = 1..Len(store)
      /\ DOMAIN Append(store, revision) = 1..(Len(store) + 1)
      /\ Len(Append(store, revision)) = Len(store) + 1
      /\ \A r \in 1..Len(store) : Append(store, revision)[r] = store[r]
      /\ Append(store, revision)[Len(store) + 1] = revision
  BY AppendProperties, LenProperties
<1>2. \A r \in 1..(Len(store) + 1) : r \in 1..Len(store) \/ r = Len(store) + 1
  BY <1>1
<1> QED
  BY <1>1, <1>2

-----------------------------------------------------------------------------
\* The invariant

LEMMA RoundInvInitially == Init => RoundInv
<1> SUFFICES ASSUME Init PROVE RoundInv
  OBVIOUS
<1>1. NothingFiledBeforeLoading /\ ExcludedAreAnswered /\ OneOutcomeEach(case.answers)
  BY DEF Init, NothingFiledBeforeLoading, ExcludedAreAnswered, KeysOf, OneOutcomeEach
<1>2. \A r \in DOMAIN store : OneOutcomeEach(store[r].answers)
  BY ConstantsAssumption DEF Init
<1>3. Len(store) \in Nat
  BY ConstantsAssumption, LenProperties DEF Init
<1>4. StandsOnAStoredRevision
  BY <1>3 DEF Init, StandsOnAStoredRevision
<1>5. AskingIsAllowed /\ PendingAnswersTheRound /\ RejudgesAContinuation
  BY DEF Init, AskingIsAllowed, AskingNodes, PendingAnswersTheRound, RejudgesAContinuation
<1>6. WaitsAreOpenOrAnswered /\ WaitsAreApart /\ FiledAnswersEarlierWaits
  BY DEF Init, Waits, WaitsAreOpenOrAnswered, WaitsAreApart, FiledAnswersEarlierWaits
<1> QED
  BY <1>1, <1>2, <1>4, <1>5, <1>6 DEF RoundInv, AnswersAreSingle

\* A step that neither asks, answers, files nor revises keeps the invariant,
\* whatever others record of the case meanwhile.
LEMMA QuietStepsKeepRoundInv ==
    ASSUME RoundInv,
           UNCHANGED <<ci, caseVars, questions, stop, filed>>,
           Len(store') \in Nat, Len(store) \in Nat, case.revision \in Nat,
           Len(store) <= Len(store'),
           \A r \in DOMAIN store' : OneOutcomeEach(store'[r].answers),
           node \notin {"await_answers", "revise_case", "cancelled"} \/ node' \in {node, "cancelled"},
           node' \in AskingNodes => node \in AskingNodes,
           node' = "revise_case" => node = "revise_case" /\ pending' = pending,
           node' = "select_candidates_for_rejudgement" => node' = node,
           node' = "load_context" => node' = node
    PROVE  RoundInv'
<1> USE DEF RoundInv, caseVars
<1>1. /\ NothingFiledBeforeLoading' /\ ExcludedAreAnswered'
      /\ AnswersAreSingle' /\ PendingAnswersTheRound'
  BY DEF NothingFiledBeforeLoading, ExcludedAreAnswered, AnswersAreSingle, PendingAnswersTheRound, KeysOf, OneOutcomeEach
<1>2. AskingIsAllowed' /\ StandsOnAStoredRevision' /\ RejudgesAContinuation'
  BY DEF AskingIsAllowed, StandsOnAStoredRevision, RejudgesAContinuation, AskingNodes
<1>3. WaitsAreOpenOrAnswered'
  BY DEF WaitsAreOpenOrAnswered, OpenWait, AnsweredWait, Waits, KeysOf
<1>4. WaitsAreApart' /\ FiledAnswersEarlierWaits'
  BY DEF WaitsAreApart, FiledAnswersEarlierWaits, Waits, KeysOf, OneOutcomeEach
<1> QED
  BY <1>1, <1>2, <1>3, <1>4

\* Filing a snapshot that is no wait.
LEMMA FilingKeepsRoundInv ==
    ASSUME TypeInv, RoundInv,
           NEW status \in {"completed", "failed", "cancelled"}, NEW theseFindings, NEW asked,
           filed' = filed \cup {Snapshot(status, case, theseFindings, asked)},
           UNCHANGED <<ci, caseVars, questions, stop>>,
           Len(store') \in Nat, Len(store) \in Nat, Len(store) <= Len(store'),
           \A r \in DOMAIN store' : OneOutcomeEach(store'[r].answers),
           node \notin {"await_answers", "revise_case", "cancelled"} \/ node' = "cancelled",
           node' \in Ended
    PROVE  RoundInv'
<1> USE DEF RoundInv, caseVars
<1> DEFINE new == Snapshot(status, case, theseFindings, asked)
<1>1. new.status # "awaiting_answers" /\ new.round = round /\ new.case = case
  BY DEF Snapshot
<1>2. Waits' = Waits
  BY <1>1 DEF Waits
<1>3. /\ node' \notin AskingNodes
      /\ node' \notin {"load_context", "select_candidates_for_rejudgement"}
  BY DEF Ended, AskingNodes
<1>4. /\ NothingFiledBeforeLoading' /\ ExcludedAreAnswered'
      /\ AnswersAreSingle' /\ PendingAnswersTheRound'
  BY <1>3 DEF NothingFiledBeforeLoading, ExcludedAreAnswered, AnswersAreSingle, PendingAnswersTheRound, AskingNodes,
              KeysOf, OneOutcomeEach
<1>5. AskingIsAllowed' /\ StandsOnAStoredRevision' /\ RejudgesAContinuation'
  BY <1>3 DEF AskingIsAllowed, StandsOnAStoredRevision, RejudgesAContinuation, TypeInv, TypeOK, Case
<1>6. WaitsAreOpenOrAnswered'
  BY <1>2, <1>3 DEF WaitsAreOpenOrAnswered, OpenWait, AnsweredWait, KeysOf
<1>7. WaitsAreApart'
  BY <1>2 DEF WaitsAreApart
<1>8. FiledAnswersEarlierWaits'
  <2>1. new.round <= round /\ OneOutcomeEach(new.case.answers)
    BY <1>1 DEF AnswersAreSingle, TypeInv, TypeOK, LastRound
  <2>2. \A s \in Waits : s.round < new.round => s.questions \subseteq KeysOf(new.case.answers)
    <3>1. new.round = round /\ new.case = case /\ round \in 1..3
      BY <1>1 DEF TypeInv, TypeOK, LastRound
    <3>2. ~(round < round)
      BY <3>1
    <3> QED
      BY <3>1, <3>2 DEF WaitsAreOpenOrAnswered, OpenWait, AnsweredWait, ExcludedAreAnswered
  <2> QED
    BY <1>2, <2>1, <2>2 DEF FiledAnswersEarlierWaits, KeysOf, OneOutcomeEach
<1> QED
  BY <1>4, <1>5, <1>6, <1>7, <1>8

LEMMA RoundInvPreserved == TypeInv /\ RoundInv /\ [Next]_vars => RoundInv'
<1> SUFFICES ASSUME TypeInv, RoundInv, [Next]_vars PROVE RoundInv'
  OBVIOUS
<1> USE DEF caseVars, judgeVars, askVars
<1>a. /\ store \in Seq(Revisions) /\ Len(store) \in Nat
      /\ \A r \in DOMAIN store : OneOutcomeEach(store[r].answers)
      /\ OneOutcomeEach(case.answers)
      /\ case.revision \in Nat /\ round \in 1..LastRound
      /\ case.answers \in SUBSET Answers /\ pending \in SUBSET Answers
  BY LenProperties DEF TypeInv, TypeOK, RoundInv, AnswersAreSingle, Case
<1>b. /\ Len(Record(case)) \in Nat /\ Len(store) <= Len(Record(case))
      /\ \A r \in DOMAIN Record(case) : OneOutcomeEach(Record(case)[r].answers)
  <2> DEFINE mine == [by |-> "this review", answers |-> case.answers]
  <2>1. mine \in Revisions /\ OneOutcomeEach(mine.answers)
    BY <1>a DEF Revisions
  <2>2. Record(case) = Append(store, mine)
    BY DEF Record
  <2> HIDE DEF mine
  <2>3. /\ Len(Append(store, mine)) = Len(store) + 1
        /\ \A r \in DOMAIN Append(store, mine) : OneOutcomeEach(Append(store, mine)[r].answers)
    BY <1>a, <2>1, AppendedStore
  <2> QED
    BY <1>a, <2>2, <2>3
<1>1. CASE LoadContext
  <2>1. PICK r \in DOMAIN store :
            /\ case' = [revision |-> r, answers |-> store[r].answers]
            /\ excluded' = KeysOf(store[r].answers)
    BY <1>1 DEF LoadContext
  <2>2. r <= Len(store) /\ OneOutcomeEach(store[r].answers)
    BY <1>a, LenProperties
  <2>3. /\ node = "load_context" /\ node' = "analyze_repository"
        /\ UNCHANGED <<ci, store, opened, round, questions, pending, stop, filed>>
    BY <1>1 DEF LoadContext
  <2>4. filed' = {} /\ Waits' = {}
    BY <2>3 DEF RoundInv, NothingFiledBeforeLoading, Waits
  <2>5. ExcludedAreAnswered' /\ AnswersAreSingle' /\ StandsOnAStoredRevision'
    BY <2>1, <2>2, <2>3, <1>a DEF ExcludedAreAnswered, AnswersAreSingle, StandsOnAStoredRevision,
                              KeysOf, OneOutcomeEach
  <2> QED
    BY <2>3, <2>4, <2>5
       DEF RoundInv, NothingFiledBeforeLoading, AskingIsAllowed, AskingNodes, PendingAnswersTheRound,
           RejudgesAContinuation, WaitsAreOpenOrAnswered, WaitsAreApart, FiledAnswersEarlierWaits
<1>2. CASE PlainNode
  <2>1. /\ node \notin {"await_answers", "revise_case", "cancelled"}
        /\ node' \in AskingNodes => node \in AskingNodes
        /\ node' \notin {"revise_case", "select_candidates_for_rejudgement", "load_context"}
    BY <1>2 DEF PlainNode, PlainEdges, AskingNodes
  <2> QED
    BY <1>2, <1>a, <2>1, QuietStepsKeepRoundInv DEF PlainNode
<1>3. CASE SelectInitialCandidates
  BY <1>3, <1>a, QuietStepsKeepRoundInv DEF SelectInitialCandidates, AskingNodes
<1>4. CASE LoadPolicyCorpus
  BY <1>4, <1>a, QuietStepsKeepRoundInv DEF LoadPolicyCorpus, Dispatch, AskingNodes
<1>5. ASSUME NEW c \in Candidates, RetrievePolicySet(c) PROVE RoundInv'
  BY <1>5, <1>a, QuietStepsKeepRoundInv DEF RetrievePolicySet, AskingNodes
<1>6. ASSUME NEW c \in Candidates, JudgeCandidate(c) PROVE RoundInv'
  BY <1>6, <1>a, QuietStepsKeepRoundInv DEF JudgeCandidate, AskingNodes
<1>7. CASE JoinBranches
  BY <1>7, <1>a, QuietStepsKeepRoundInv DEF JoinBranches, AskingNodes
<1>8. CASE GenerateQuestions
  <2>1. questions' \cap excluded = {}
    BY <1>8 DEF GenerateQuestions, NewQuestions
  <2>2. /\ node' \in {"seal_case", "write_waiting_synopsis"}
        /\ node' = "write_waiting_synopsis" => questions' # {} /\ ~ci /\ ~stop
        /\ node = "generate_questions"
        /\ UNCHANGED <<ci, store, caseVars, pending, stop, filed>>
    BY <1>8 DEF GenerateQuestions, SealNow
  <2>3. AskingIsAllowed'
    BY <2>1, <2>2 DEF AskingIsAllowed, AskingNodes
  <2>4. WaitsAreOpenOrAnswered'
    BY <2>2 DEF RoundInv, WaitsAreOpenOrAnswered, OpenWait, AnsweredWait, Waits, KeysOf
  <2>5. WaitsAreApart' /\ FiledAnswersEarlierWaits'
    BY <2>2 DEF RoundInv, WaitsAreApart, FiledAnswersEarlierWaits, Waits, KeysOf, OneOutcomeEach
  <2> QED
    BY <2>2, <2>3, <2>4, <2>5
       DEF RoundInv, NothingFiledBeforeLoading, ExcludedAreAnswered, AnswersAreSingle, PendingAnswersTheRound,
           StandsOnAStoredRevision, RejudgesAContinuation, KeysOf, OneOutcomeEach
<1>9. CASE RecordWaitingReview
  <2> DEFINE new == Snapshot("awaiting_answers", case, findings, questions)
  <2>1. /\ node = "record_waiting_review" /\ node' = "await_answers"
        /\ filed' = filed \cup {new}
        /\ UNCHANGED <<ci, store, caseVars, judgeVars, askVars>>
    BY <1>9 DEF RecordWaitingReview
  <2>2. /\ new.status = "awaiting_answers" /\ new.round = round /\ new.case = case
        /\ new.questions = questions /\ new.stopped = stop
    BY DEF Snapshot
  <2> HIDE DEF new
  <2>3. Waits' = Waits \cup {new}
    BY <2>1, <2>2 DEF Waits
  <2>4. /\ questions # {} /\ questions \cap excluded = {} /\ ~ci /\ ~stop
        /\ round < LastRound /\ excluded = KeysOf(case.answers)
    BY <2>1 DEF RoundInv, AskingIsAllowed, AskingNodes, TypeInv, AskingLeavesARound,
                ExcludedAreAnswered
  <2>5. \A s \in Waits : AnsweredWait(s)
    BY <2>1 DEF RoundInv, WaitsAreOpenOrAnswered, OpenWait
  <2>6. AskingIsAllowed'
    BY <2>1, <2>4 DEF AskingIsAllowed
  <2>7. WaitsAreOpenOrAnswered'
    <3>1. ASSUME NEW s \in Waits
          PROVE  /\ s.round < LastRound /\ ~ci' /\ ~s.stopped
                 /\ s.questions \cap KeysOf(s.case.answers) = {}
                 /\ AnsweredWait(s)'
      BY <2>1, <2>5 DEF RoundInv, WaitsAreOpenOrAnswered, AnsweredWait
    <3>2. /\ new.round < LastRound /\ ~ci' /\ ~new.stopped
          /\ new.questions \cap KeysOf(new.case.answers) = {}
          /\ new.round = round' /\ new.questions = questions'
      BY <2>1, <2>2, <2>4
    <3> QED
      BY <2>1, <2>3, <3>1, <3>2 DEF WaitsAreOpenOrAnswered, OpenWait, AnsweredWait
  <2>8. WaitsAreApart'
    <3>1. \A s \in Waits : s.round # new.round /\ s.questions \cap new.questions = {}
      BY <1>a, <2>2, <2>4, <2>5 DEF AnsweredWait, LastRound
    <3> QED
      BY <2>3, <3>1 DEF RoundInv, WaitsAreApart
  <2>9. FiledAnswersEarlierWaits'
    <3>1. \A t \in filed : t.round <= round /\ t.round \in Int
      BY DEF RoundInv, FiledAnswersEarlierWaits, TypeInv, TypeOK, Snapshots
    <3>2. \A t \in filed : ~(new.round < t.round)
      BY <1>a, <2>2, <3>1 DEF LastRound
    <3>3. /\ new.round <= round /\ OneOutcomeEach(new.case.answers) /\ ~(new.round < new.round)
          /\ \A s \in Waits : s.questions \subseteq KeysOf(new.case.answers)
      BY <1>a, <2>2, <2>4, <2>5 DEF AnsweredWait, LastRound
    <3> QED
      BY <2>1, <2>3, <3>2, <3>3 DEF RoundInv, FiledAnswersEarlierWaits
  <2> QED
    BY <1>a, <2>1, <2>6, <2>7, <2>8, <2>9
       DEF RoundInv, NothingFiledBeforeLoading, ExcludedAreAnswered, AnswersAreSingle,
           PendingAnswersTheRound, StandsOnAStoredRevision, RejudgesAContinuation
<1>10. CASE AwaitAnswers
  <2>1. /\ node = "await_answers" /\ node' = "revise_case"
        /\ UNCHANGED <<ci, store, caseVars, judgeVars, questions, filed>>
    BY <1>10 DEF AwaitAnswers
  <2>2. PendingAnswersTheRound'
    BY <1>10, <2>1, OutcomesAnswerTheQuestions DEF AwaitAnswers, PendingAnswersTheRound, OneOutcomeEach, KeysOf
  <2>3. AskingIsAllowed'
    BY <2>1 DEF RoundInv, AskingIsAllowed, AskingNodes
  <2>4. WaitsAreOpenOrAnswered'
    BY <2>1 DEF RoundInv, WaitsAreOpenOrAnswered, OpenWait, AnsweredWait, Waits
  <2>5. WaitsAreApart' /\ FiledAnswersEarlierWaits'
    BY <2>1 DEF RoundInv, WaitsAreApart, FiledAnswersEarlierWaits, Waits
  <2> QED
    BY <2>1, <2>2, <2>3, <2>4, <2>5
       DEF RoundInv, NothingFiledBeforeLoading, ExcludedAreAnswered, AnswersAreSingle,
           StandsOnAStoredRevision, RejudgesAContinuation
<1>11. CASE ReviseCase
  <2>1. /\ node = "revise_case" /\ pending # {}
        /\ KeysOf(pending) \cap KeysOf(case.answers) = {}
        /\ case'.answers = case.answers \cup pending
        /\ previousAnswers' = case.answers /\ opened' = TRUE
        /\ round' = round + 1
        /\ excluded' = excluded \cup KeysOf(pending)
        /\ node' \in {"seal_case", "select_candidates_for_rejudgement"}
        /\ UNCHANGED <<ci, store, judgeVars, askVars, filed>>
    BY <1>11 DEF ReviseCase, NextRound
  <2>2. KeysOf(pending) = questions /\ OneOutcomeEach(pending)
    BY <2>1 DEF RoundInv, PendingAnswersTheRound
  <2>3. ExcludedAreAnswered'
    <3>1. excluded' = KeysOf(case.answers \cup pending)
      BY <2>1, KeysOfUnion DEF RoundInv, ExcludedAreAnswered
    <3>2. KeysOf(case.answers)' = KeysOf(case.answers \cup pending)
      BY <2>1 DEF KeysOf
    <3> QED
      BY <3>1, <3>2 DEF ExcludedAreAnswered
  <2>4. AnswersAreSingle'
    <3>1. OneOutcomeEach(case.answers \cup pending)
      BY <1>a, <2>1, <2>2, RecordingKeepsAnswersSingle
    <3> QED
      BY <1>a, <2>1, <3>1 DEF AnswersAreSingle, OneOutcomeEach
  <2>5. RejudgesAContinuation'
    <3>1. PICK a \in pending : TRUE
      BY <2>1
    <3>2. a \notin case.answers
      BY <2>1, <3>1 DEF KeysOf
    <3> QED
      BY <2>1, <3>1, <3>2 DEF RejudgesAContinuation
  <2>6. WaitsAreOpenOrAnswered'
    <3>1. Waits' = Waits
      BY <2>1 DEF Waits
    <3>2. ASSUME NEW s \in Waits PROVE s.round < round' /\ s.questions \subseteq excluded'
      <4>1. s.round \in Nat
        BY DEF Waits, TypeInv, TypeOK, Snapshots
      <4>2. CASE OpenWait(s)
        BY <1>a, <2>1, <2>2, <4>1, <4>2 DEF OpenWait, LastRound
      <4>3. CASE AnsweredWait(s)
        BY <1>a, <2>1, <4>1, <4>3 DEF AnsweredWait, LastRound
      <4> QED
        BY <4>2, <4>3 DEF RoundInv, WaitsAreOpenOrAnswered
    <3> QED
      BY <2>1, <3>1, <3>2 DEF RoundInv, WaitsAreOpenOrAnswered, AnsweredWait, KeysOf
  <2>7. WaitsAreApart'
    BY <2>1 DEF RoundInv, WaitsAreApart, Waits
  <2>8. FiledAnswersEarlierWaits'
    <3>1. \A t \in filed : t.round \in Nat
      BY DEF TypeInv, TypeOK, Snapshots
    <3>2. \A t \in filed : t.round <= round'
      BY <1>a, <2>1, <3>1 DEF RoundInv, FiledAnswersEarlierWaits, LastRound
    <3> QED
      BY <2>1, <3>2 DEF RoundInv, FiledAnswersEarlierWaits, Waits, OneOutcomeEach, KeysOf
  <2> QED
    BY <2>1, <2>3, <2>4, <2>5, <2>6, <2>7, <2>8
       DEF RoundInv, NothingFiledBeforeLoading, AskingIsAllowed, AskingNodes,
           PendingAnswersTheRound, StandsOnAStoredRevision
<1>12. CASE SelectRejudgements
  BY <1>12, <1>a, QuietStepsKeepRoundInv DEF SelectRejudgements, Dispatch, AskingNodes
<1>13. CASE SealCase
  <2>1. store' = store \/ store' = Record(case)
    BY <1>13 DEF SealCase
  <2> QED
    BY <1>13, <1>a, <1>b, <2>1, QuietStepsKeepRoundInv DEF SealCase, AskingNodes
<1>14. CASE RecordReview
  BY <1>14, <1>a, FilingKeepsRoundInv DEF RecordReview, Ended
<1>15. CASE RecordFailure
  <2>1. store' = store \/ store' = Record(case)
    BY <1>15 DEF RecordFailure, StoreAfterFailure
  <2>2. node \notin {"await_answers", "revise_case", "cancelled"} /\ node' = "failed"
    BY <1>15 DEF RecordFailure, Raises
  <2>3. CASE filed' = filed
    BY <1>15, <1>a, <1>b, <2>1, <2>2, <2>3, QuietStepsKeepRoundInv DEF RecordFailure, AskingNodes
  <2>4. CASE filed' = filed \cup {Snapshot("failed", case, Merged, {})}
    BY <1>15, <1>a, <1>b, <2>1, <2>2, <2>4, FilingKeepsRoundInv DEF RecordFailure, Ended
  <2> QED
    BY <1>15, <2>3, <2>4 DEF RecordFailure
<1>16. CASE OthersRecord
  <2> DEFINE other == [by |-> "another", answers |-> {}]
  <2>1. other \in Revisions /\ OneOutcomeEach(other.answers)
    BY DEF Revisions, OneOutcomeEach
  <2>2. store' = Append(store, other)
    BY <1>16 DEF OthersRecord
  <2> HIDE DEF other
  <2>3. /\ Len(Append(store, other)) = Len(store) + 1
        /\ \A r \in DOMAIN Append(store, other) : OneOutcomeEach(Append(store, other)[r].answers)
    BY <1>a, <2>1, AppendedStore
  <2>4. /\ Len(store') \in Nat /\ Len(store) <= Len(store')
        /\ \A r \in DOMAIN store' : OneOutcomeEach(store'[r].answers)
    BY <1>a, <2>2, <2>3
  <2>5. UNCHANGED <<node, ci, caseVars, askVars, filed>>
    BY <1>16 DEF OthersRecord
  <2> QED
    BY <1>a, <2>4, <2>5, QuietStepsKeepRoundInv
<1>17. CASE UNCHANGED vars
  BY <1>17, <1>a, QuietStepsKeepRoundInv DEF vars
<1>18. CASE Cancel
  <2>1. /\ filed' = filed \cup {Snapshot("cancelled", case, findings, questions)}
        /\ node' = "cancelled" /\ node' \in Ended /\ store' = store
        /\ UNCHANGED <<ci, caseVars, questions, stop>>
    BY <1>18 DEF Cancel, Ended
  <2>2. \A r \in DOMAIN store' : OneOutcomeEach(store'[r].answers)
    BY <1>a, <2>1
  <2>3. Len(store') \in Nat /\ Len(store) <= Len(store')
    BY <1>a, <2>1
  <2> QED
    BY <1>a, <2>1, <2>2, <2>3, FilingKeepsRoundInv
<1>19. CASE CancelRun
  BY <1>19, <1>a, QuietStepsKeepRoundInv DEF CancelRun, AskingNodes
<1> QED
  BY <1>1, <1>2, <1>3, <1>4, <1>5, <1>6, <1>7, <1>8, <1>9, <1>10, <1>11, <1>12,
     <1>13, <1>14, <1>15, <1>16, <1>17, <1>18, <1>19 DEF Next, GraphStep, Terminating

-----------------------------------------------------------------------------
\* What it gives

\* The invariant holds at every node of every review.
THEOREM RoundsAreSound == Spec => [](TypeInv /\ RoundInv)
<1>1. Init => TypeInv /\ RoundInv
  BY TypeInvInitially, RoundInvInitially
<1>2. (TypeInv /\ RoundInv) /\ [Next]_vars => (TypeInv /\ RoundInv)'
  BY TypeInvPreserved, RoundInvPreserved
<1> QED
  BY <1>1, <1>2, PTL DEF Spec

\* No question is asked twice in one review, nor one its case answers: what
\* excluded_equivalence_keys is carried from node to node for.
THEOREM AsksOnce == Spec => []NeverAsksTwice
<1>1. TypeInv /\ RoundInv => NeverAsksTwice
  BY DEF RoundInv, WaitsAreApart, WaitsAreOpenOrAnswered, NeverAsksTwice
<1> QED
  BY <1>1, RoundsAreSound, PTL

\* The case never refuses a round's answers: no ValueError of with_answers,
\* open_revision or validate_continuation_of can reach revise_case.
THEOREM RoundsAreRecorded == Spec => []ARoundIsNeverRefused
<1>1. TypeInv /\ RoundInv => ARoundIsNeverRefused
  <2> SUFFICES ASSUME TypeInv, RoundInv PROVE ARoundIsNeverRefused
    OBVIOUS
  <2>1. ASSUME node = "revise_case"
        PROVE  /\ pending # {}
               /\ KeysOf(pending) \cap KeysOf(case.answers) = {}
               /\ OneOutcomeEach(pending)
    <3>1. KeysOf(pending) = questions /\ OneOutcomeEach(pending)
      BY <2>1 DEF RoundInv, PendingAnswersTheRound
    <3>2. questions # {} /\ questions \cap KeysOf(case.answers) = {}
      BY <2>1 DEF RoundInv, AskingIsAllowed, AskingNodes, ExcludedAreAnswered
    <3>3. KeysOf({}) = {}
      BY DEF KeysOf
    <3> QED
      BY <3>1, <3>2, <3>3
  <2> QED
    BY <2>1 DEF RoundInv, StandsOnAStoredRevision, RejudgesAContinuation, ARoundIsNeverRefused
<1> QED
  BY <1>1, RoundsAreSound, PTL

\* A review waits at most once a round, never in the last one, never in CI and
\* never after somebody asked it to stop (_after_questions).
THEOREM WaitsAreBounded == Spec => []AtMostTwoWaits
<1>1. TypeInv /\ RoundInv => AtMostTwoWaits
  BY DEF RoundInv, WaitsAreApart, WaitsAreOpenOrAnswered, AtMostTwoWaits
<1> QED
  BY <1>1, RoundsAreSound, PTL

\* Every question a filed wait asked has exactly one outcome in what the review
\* files of any later round, the failed snapshots included.
THEOREM OutcomesAreRecorded == Spec => []EveryQuestionHasAnOutcome
<1>1. TypeInv /\ RoundInv => EveryQuestionHasAnOutcome
  <2> SUFFICES ASSUME TypeInv, RoundInv,
                      NEW s \in Waits, NEW t \in filed, t.round > s.round,
                      NEW q \in s.questions
               PROVE  \E a \in t.case.answers :
                          a.key = q /\ \A b \in t.case.answers : b.key = q => b = a
    BY DEF EveryQuestionHasAnOutcome
  <2>1. s.round \in Nat /\ t.round \in Nat
    BY DEF Waits, TypeInv, TypeOK, Snapshots
  <2>2. q \in KeysOf(t.case.answers) /\ OneOutcomeEach(t.case.answers)
    BY <2>1 DEF RoundInv, FiledAnswersEarlierWaits
  <2>3. PICK a \in t.case.answers : a.key = q
    BY <2>2 DEF KeysOf
  <2> QED
    BY <2>2, <2>3 DEF OneOutcomeEach
<1> QED
  BY <1>1, RoundsAreSound, PTL

(***************************************************************************)
(* What a review leaves behind: the case revision it writes, the snapshots *)
(* it files, and the answers the verdicts in them were reached on.         *)
(***************************************************************************)
SealedNodes == {"write_final_synopsis", "compose_final_review", "record_review"}
EarlyNodes ==
    {"load_context", "analyze_repository", "detect_candidates", "calculate_delta",
     "select_initial_candidates", "load_policy_corpus"}
JudgedNodes ==
    {"generate_questions", "write_waiting_synopsis", "compose_waiting_review",
     "record_waiting_review", "await_answers", "seal_case"} \cup SealedNodes

\* Before the case is loaded no revision is opened.
NothingOpenBeforeLoading == node = "load_context" => ~opened

\* It opens one by recording an answer, which counts the round.
OpenedAfterTheFirstRound == opened => round > 1

\* The number a review opened is the next one, or others have taken it since.
OpenedRevisionIsNext ==
    opened => case.revision \in 1..(Len(store) + 1)

\* What this review wrote is its own case, and it writes it on the way out.
MineIsTheCase ==
    \A r \in DOMAIN store : store[r].by = "this review" =>
        /\ opened /\ r = case.revision /\ store[r].answers = case.answers
        /\ node \in SealedNodes \cup Ended

\* The case is stored until this review adds to it, and again once it is sealed.
CaseIsStored ==
    node \notin {"load_context", "failed"} /\ (~opened \/ node \in SealedNodes) =>
        case.revision \in DOMAIN store /\ store[case.revision].answers = case.answers

\* Nothing but waits is filed before the end, and then one snapshot is; only one
\* stopped in a later wait may name what is not stored.
Named(s) == NamesAStoredRevision(s) \/ (s.status = "cancelled" /\ s.round > 1)
OneEnding ==
    /\ \A s \in filed : s.status # "awaiting_answers" => node \in Ended /\ Named(s)
    /\ \A s, t \in filed :
           s.status # "awaiting_answers" /\ t.status # "awaiting_answers" => s = t

FilingInv ==
    /\ NothingOpenBeforeLoading /\ OpenedAfterTheFirstRound /\ OpenedRevisionIsNext
    /\ MineIsTheCase /\ CaseIsStored /\ OneEnding

\* Branches are under way only while candidates are judged, or where that was cut short.
BranchesAreJudging == node \notin {"review_candidate", "failed", "cancelled"} => branch = Idle

\* A finished branch judged its candidate on the case as it stands.
BranchesJudgeTheCase ==
    \A c \in Candidates : branch[c] = "done" => output[c][c].judgedOn = case.answers

\* Until the candidates are dispatched it is the first round.
EarlyIsTheFirstRound == node \in EarlyNodes => round = 1

\* After an answer every candidate is judged again.
RejudgesEverything == node = "review_candidate" /\ round > 1 => selected = Candidates

\* From the barrier on, the verdicts of a later round rest on its answers.
VerdictsAreCurrent ==
    node \in JudgedNodes /\ round > 1 /\ ~stop =>
        /\ DOMAIN findings = Candidates
        /\ \A c \in Candidates : findings[c].judgedOn = case.answers

VerdictInv ==
    /\ BranchesAreJudging /\ BranchesJudgeTheCase /\ EarlyIsTheFirstRound
    /\ RejudgesEverything /\ VerdictsAreCurrent /\ VerdictsFollowTheAnswers

-----------------------------------------------------------------------------
\* The case revision and the ending

LEMMA NodesApart ==
    /\ SealedNodes \cap Ended = {} /\ SealedNodes \cap AskingNodes = {}
    /\ Ended \cap AskingNodes = {} /\ "load_context" \notin SealedNodes \cup Ended
    /\ "seal_case" \notin SealedNodes \cup Ended
BY DEF SealedNodes, Ended, AskingNodes

LEMMA FilingInvInitially == Init => FilingInv
<1> SUFFICES ASSUME Init PROVE FilingInv
  OBVIOUS
<1>1. \A r \in DOMAIN store : store[r].by = "another"
  BY ConstantsAssumption DEF Init
<1> QED
  BY <1>1 DEF Init, FilingInv, NothingOpenBeforeLoading, OpenedAfterTheFirstRound, OpenedRevisionIsNext, MineIsTheCase,
              CaseIsStored, OneEnding

\* The rows of the store stay, whoever writes the next one.
LEMMA RowsStay ==
    ASSUME NEW s \in Seq(Revisions), NEW revision \in Revisions
    PROVE  /\ Len(s) \in Nat /\ DOMAIN s = 1..Len(s)
           /\ DOMAIN Append(s, revision) = 1..(Len(s) + 1)
           /\ Len(Append(s, revision)) = Len(s) + 1
           /\ \A r \in DOMAIN s : Append(s, revision)[r] = s[r]
           /\ Append(s, revision)[Len(s) + 1] = revision
           /\ \A r \in DOMAIN Append(s, revision) : r \in DOMAIN s \/ r = Len(s) + 1
<1>1. /\ Len(s) \in Nat /\ DOMAIN s = 1..Len(s)
      /\ DOMAIN Append(s, revision) = 1..(Len(s) + 1)
      /\ Len(Append(s, revision)) = Len(s) + 1
      /\ \A r \in 1..Len(s) : Append(s, revision)[r] = s[r]
      /\ Append(s, revision)[Len(s) + 1] = revision
  BY AppendProperties, LenProperties
<1> QED
  BY <1>1

\* A step that leaves the case and the filed snapshots alone, while others may
\* write a revision.
LEMMA QuietStepsKeepFilingInv ==
    ASSUME FilingInv,
           UNCHANGED <<case, opened, round, filed>>,
           Len(store) \in Nat, Len(store') \in Nat, Len(store) <= Len(store'),
           case.revision \in Nat,
           \A r \in DOMAIN store : r \in DOMAIN store' /\ store'[r] = store[r],
           \A r \in DOMAIN store' : r \in DOMAIN store \/ store'[r].by = "another",
           node' \in SealedNodes => node \in SealedNodes,
           node \in SealedNodes => node' \in SealedNodes,
           node \in Ended => node' = node,
           node' \in Ended => node' = node,
           (node = "load_context") <=> (node' = "load_context")
    PROVE  FilingInv'
<1>1. NothingOpenBeforeLoading' /\ OpenedAfterTheFirstRound' /\ OpenedRevisionIsNext'
  BY DEF FilingInv, NothingOpenBeforeLoading, OpenedAfterTheFirstRound, OpenedRevisionIsNext
<1>2. MineIsTheCase'
  <2>1. ASSUME NEW r \in DOMAIN store', store'[r].by = "this review"
        PROVE  /\ opened /\ r = case.revision /\ store'[r].answers = case.answers
               /\ node \in SealedNodes \cup Ended
    <3>1. r \in DOMAIN store /\ store'[r] = store[r]
      BY <2>1
    <3> QED
      BY <2>1, <3>1 DEF FilingInv, MineIsTheCase
  <2> QED
    BY <2>1 DEF MineIsTheCase
<1>3. CaseIsStored'
  BY DEF FilingInv, CaseIsStored, Ended
<1>4. \A s \in filed : Named(s) => Named(s)'
  BY DEF Named, NamesAStoredRevision
<1>5. OneEnding'
  BY <1>4 DEF FilingInv, OneEnding
<1> QED
  BY <1>1, <1>2, <1>3, <1>5 DEF FilingInv

LEMMA FilingInvPreserved == TypeInv /\ FilingInv /\ [Next]_vars => FilingInv'
<1> SUFFICES ASSUME TypeInv, FilingInv, [Next]_vars PROVE FilingInv'
  OBVIOUS
<1> USE DEF caseVars, judgeVars, askVars
<1>a. /\ store \in Seq(Revisions) /\ Len(store) \in Nat /\ DOMAIN store = 1..Len(store)
      /\ case.revision \in Nat /\ round \in 1..3
  BY LenProperties DEF TypeInv, TypeOK, Case, LastRound
<1> DEFINE mine == [by |-> "this review", answers |-> case.answers]
<1>b. /\ Record(case) = Append(store, mine) /\ mine \in Revisions
      /\ mine.by = "this review" /\ mine.answers = case.answers
  BY DEF TypeInv, TypeOK, Case, Revisions, Record
<1> HIDE DEF mine
\* Sealing an opened revision whose number is free writes it at that number.
<1>c. ASSUME opened, Free(case.revision)
      PROVE  /\ case.revision = Len(store) + 1
             /\ DOMAIN Record(case) = 1..(Len(store) + 1)
             /\ Len(Record(case)) = Len(store) + 1
             /\ \A r \in DOMAIN store : Record(case)[r] = store[r]
             /\ Record(case)[case.revision] = mine
             /\ \A r \in DOMAIN Record(case) : r \in DOMAIN store \/ r = case.revision
  <2>1. case.revision = Len(store) + 1
    BY <1>a, <1>c DEF FilingInv, OpenedRevisionIsNext, Free
  <2>2. /\ DOMAIN Append(store, mine) = 1..(Len(store) + 1)
        /\ Len(Append(store, mine)) = Len(store) + 1
        /\ \A r \in DOMAIN store : Append(store, mine)[r] = store[r]
        /\ Append(store, mine)[Len(store) + 1] = mine
        /\ \A r \in DOMAIN Append(store, mine) : r \in DOMAIN store \/ r = Len(store) + 1
    BY <1>a, <1>b, RowsStay
  <2> QED
    BY <1>b, <2>1, <2>2
\* A row is this review's or another's.
<1>d. \A r \in DOMAIN store : store[r].by \in {"this review", "another"}
  <2>1. \A r \in DOMAIN store : store[r] \in Revisions
    BY <1>a, ElementOfSeq
  <2>2. \A revision \in Revisions : revision.by \in {"this review", "another"}
    BY DEF Revisions
  <2> QED
    BY <2>1, <2>2
<1>1. CASE LoadContext
  <2>1. PICK r \in DOMAIN store : case' = [revision |-> r, answers |-> store[r].answers]
    BY <1>1 DEF LoadContext
  <2>2. /\ node = "load_context" /\ node' = "analyze_repository" /\ ~opened
        /\ UNCHANGED <<store, opened, round, filed>>
    BY <1>1 DEF LoadContext, FilingInv, NothingOpenBeforeLoading
  <2>3. MineIsTheCase'
    BY <2>2, NodesApart DEF FilingInv, MineIsTheCase
  <2>4. OneEnding'
    BY <2>2, NodesApart DEF FilingInv, OneEnding
  <2>5. CaseIsStored'
    BY <2>1, <2>2 DEF CaseIsStored
  <2> QED
    BY <2>2, <2>3, <2>4, <2>5 DEF FilingInv, NothingOpenBeforeLoading, OpenedAfterTheFirstRound, OpenedRevisionIsNext
<1>2. CASE PlainNode
  <2>1. /\ node \notin {"load_context", "seal_case"} \cup Ended
        /\ node' \notin {"load_context", "seal_case"} \cup Ended
        /\ node' \in SealedNodes <=> node \in SealedNodes
    BY <1>2 DEF PlainNode, PlainEdges, SealedNodes, Ended
  <2> QED
    BY <1>2, <1>a, <2>1, QuietStepsKeepFilingInv DEF PlainNode
<1>3. CASE SelectInitialCandidates
  <2>1. /\ node = "select_initial_candidates" /\ node' \in {"failed", "load_policy_corpus"}
        /\ UNCHANGED <<store, case, opened, round, filed>>
    BY <1>3 DEF SelectInitialCandidates
  <2>2. OneEnding'
    BY <2>1 DEF FilingInv, OneEnding, Ended
  <2> QED
    BY <2>1, <2>2
       DEF FilingInv, NothingOpenBeforeLoading, OpenedAfterTheFirstRound, OpenedRevisionIsNext, MineIsTheCase,
           CaseIsStored, SealedNodes, Ended
<1>4. CASE LoadPolicyCorpus
  BY <1>4, <1>a, QuietStepsKeepFilingInv DEF LoadPolicyCorpus, Dispatch, SealedNodes, Ended
<1>5. ASSUME NEW c \in Candidates, RetrievePolicySet(c) PROVE FilingInv'
  BY <1>5, <1>a, QuietStepsKeepFilingInv DEF RetrievePolicySet, SealedNodes, Ended
<1>6. ASSUME NEW c \in Candidates, JudgeCandidate(c) PROVE FilingInv'
  BY <1>6, <1>a, QuietStepsKeepFilingInv DEF JudgeCandidate, SealedNodes, Ended
<1>7. CASE JoinBranches
  BY <1>7, <1>a, QuietStepsKeepFilingInv DEF JoinBranches, SealedNodes, Ended
<1>8. CASE GenerateQuestions
  <2>1. node' \in {"seal_case", "write_waiting_synopsis"}
    BY <1>8 DEF GenerateQuestions
  <2> QED
    BY <1>8, <1>a, <2>1, QuietStepsKeepFilingInv DEF GenerateQuestions, SealedNodes, Ended
<1>9. CASE RecordWaitingReview
  <2> DEFINE new == Snapshot("awaiting_answers", case, findings, questions)
  <2>1. /\ node = "record_waiting_review" /\ node' = "await_answers"
        /\ filed' = filed \cup {new} /\ new.status = "awaiting_answers"
        /\ UNCHANGED <<store, case, opened, round>>
    BY <1>9 DEF RecordWaitingReview, Snapshot
  <2> HIDE DEF new
  <2>2. OneEnding'
    BY <2>1 DEF FilingInv, OneEnding, Ended
  <2>3. MineIsTheCase' /\ CaseIsStored'
    BY <2>1 DEF FilingInv, MineIsTheCase, CaseIsStored, SealedNodes, Ended
  <2> QED
    BY <2>1, <2>2, <2>3 DEF FilingInv, NothingOpenBeforeLoading, OpenedAfterTheFirstRound, OpenedRevisionIsNext
<1>10. CASE AwaitAnswers
  BY <1>10, <1>a, QuietStepsKeepFilingInv DEF AwaitAnswers, SealedNodes, Ended
<1>11. CASE ReviseCase
  <2>1. /\ node = "revise_case" /\ node' \in {"seal_case", "select_candidates_for_rejudgement"}
        /\ case'.revision = IF opened THEN case.revision ELSE Len(store) + 1
        /\ opened' = TRUE /\ round' = round + 1 /\ UNCHANGED <<store, filed>>
    BY <1>11 DEF ReviseCase, NextRound
  <2>2. OpenedRevisionIsNext'
    BY <1>a, <2>1 DEF FilingInv, OpenedRevisionIsNext
  <2>3. MineIsTheCase' /\ CaseIsStored' /\ OneEnding' /\ NothingOpenBeforeLoading'
    BY <2>1 DEF FilingInv, MineIsTheCase, CaseIsStored, OneEnding, NothingOpenBeforeLoading,
                SealedNodes, Ended
  <2>4. OpenedAfterTheFirstRound'
    BY <1>a, <2>1 DEF OpenedAfterTheFirstRound
  <2> QED
    BY <2>2, <2>3, <2>4 DEF FilingInv
<1>12. CASE SelectRejudgements
  BY <1>12, <1>a, QuietStepsKeepFilingInv DEF SelectRejudgements, Dispatch, SealedNodes, Ended
<1>13. CASE SealCase
  <2>1. /\ node = "seal_case" /\ node' = "write_final_synopsis"
        /\ node' \in SealedNodes /\ UNCHANGED <<case, opened, round, filed>>
    BY <1>13 DEF SealCase, SealedNodes
  <2>2. \A s \in filed : s.status = "awaiting_answers"
    BY <2>1, NodesApart DEF FilingInv, OneEnding
  <2>3. CASE opened
    <3>1. Free(case.revision) /\ store' = Record(case)
      BY <1>13, <2>3 DEF SealCase
    <3>2. MineIsTheCase'
      <4>1. \A r \in DOMAIN store : store[r].by # "this review"
        BY <2>1, NodesApart DEF FilingInv, MineIsTheCase
      <4> QED
        BY <1>b, <1>c, <2>1, <2>3, <3>1, <4>1 DEF MineIsTheCase
    <3>3. CaseIsStored'
      <4>1. case.revision \in DOMAIN store' /\ store'[case.revision].answers = case.answers
        <5>1. Len(store) + 1 \in 1..(Len(store) + 1)
          BY <1>a
        <5>2. case.revision \in DOMAIN store' /\ store'[case.revision] = mine
          BY <1>c, <2>3, <3>1, <5>1
        <5> QED
          BY <1>b, <5>2
      <4> QED
        BY <2>1, <4>1 DEF CaseIsStored
    <3>4. OpenedRevisionIsNext' /\ NothingOpenBeforeLoading' /\ OneEnding'
      BY <1>a, <1>c, <2>1, <2>2, <2>3, <3>1
         DEF OpenedRevisionIsNext, NothingOpenBeforeLoading, OneEnding
    <3>5. OpenedAfterTheFirstRound'
      BY <2>1 DEF FilingInv, OpenedAfterTheFirstRound
    <3> QED
      BY <3>2, <3>3, <3>4, <3>5 DEF FilingInv
  <2>4. CASE ~opened
    <3>1. store' = store
      BY <1>13, <2>4 DEF SealCase
    <3> QED
      BY <2>1, <2>2, <2>4, <3>1
         DEF FilingInv, NothingOpenBeforeLoading, OpenedAfterTheFirstRound, OpenedRevisionIsNext, MineIsTheCase,
             CaseIsStored, OneEnding
  <2> QED
    BY <2>3, <2>4
<1>14. CASE RecordReview
  <2>0. PICK new : new = Snapshot("completed", case, findings, questions)
    OBVIOUS
  <2>1. /\ node = "record_review" /\ node' = "end"
        /\ filed' = filed \cup {new} /\ new.case = case
        /\ UNCHANGED <<store, case, opened, round>>
    BY <1>14, <2>0 DEF RecordReview, Snapshot
  <2>2. \A s \in filed : s.status = "awaiting_answers"
    BY <2>1 DEF FilingInv, OneEnding, Ended
  <2>3. Named(new)'
    BY <2>1 DEF FilingInv, CaseIsStored, SealedNodes, Named, NamesAStoredRevision
  <2>4. OneEnding'
    BY <2>1, <2>2, <2>3 DEF OneEnding, Ended
  <2> QED
    BY <2>1, <2>4 DEF FilingInv, NothingOpenBeforeLoading, OpenedAfterTheFirstRound, OpenedRevisionIsNext, MineIsTheCase,
                      CaseIsStored, SealedNodes, Ended
<1>15. CASE RecordFailure
  <2>1. /\ node \notin Ended /\ node' = "failed" /\ UNCHANGED <<case, opened, round>>
        /\ node' \in Ended
    BY <1>15 DEF RecordFailure, Raises, Ended
  <2>2. \A s \in filed : s.status = "awaiting_answers"
    BY <2>1 DEF FilingInv, OneEnding
  <2>3. CaseIsStored' /\ NothingOpenBeforeLoading' /\ OpenedAfterTheFirstRound'
    BY <2>1 DEF FilingInv, CaseIsStored, NothingOpenBeforeLoading, OpenedAfterTheFirstRound, SealedNodes
  <2>4. CASE node \in {"load_context", "analyze_repository"}
    <3>1. UNCHANGED <<store, filed>>
      BY <1>15, <2>4 DEF RecordFailure
    <3> QED
      BY <2>1, <2>2, <2>3, <3>1
         DEF FilingInv, OpenedRevisionIsNext, MineIsTheCase, OneEnding
  <2>5. CASE node \notin {"load_context", "analyze_repository"}
    <3>0. PICK new : new = Snapshot("failed", case, Merged, {})
      OBVIOUS
    <3>1. /\ store' = IF opened /\ Free(case.revision) THEN Record(case) ELSE store
          /\ filed' = filed \cup {new} /\ new.case = case /\ new.status = "failed"
      BY <1>15, <2>5, <3>0 DEF RecordFailure, StoreAfterFailure, Snapshot
    <3>2. /\ MineIsTheCase' /\ OpenedRevisionIsNext'
          /\ case.revision \in DOMAIN store'
          /\ \/ store'[case.revision].answers = case.answers
             \/ store'[case.revision].by = "another"
      <4>1. CASE opened /\ Free(case.revision)
        <5>1. store' = Record(case)
          BY <3>1, <4>1
        <5>2. MineIsTheCase'
          BY <1>b, <1>c, <2>1, <4>1, <5>1 DEF FilingInv, MineIsTheCase
        <5>3. OpenedRevisionIsNext' /\ case.revision \in DOMAIN store'
          BY <1>a, <1>c, <2>1, <4>1, <5>1 DEF OpenedRevisionIsNext
        <5>4. store'[case.revision].answers = case.answers
          BY <1>b, <1>c, <4>1, <5>1
        <5> QED
          BY <5>2, <5>3, <5>4
      <4>2. CASE ~opened
        BY <2>1, <2>5, <3>1, <4>2
           DEF FilingInv, CaseIsStored, MineIsTheCase, OpenedRevisionIsNext, Ended
      <4>3. CASE opened /\ ~Free(case.revision)
        <5>1. store' = store /\ case.revision \in DOMAIN store
          BY <3>1, <4>3 DEF Free
        <5>2. store[case.revision].by = "this review" \/ store[case.revision].by = "another"
          BY <1>d, <5>1
        <5> QED
          BY <2>1, <4>3, <5>1, <5>2 DEF FilingInv, MineIsTheCase, OpenedRevisionIsNext
      <4> QED
        BY <4>1, <4>2, <4>3
    <3>3. Named(new)'
      BY <2>1, <3>1, <3>2 DEF Named, NamesAStoredRevision
    <3>4. OneEnding'
      BY <2>1, <2>2, <3>1, <3>3 DEF OneEnding
    <3> QED
      BY <2>3, <3>2, <3>4 DEF FilingInv
  <2> QED
    BY <2>4, <2>5
<1>16. CASE OthersRecord
  <2> DEFINE other == [by |-> "another", answers |-> {}]
  <2>1. other \in Revisions /\ other.by = "another"
    BY DEF Revisions
  <2>2. store' = Append(store, other)
    BY <1>16 DEF OthersRecord
  <2> HIDE DEF other
  <2>3. /\ Len(store') \in Nat /\ Len(store) <= Len(store')
        /\ \A r \in DOMAIN store : r \in DOMAIN store' /\ store'[r] = store[r]
        /\ \A r \in DOMAIN store' : r \in DOMAIN store \/ store'[r].by = "another"
    BY <1>a, <2>1, <2>2, RowsStay
  <2>4. UNCHANGED <<node, case, opened, round, filed>>
    BY <1>16 DEF OthersRecord
  <2> QED
    BY <1>a, <2>3, <2>4, QuietStepsKeepFilingInv
<1>17. CASE UNCHANGED vars
  BY <1>17, <1>a, QuietStepsKeepFilingInv DEF vars
<1>18. CASE Cancel
  <2>0. PICK new : new = Snapshot("cancelled", case, findings, questions)
    OBVIOUS
  <2>1. /\ node = "await_answers" /\ node' = "cancelled"
        /\ filed' = filed \cup {new} /\ new.status = "cancelled"
        /\ new.case = case /\ new.round = round
        /\ UNCHANGED <<store, case, opened, round>>
    BY <1>18, <2>0 DEF Cancel, Snapshot
  <2>2. \A s \in filed : s.status = "awaiting_answers"
    BY <2>1 DEF FilingInv, OneEnding, Ended
  <2>3. Named(new)'
    <3>1. CASE opened
      BY <2>1, <3>1 DEF FilingInv, OpenedAfterTheFirstRound, Named
    <3>2. CASE ~opened
      BY <2>1, <3>2 DEF FilingInv, CaseIsStored, Named, NamesAStoredRevision
    <3> QED
      BY <3>1, <3>2
  <2>4. OneEnding'
    BY <2>1, <2>2, <2>3 DEF OneEnding, Ended
  <2> QED
    BY <2>1, <2>4 DEF FilingInv, NothingOpenBeforeLoading, OpenedAfterTheFirstRound,
                      OpenedRevisionIsNext, MineIsTheCase, CaseIsStored, SealedNodes, Ended
<1>19. CASE CancelRun
  <2>1. /\ node \notin Ended \cup {"load_context"} /\ node' = "cancelled"
        /\ UNCHANGED <<store, case, opened, round, filed>>
    BY <1>19 DEF CancelRun
  <2>2. OneEnding'
    BY <2>1 DEF FilingInv, OneEnding, Ended
  <2> QED
    BY <2>1, <2>2
       DEF FilingInv, NothingOpenBeforeLoading, OpenedAfterTheFirstRound, OpenedRevisionIsNext,
           MineIsTheCase, CaseIsStored, SealedNodes, Ended
<1> QED
  BY <1>1, <1>2, <1>3, <1>4, <1>5, <1>6, <1>7, <1>8, <1>9, <1>10, <1>11, <1>12,
     <1>13, <1>14, <1>15, <1>16, <1>17, <1>18, <1>19 DEF Next, GraphStep, Terminating

-----------------------------------------------------------------------------
\* The verdicts

\* A merge of branches that all finished is their verdicts, whatever the
\* findings held before.
LEMMA MergedIsTheVerdicts ==
    ASSUME TypeInv, \A c \in Candidates : branch[c] = "done"
    PROVE  /\ DOMAIN Merged = Candidates
           /\ \A c \in Candidates : Merged[c] = output[c][c]
<1>1. \A c \in Candidates : Writers(c) = {c}
  BY DEF TypeInv, BranchesWriteTheirOwn, Writers
<1>2. ASSUME NEW c \in Candidates PROVE LastWriter(c) = c
  <2>1. \A other \in Writers(c) : other <= c
    BY <1>1 DEF Candidates
  <2> QED
    BY <1>1, <2>1 DEF LastWriter
<1>3. DOMAIN findings \subseteq Candidates
  BY DEF TypeInv, TypeOK, FindingMaps
<1> QED
  BY <1>1, <1>2, <1>3 DEF Merged

VerdictCore ==
    /\ BranchesAreJudging /\ BranchesJudgeTheCase /\ EarlyIsTheFirstRound
    /\ RejudgesEverything /\ VerdictsAreCurrent

LEMMA VerdictInvInitially == Init => VerdictInv
BY DEF Init, VerdictInv, BranchesAreJudging, BranchesJudgeTheCase, EarlyIsTheFirstRound, Idle,
       RejudgesEverything, VerdictsAreCurrent, VerdictsFollowTheAnswers, JudgedNodes, SealedNodes

\* A step that judges nothing, revises nothing and moves on among nodes of its kind.
LEMMA QuietStepsKeepVerdicts ==
    ASSUME VerdictCore,
           UNCHANGED <<case, round, branch, output>>,
           node' \notin {"review_candidate", "failed", "cancelled"} => branch = Idle,
           node' \in EarlyNodes => node \in EarlyNodes,
           node' # "review_candidate" \/ UNCHANGED <<node, selected>>,
           node' \in JudgedNodes => node \in JudgedNodes /\ UNCHANGED <<findings, stop>>
    PROVE  VerdictCore'
<1> USE DEF VerdictCore
<1>1. BranchesAreJudging' /\ BranchesJudgeTheCase'
  BY DEF BranchesAreJudging, BranchesJudgeTheCase, Idle
<1>2. EarlyIsTheFirstRound' /\ RejudgesEverything'
  BY DEF EarlyIsTheFirstRound, RejudgesEverything, EarlyNodes
<1>3. VerdictsAreCurrent'
  BY DEF VerdictsAreCurrent, JudgedNodes, SealedNodes
<1> QED
  BY <1>1, <1>2, <1>3

LEMMA VerdictCorePreserved == TypeInv /\ VerdictCore /\ [Next]_vars => VerdictCore'
<1> SUFFICES ASSUME TypeInv, VerdictCore, [Next]_vars PROVE VerdictCore'
  OBVIOUS
<1> USE DEF caseVars, judgeVars, askVars
<1>a. node \notin {"review_candidate", "failed", "cancelled"} => branch = Idle
  BY DEF VerdictCore, BranchesAreJudging
<1>b. \A c \in Candidates : Idle[c] # "done"
  BY DEF Idle
<1>c. round \in 1..LastRound /\ stop \in BOOLEAN /\ branch \in [Candidates -> {"idle", "retrieve", "judge", "done"}]
  BY DEF TypeInv, TypeOK
<1>1. CASE LoadContext
  <2>1. /\ node = "load_context" /\ node' = "analyze_repository"
        /\ branch = Idle /\ UNCHANGED <<branch, round, output>>
    BY <1>1, <1>a DEF LoadContext
  <2> QED
    BY <2>1, <1>b
       DEF VerdictCore, BranchesAreJudging, BranchesJudgeTheCase, EarlyIsTheFirstRound, EarlyNodes,
           RejudgesEverything, VerdictsAreCurrent, JudgedNodes, SealedNodes
<1>2. CASE PlainNode
  <2>1. /\ node \notin {"review_candidate", "failed", "cancelled"} /\ node' # "review_candidate"
        /\ node' \in EarlyNodes => node \in EarlyNodes
        /\ node' \in JudgedNodes => node \in JudgedNodes
    BY <1>2 DEF PlainNode, PlainEdges, EarlyNodes, JudgedNodes, SealedNodes
  <2> QED
    BY <1>2, <1>a, <2>1, QuietStepsKeepVerdicts DEF PlainNode
<1>3. CASE SelectInitialCandidates
  <2>1. /\ node = "select_initial_candidates" /\ node' \in {"failed", "load_policy_corpus"}
        /\ UNCHANGED <<case, round, branch, output>>
    BY <1>3 DEF SelectInitialCandidates
  <2> QED
    BY <1>a, <2>1, QuietStepsKeepVerdicts DEF EarlyNodes, JudgedNodes, SealedNodes
<1>4. CASE LoadPolicyCorpus
  <2>1. /\ node = "load_policy_corpus" /\ branch = Idle /\ round = 1
        /\ node' \in {"generate_questions", "review_candidate"}
        /\ node' = "generate_questions" => branch' = branch
        /\ \A c \in Candidates : branch'[c] # "done"
        /\ UNCHANGED <<case, round, output>>
    BY <1>4, <1>a, <1>b DEF LoadPolicyCorpus, Dispatch, VerdictCore, EarlyIsTheFirstRound, EarlyNodes
  <2> QED
    BY <2>1
       DEF VerdictCore, BranchesAreJudging, BranchesJudgeTheCase, EarlyIsTheFirstRound, EarlyNodes,
           RejudgesEverything, VerdictsAreCurrent
<1>5. ASSUME NEW c \in Candidates, RetrievePolicySet(c) PROVE VerdictCore'
  <2>1. /\ node = "review_candidate" /\ branch' = [branch EXCEPT ![c] = "judge"]
        /\ UNCHANGED <<node, case, round, selected, output>>
    BY <1>5 DEF RetrievePolicySet
  <2>2. BranchesJudgeTheCase'
    BY <1>c, <2>1 DEF VerdictCore, BranchesJudgeTheCase
  <2> QED
    BY <2>1, <2>2
       DEF VerdictCore, BranchesAreJudging, EarlyIsTheFirstRound, EarlyNodes,
           RejudgesEverything, VerdictsAreCurrent, JudgedNodes, SealedNodes
<1>6. ASSUME NEW c \in Candidates, JudgeCandidate(c) PROVE VerdictCore'
  <2>1. PICK held \in BOOLEAN :
            output' = [output EXCEPT ![c] =
                         BranchOutput(c, [judgedOn |-> case.answers, held |-> held])]
    BY <1>6 DEF JudgeCandidate
  <2>2. /\ node = "review_candidate" /\ branch' = [branch EXCEPT ![c] = "done"]
        /\ UNCHANGED <<node, case, round, selected>>
    BY <1>6 DEF JudgeCandidate
  <2>3. output'[c][c].judgedOn = case.answers
    BY <2>1 DEF BranchOutput, TypeInv, TypeOK
  <2>4. \A d \in Candidates \ {c} : output'[d] = output[d] /\ branch'[d] = branch[d]
    BY <1>c, <2>1, <2>2 DEF TypeInv, TypeOK
  <2>5. BranchesJudgeTheCase'
    BY <2>2, <2>3, <2>4 DEF VerdictCore, BranchesJudgeTheCase
  <2> QED
    BY <2>2, <2>5
       DEF VerdictCore, BranchesAreJudging, EarlyIsTheFirstRound, EarlyNodes,
           RejudgesEverything, VerdictsAreCurrent, JudgedNodes, SealedNodes
<1>7. CASE JoinBranches
  <2>1. /\ node = "review_candidate" /\ node' = "generate_questions"
        /\ findings' = Merged /\ branch' = Idle
        /\ UNCHANGED <<case, round, stop>>
        /\ \A c \in selected : branch[c] = "done"
    BY <1>7 DEF JoinBranches, AllBranchesDone
  <2>2. ASSUME round > 1
        PROVE  /\ DOMAIN Merged = Candidates
               /\ \A c \in Candidates : Merged[c].judgedOn = case.answers
    <3>1. \A c \in Candidates : branch[c] = "done"
      BY <2>1, <2>2 DEF VerdictCore, RejudgesEverything
    <3> QED
      BY <3>1, MergedIsTheVerdicts DEF VerdictCore, BranchesJudgeTheCase
  <2> QED
    BY <1>b, <2>1, <2>2
       DEF VerdictCore, BranchesAreJudging, BranchesJudgeTheCase, EarlyIsTheFirstRound, EarlyNodes,
           RejudgesEverything, VerdictsAreCurrent
<1>8. CASE GenerateQuestions
  <2>1. node' \in {"seal_case", "write_waiting_synopsis"}
    BY <1>8 DEF GenerateQuestions
  <2> QED
    BY <1>8, <1>a, <2>1, QuietStepsKeepVerdicts
       DEF GenerateQuestions, EarlyNodes, JudgedNodes, SealedNodes
<1>9. CASE RecordWaitingReview
  BY <1>9, <1>a, QuietStepsKeepVerdicts DEF RecordWaitingReview, EarlyNodes, JudgedNodes, SealedNodes
<1>10. CASE AwaitAnswers
  BY <1>10, <1>a, QuietStepsKeepVerdicts DEF AwaitAnswers, EarlyNodes, JudgedNodes, SealedNodes
<1>11. CASE ReviseCase
  <2>1. /\ node = "revise_case" /\ branch = Idle
        /\ node' = IF stop THEN "seal_case" ELSE "select_candidates_for_rejudgement"
        /\ UNCHANGED <<branch, stop>>
    BY <1>11, <1>a DEF ReviseCase
  <2>2. stop' \/ node' = "select_candidates_for_rejudgement"
    BY <2>1, <1>c
  <2> QED
    BY <2>1, <2>2, <1>b
       DEF VerdictCore, BranchesAreJudging, BranchesJudgeTheCase, EarlyIsTheFirstRound, EarlyNodes,
           RejudgesEverything, VerdictsAreCurrent, JudgedNodes, SealedNodes
<1>12. CASE SelectRejudgements
  <2>1. /\ node = "select_candidates_for_rejudgement" /\ branch = Idle
        /\ selected' = Candidates /\ Dispatch(Candidates)
        /\ UNCHANGED <<case, round, findings, output>>
    BY <1>12, <1>a DEF SelectRejudgements
  <2>2. CASE Candidates = {}
    <3>1. node' = "generate_questions" /\ branch' = Idle
      BY <2>1, <2>2 DEF Dispatch
    <3>2. DOMAIN findings = Candidates
      <4>1. PICK S \in SUBSET Candidates : findings \in [S -> Findings]
        BY DEF TypeInv, TypeOK, FindingMaps
      <4> QED
        BY <2>2, <4>1
    <3> QED
      BY <2>1, <2>2, <3>1, <3>2
         DEF VerdictCore, BranchesAreJudging, BranchesJudgeTheCase, EarlyIsTheFirstRound, EarlyNodes,
             RejudgesEverything, VerdictsAreCurrent
  <2>3. CASE Candidates # {}
    <3>1. node' = "review_candidate" /\ \A c \in Candidates : branch'[c] # "done"
      BY <2>1, <2>3 DEF Dispatch
    <3> QED
      BY <2>1, <3>1
         DEF VerdictCore, BranchesAreJudging, BranchesJudgeTheCase, EarlyIsTheFirstRound, EarlyNodes,
             RejudgesEverything, VerdictsAreCurrent, JudgedNodes, SealedNodes
  <2> QED
    BY <2>2, <2>3
<1>13. CASE SealCase
  BY <1>13, <1>a, QuietStepsKeepVerdicts DEF SealCase, EarlyNodes, JudgedNodes, SealedNodes
<1>14. CASE RecordReview
  BY <1>14, <1>a, QuietStepsKeepVerdicts DEF RecordReview, EarlyNodes, JudgedNodes, SealedNodes
<1>15. CASE RecordFailure
  <2>1. node' = "failed" /\ UNCHANGED <<case, round, branch, output>>
    BY <1>15 DEF RecordFailure
  <2> QED
    BY <1>a, <2>1, QuietStepsKeepVerdicts DEF EarlyNodes, JudgedNodes, SealedNodes
<1>16. CASE OthersRecord
  BY <1>16, <1>a, QuietStepsKeepVerdicts DEF OthersRecord
<1>17. CASE UNCHANGED vars
  BY <1>17, <1>a, QuietStepsKeepVerdicts DEF vars
<1>18. CASE Cancel
  BY <1>18, QuietStepsKeepVerdicts DEF Cancel, EarlyNodes, JudgedNodes, SealedNodes
<1>19. CASE CancelRun
  BY <1>19, QuietStepsKeepVerdicts DEF CancelRun, EarlyNodes, JudgedNodes, SealedNodes
<1> QED
  BY <1>1, <1>2, <1>3, <1>4, <1>5, <1>6, <1>7, <1>8, <1>9, <1>10, <1>11, <1>12,
     <1>13, <1>14, <1>15, <1>16, <1>17, <1>18, <1>19 DEF Next, GraphStep, Terminating

\* What a step files: nothing, a failure, or the findings of a judged node.
LEMMA WhatIsFiled ==
    ASSUME [Next]_vars
    PROVE  \/ filed' = filed
           \/ \E s : /\ filed' = filed \cup {s}
                     /\ \/ s.status = "failed"
                        \/ /\ node \in JudgedNodes
                           /\ s.round = round /\ s.case = case
                           /\ s.findings = findings /\ s.stopped = stop
<1> USE DEF caseVars, judgeVars, askVars
<1>1. CASE RecordWaitingReview
  BY <1>1 DEF RecordWaitingReview, Snapshot, JudgedNodes
<1>2. CASE RecordReview
  BY <1>2 DEF RecordReview, Snapshot, JudgedNodes, SealedNodes
<1>3. CASE RecordFailure
  <2>1. PICK s : s = Snapshot("failed", case, Merged, {})
    OBVIOUS
  <2>2. s.status = "failed"
    BY <2>1 DEF Snapshot
  <2>3. filed' = filed \/ filed' = filed \cup {s}
    BY <1>3, <2>1 DEF RecordFailure
  <2> QED
    BY <2>2, <2>3
<1>4. CASE OthersRecord \/ Terminating \/ AwaitAnswers \/ UNCHANGED vars
  BY <1>4 DEF OthersRecord, Terminating, AwaitAnswers, vars
<1>5. CASE LoadContext \/ PlainNode \/ SelectInitialCandidates \/ LoadPolicyCorpus
  BY <1>5 DEF LoadContext, PlainNode, SelectInitialCandidates, LoadPolicyCorpus
<1>6. CASE JoinBranches \/ GenerateQuestions \/ ReviseCase \/ SelectRejudgements \/ SealCase
  BY <1>6 DEF JoinBranches, GenerateQuestions, ReviseCase, SelectRejudgements, SealCase
<1>7. ASSUME NEW c \in Candidates, RetrievePolicySet(c) \/ JudgeCandidate(c) PROVE filed' = filed
  BY <1>7 DEF RetrievePolicySet, JudgeCandidate
<1>8. CASE Cancel
  BY <1>8 DEF Cancel, Snapshot, JudgedNodes
<1>9. CASE CancelRun
  BY <1>9 DEF CancelRun
<1> QED
  BY <1>1, <1>2, <1>3, <1>4, <1>5, <1>6, <1>7, <1>8, <1>9 DEF Next, GraphStep

LEMMA VerdictInvPreserved == TypeInv /\ VerdictInv /\ [Next]_vars => VerdictInv'
<1> SUFFICES ASSUME TypeInv, VerdictInv, [Next]_vars PROVE VerdictInv'
  OBVIOUS
<1>1. VerdictCore /\ VerdictCore'
  BY VerdictCorePreserved DEF VerdictInv, VerdictCore
<1>2. ASSUME filed' = filed PROVE VerdictsFollowTheAnswers'
  BY <1>2 DEF VerdictInv, VerdictsFollowTheAnswers
<1>3. ASSUME NEW s, filed' = filed \cup {s},
             \/ s.status = "failed"
             \/ /\ node \in JudgedNodes
                /\ s.round = round /\ s.case = case
                /\ s.findings = findings /\ s.stopped = stop
      PROVE  VerdictsFollowTheAnswers'
  BY <1>1, <1>3 DEF VerdictInv, VerdictCore, VerdictsAreCurrent, VerdictsFollowTheAnswers
<1>4. VerdictsFollowTheAnswers'
  BY <1>2, <1>3, WhatIsFiled DEF VerdictInv, VerdictsFollowTheAnswers
<1> QED
  BY <1>1, <1>4 DEF VerdictInv, VerdictCore

-----------------------------------------------------------------------------
\* What it gives

\* The invariants hold at every node of every review.
THEOREM FilingIsSound == Spec => [](TypeInv /\ RoundInv /\ FilingInv /\ VerdictInv)
<1>1. Init => TypeInv /\ FilingInv /\ VerdictInv
  BY TypeInvInitially, FilingInvInitially, VerdictInvInitially
<1>2. (TypeInv /\ FilingInv /\ VerdictInv) /\ [Next]_vars => (TypeInv /\ FilingInv /\ VerdictInv)'
  BY TypeInvPreserved, FilingInvPreserved, VerdictInvPreserved
<1> QED
  BY <1>1, <1>2, RoundsAreSound, PTL DEF Spec

\* A review that went on to judge a round's answers files only verdicts reached
\* on them (select_rejudgements_node, merge_mappings).
THEOREM VerdictsAreOnTheAnswers == Spec => []VerdictsFollowTheAnswers
<1>1. VerdictInv => VerdictsFollowTheAnswers
  BY DEF VerdictInv
<1> QED
  BY <1>1, FilingIsSound, PTL

\* A review that completes, fails or is stopped in its first wait names a revision
\* the store holds, with its answers in it unless another review took the number
\* first (seal_case_node, _seal_after_failure). One stopped in a later wait does
\* not, which is why the theorem is not about every ending.
THEOREM UnstoppedEndingsAreStored == Spec => []UnstoppedReviewsNameStoredRevisions
<1>1. FilingInv => UnstoppedReviewsNameStoredRevisions
  BY DEF FilingInv, OneEnding, Named, UnstoppedReviewsNameStoredRevisions
<1> QED
  BY <1>1, FilingIsSound, PTL

\* A review writes one revision of its case at most, and only when it recorded
\* an answer.
THEOREM OneRevision == Spec => []OneRevisionPerReview
<1>1. FilingInv => OneRevisionPerReview
  BY DEF FilingInv, MineIsTheCase, OneRevisionPerReview
<1> QED
  BY <1>1, FilingIsSound, PTL

\* Two snapshots of one review never share the identity they are filed under.
THEOREM IdentitiesDiffer == Spec => []SnapshotIdentitiesDiffer
<1>1. RoundInv /\ FilingInv => SnapshotIdentitiesDiffer
  BY DEF RoundInv, FilingInv, WaitsAreApart, OneEnding, Waits, SnapshotIdentitiesDiffer
<1> QED
  BY <1>1, FilingIsSound, PTL

(***************************************************************************)
(* ReviewGraph implements RoundProtocol, step by step.                     *)
(***************************************************************************)
-----------------------------------------------------------------------------
\* The protocol a watcher sees

LEMMA PhaseIs ==
    /\ node \in Ended => Phase = "ended"
    /\ node = "await_answers" => Phase = "waiting"
    /\ node = "revise_case" => Phase = "answered"
    /\ node \notin Ended \cup {"await_answers", "revise_case"} => Phase = "judging"
<1>1. node \in {"await_answers", "revise_case"} => node \notin Ended
  BY DEF Ended
<1> QED
  BY <1>1 DEF Phase

\* Where a step leaves the phase and the round alone, the watcher sees nothing.
LEMMA UnseenSteps ==
    ASSUME node \notin Ended \cup {"await_answers", "revise_case"},
           node' \notin Ended \cup {"await_answers", "revise_case"},
           round' = round
    PROVE  UNCHANGED Protocol!vars
<1>1. Phase = "judging" /\ Phase' = "judging"
  BY PhaseIs DEF Phase
<1> QED
  BY <1>1 DEF Protocol!vars

LEMMA EndingSteps ==
    ASSUME node \notin Ended \cup {"await_answers"}, node' \in Ended, round' = round
    PROVE  Protocol!End
<1>1. Phase \in {"judging", "answered"} /\ Phase' = "ended"
  BY PhaseIs DEF Phase, Ended
<1> QED
  BY <1>1 DEF Protocol!End

LEMMA ProtocolSteps ==
    TypeInv /\ [Next]_vars => [Protocol!Next]_(Protocol!vars)
<1> SUFFICES ASSUME TypeInv, [Next]_vars
             PROVE  Protocol!Next \/ UNCHANGED Protocol!vars
  OBVIOUS
<1> USE DEF caseVars, judgeVars, askVars
<1>1. CASE LoadContext
  BY <1>1, UnseenSteps DEF LoadContext, Ended
<1>2. CASE PlainNode
  <2>1. /\ node \notin Ended \cup {"await_answers", "revise_case"}
        /\ node' \notin Ended \cup {"await_answers", "revise_case"}
    BY <1>2 DEF PlainNode, PlainEdges, Ended
  <2> QED
    BY <1>2, <2>1, UnseenSteps DEF PlainNode
<1>3. CASE SelectInitialCandidates
  <2>1. /\ node = "select_initial_candidates" /\ round' = round
        /\ node' \in {"failed", "load_policy_corpus"}
    BY <1>3 DEF SelectInitialCandidates
  <2> QED
    BY <2>1, UnseenSteps, EndingSteps DEF Ended, Protocol!Next
<1>4. CASE LoadPolicyCorpus
  BY <1>4, UnseenSteps DEF LoadPolicyCorpus, Dispatch, Ended
<1>5. ASSUME NEW c \in Candidates, RetrievePolicySet(c) \/ JudgeCandidate(c)
      PROVE  UNCHANGED Protocol!vars
  BY <1>5, UnseenSteps DEF RetrievePolicySet, JudgeCandidate, Ended
<1>6. CASE JoinBranches
  BY <1>6, UnseenSteps DEF JoinBranches, Ended
<1>7. CASE GenerateQuestions
  <2>1. node' \in {"seal_case", "write_waiting_synopsis"}
    BY <1>7 DEF GenerateQuestions
  <2> QED
    BY <1>7, <2>1, UnseenSteps DEF GenerateQuestions, Ended
<1>8. CASE RecordWaitingReview
  <2>1. node = "record_waiting_review" /\ node' = "await_answers" /\ round' = round
    BY <1>8 DEF RecordWaitingReview
  <2>2. round < LastRound
    BY <2>1 DEF TypeInv, AskingLeavesARound, AskingNodes
  <2>3. Phase = "judging" /\ Phase' = "waiting"
    BY <2>1, PhaseIs DEF Phase, Ended
  <2> QED
    BY <2>1, <2>2, <2>3 DEF Protocol!Next, Protocol!Ask
<1>9. CASE AwaitAnswers
  <2>1. node = "await_answers" /\ node' = "revise_case" /\ round' = round
    BY <1>9 DEF AwaitAnswers
  <2>2. Phase = "waiting" /\ Phase' = "answered"
    BY <2>1, PhaseIs DEF Phase, Ended
  <2> QED
    BY <2>1, <2>2 DEF Protocol!Next, Protocol!Answer
<1>10. CASE ReviseCase
  <2>1. /\ node = "revise_case" /\ round' = round + 1
        /\ node' \in {"seal_case", "select_candidates_for_rejudgement"}
    BY <1>10 DEF ReviseCase, NextRound
  <2>2. Phase = "answered" /\ Phase' = "judging"
    BY <2>1, PhaseIs DEF Phase, Ended
  <2> QED
    BY <2>1, <2>2 DEF Protocol!Next, Protocol!NextRound
<1>11. CASE SelectRejudgements
  BY <1>11, UnseenSteps DEF SelectRejudgements, Dispatch, Ended
<1>12. CASE SealCase
  BY <1>12, UnseenSteps DEF SealCase, Ended
<1>13. CASE RecordReview
  BY <1>13, EndingSteps DEF RecordReview, Ended, Protocol!Next
<1>14. CASE RecordFailure
  <2>1. /\ node \notin Ended \cup {"await_answers", "revise_case"}
        /\ node' \in Ended /\ round' = round
    BY <1>14 DEF RecordFailure, Raises, Ended
  <2> QED
    BY <2>1, EndingSteps DEF Protocol!Next
<1>15. CASE OthersRecord \/ UNCHANGED vars
  BY <1>15 DEF OthersRecord, vars, Phase, Protocol!vars
<1>16. CASE Cancel
  <2>1. node = "await_answers" /\ node' = "cancelled" /\ round' = round
    BY <1>16 DEF Cancel
  <2>2. Phase = "waiting" /\ Phase' = "ended"
    BY <2>1, PhaseIs DEF Phase, Ended
  <2> QED
    BY <2>1, <2>2 DEF Protocol!Next, Protocol!Stop
<1>17. CASE CancelRun
  BY <1>17, EndingSteps DEF CancelRun, Ended, Protocol!Next
<1> QED
  BY <1>1, <1>2, <1>3, <1>4, <1>5, <1>6, <1>7, <1>8, <1>9, <1>10, <1>11, <1>12,
     <1>13, <1>14, <1>15, <1>16, <1>17 DEF Next, GraphStep, Terminating

\* Every step of the graph is a step of the protocol or one the watcher does
\* not see: a review waits only where a round is left, an answer opens the next
\* round, a stop ends it, and nothing follows the end. That judging ends at all is left to the
\* model checker.
THEOREM FollowsTheProtocol == Spec => Protocol!Init /\ [][Protocol!Next]_(Protocol!vars)
<1>1. Init => Protocol!Init
  <2> SUFFICES ASSUME Init PROVE Protocol!Init
    OBVIOUS
  <2>1. node = "load_context" /\ round = 1
    BY DEF Init
  <2> QED
    BY <2>1, PhaseIs DEF Protocol!Init, Ended
<1>2. Spec => []TypeInv
  BY TypeInvInitially, TypeInvPreserved, PTL DEF Spec
<1>3. TypeInv /\ [Next]_vars => [Protocol!Next]_(Protocol!vars)
  BY ProtocolSteps
<1> QED
  BY <1>1, <1>2, <1>3, PTL DEF Spec

=============================================================================

--------------------------- MODULE BranchReviews ---------------------------
(***************************************************************************)
(* The reviews of one branch, one after another: what the delta            *)
(* (analysis/delta.py) makes of the review before, which candidates are    *)
(* judged again and which verdicts are carried, and what each snapshot     *)
(* leaves for the review after (workflow/report.py, workflow/service.py).  *)
(*                                                                         *)
(* Code, case, policies and model move whenever somebody moves them, while *)
(* reviews run as well, and a review may be answered after others began.   *)
(* A finding keeps, beside the stamps the delta reads, what it was really  *)
(* judged on. A case is a number, a new one for every content it takes.    *)
(* The model stands for the model and the prompt, which the delta treats   *)
(* alike. Every review is of the newest revision of one case.              *)
(*                                                                         *)
(* An operator named Faulty... is no part of the specification: it is a    *)
(* plausible mistake in the operator defined after it, kept to show that   *)
(* a property notices it.                                                  *)
(***************************************************************************)
EXTENDS Naturals, Sequences, FiniteSets

CONSTANTS
    Candidates,         \* the candidates a detector can report
    Signature,          \* the pattern and roles of each: _succession_signature
    Versions,           \* what the code of a candidate can be
    Models,             \* what can be selected to judge
    Corpora,            \* the fingerprints of the policy corpus
    LastRound,          \* the round after which nothing more is asked
    MaxReviews,         \* bound: reviews of this branch
    MaxUnfiled,         \* bound: reviews at once before their first snapshot
    MaxChanges          \* bound: moves of code, case, policies or model

Absent == "absent"
None == "none"
Reviews == 1..MaxReviews

ASSUME ConstantsAssumption ==
    /\ IsFiniteSet(Candidates)
    /\ DOMAIN Signature = Candidates
    /\ Absent \notin Versions
    /\ LastRound \in Nat \ {0}
    /\ MaxReviews \in Nat
    /\ MaxUnfiled \in Nat
    /\ MaxChanges \in Nat

VARIABLES
    content,            \* the code: each candidate's version, or Absent
    case,               \* the newest revision recorded
    cases,              \* how many contents the case ever took, recorded or not
    model,              \* the selection in force
    corpus,             \* the corpus in force
    store,              \* core_review_snapshots of the branch, in rowid order
    run,                \* the state of each review
    changes             \* bound

vars == <<content, case, cases, model, corpus, store, run, changes>>
world == <<content, case, cases, model, corpus, changes>>

Nothing == [c \in {} |-> None]

NoPrevious ==
    [review |-> 0, sequence |-> 0, status |-> None, case |-> 0, findings |-> Nothing,
     manifest |-> Nothing, sound |-> TRUE]

IdleRun ==
    [pc |-> "idle", previous |-> NoPrevious, historical |-> {},
     content |-> [c \in Candidates |-> Absent], case |-> 0, base |-> 0, opened |-> FALSE,
     round |-> 1, model |-> None, delta |-> None, corpus |-> None, carried |-> {},
     addressed |-> {}, selected |-> {}, findings |-> Nothing, retrieved |-> Nothing]

Init ==
    /\ content \in [Candidates -> Versions \cup {Absent}]
    /\ case = 1
    /\ cases = 1
    /\ model \in Models
    /\ corpus \in Corpora
    /\ store = <<>>
    /\ run = [r \in Reviews |-> IdleRun]
    /\ changes = 0

-----------------------------------------------------------------------------
\* The world moves

Moves == changes < MaxChanges /\ changes' = changes + 1

EditCode ==
    /\ Moves
    /\ \E c \in Candidates, v \in Versions \cup {Absent} :
          /\ v # content[c]
          /\ content' = [content EXCEPT ![c] = v]
    /\ UNCHANGED <<case, cases, model, corpus, store, run>>

\* A re-scoping, or another branch's review, records a revision.
ReviseElsewhere ==
    /\ Moves
    /\ cases' = cases + 1
    /\ case' = cases'
    /\ UNCHANGED <<content, model, corpus, store, run>>

SelectModel ==
    /\ Moves
    /\ \E m \in Models \ {model} : model' = m
    /\ UNCHANGED <<content, case, cases, corpus, store, run>>

ImportPolicies ==
    /\ Moves
    /\ \E p \in Corpora \ {corpus} : corpus' = p
    /\ UNCHANGED <<content, case, cases, model, store, run>>

-----------------------------------------------------------------------------
\* Reading the branch

\* The rows a listing shows: the last of each number.
NewestPerRevision ==
    {i \in DOMAIN store :
        \A j \in DOMAIN store : store[j].sequence = store[i].sequence => j <= i}

\* latest_for_branch: the one of those with the highest number, ended or not.
Highest(rows) ==
    IF rows = {} THEN NoPrevious
    ELSE store[CHOOSE i \in rows : \A j \in rows : store[j].sequence <= store[i].sequence]
FaultyLatest == Highest({i \in NewestPerRevision : store[i].status # "awaiting_answers"})
Latest == Highest(NewestPerRevision)

\* history_for_branch, without the previous review.
Historical ==
    UNION {DOMAIN store[i].findings : i \in {i \in NewestPerRevision : store[i] # Latest}}

Unfiled == {r \in Reviews : run[r].pc \in {"loaded", "selected", "judging"}
                            /\ \A i \in DOMAIN store : store[i].review # r}

LoadContext(r) ==
    /\ run[r].pc = "idle"
    /\ \A q \in 1..(r - 1) : run[q].pc # "idle"
    /\ Cardinality(Unfiled) < MaxUnfiled
    /\ run' = [run EXCEPT ![r].pc = "loaded", ![r].case = case,
                          ![r].previous = Latest, ![r].historical = Historical]
    /\ UNCHANGED <<world, store>>

-----------------------------------------------------------------------------
\* The delta

Present == {c \in Candidates : content[c] # Absent}

FaultyCaseMoved(r) == FALSE
CaseMoved(r) == run[r].previous.case # run[r].case

JudgementMoved(finding) == finding.model # model

\* A candidate the manifest says nothing about is left alone.
FaultyCorpusMoved(manifest, c) == \E d \in DOMAIN manifest : manifest[d] # corpus
CorpusMoved(manifest, c) == c \in DOMAIN manifest /\ manifest[c] # corpus

Unchanged(r) ==
    LET previous == run[r].previous
    IN  {c \in Present \cap DOMAIN previous.findings :
            /\ previous.findings[c].version = content[c]
            /\ ~CaseMoved(r)
            /\ ~JudgementMoved(previous.findings[c])
            /\ ~CorpusMoved(previous.manifest, c)}

\* The findings with no candidate any more, and those a re-keyed candidate follows:
\* one, and only one, of its own signature. A candidate an older review held has
\* resurfaced and follows nothing.
Missing(r) == DOMAIN run[r].previous.findings \ Present
Predecessors(r, c) == {d \in Missing(r) : Signature[d] = Signature[c]}
Succeeded(r) ==
    UNION {Predecessors(r, c) :
             c \in {c \in Present \ (DOMAIN run[r].previous.findings \cup run[r].historical) :
                      Cardinality(Predecessors(r, c)) = 1}}

FaultyAddressed(r) ==
    {d \in Missing(r) : \A c \in Present : Signature[d] # Signature[c]}
Addressed(r) == Missing(r) \ Succeeded(r)

\* analyze_repository to select_initial_candidates. There is nothing to review where
\* everything is unchanged, unless this is a first review or nobody can be told (ci).
NothingToReview(r) ==
    run[r].previous # NoPrevious /\ Unchanged(r) = Present /\ Addressed(r) = {}

CalculateDelta(r) ==
    /\ run[r].pc = "loaded"
    /\ run' = [run EXCEPT
          ![r].pc = "selected", ![r].content = content, ![r].model = model,
          ![r].delta = corpus, ![r].carried = Unchanged(r), ![r].addressed = Addressed(r),
          ![r].selected = Present \ Unchanged(r),
          ![r].findings = [c \in Unchanged(r) |-> run[r].previous.findings[c]]]
    /\ UNCHANGED <<world, store>>

\* NothingToReviewError files nothing.
Refuse(r) ==
    /\ run[r].pc = "loaded"
    /\ NothingToReview(r)
    /\ run' = [run EXCEPT ![r] = [IdleRun EXCEPT !.pc = "done"]]
    /\ UNCHANGED <<world, store>>

-----------------------------------------------------------------------------
\* The judging

LoadPolicyCorpus(r) ==
    /\ run[r].pc = "selected"
    /\ run' = [run EXCEPT ![r].pc = "judging", ![r].corpus = corpus]
    /\ UNCHANGED <<world, store>>

With(map, c, value) == [d \in DOMAIN map \cup {c} |-> IF d = c THEN value ELSE map[d]]

\* A verdict, and the corpus its policies were retrieved from.
JudgeCandidate(r, c) ==
    /\ run[r].pc = "judging"
    /\ c \in run[r].selected
    /\ run' = [run EXCEPT
          ![r].selected = @ \ {c},
          ![r].findings = With(@, c, [version |-> run[r].content[c], case |-> run[r].case,
                                      model |-> model, corpus |-> run[r].corpus]),
          ![r].retrieved = With(@, c, run[r].corpus)]
    /\ UNCHANGED <<world, store>>

-----------------------------------------------------------------------------
\* The snapshots

FaultySequence(r) == Latest.sequence + 1
Sequence(r) == run[r].previous.sequence + 1

\* The composer's manifest: this review's retrievals, and the previous review's for
\* the candidates this one still holds and did not retrieve for.
FaultyManifest(r) == run[r].retrieved
Manifest(r) ==
    LET retrieved == run[r].retrieved
        carried == run[r].previous.manifest
    IN  [c \in DOMAIN retrieved \cup (DOMAIN carried \cap DOMAIN run[r].findings) |->
            IF c \in DOMAIN retrieved THEN retrieved[c] ELSE carried[c]]

\* "sound" is not stored: it says that this review, and each it carries from, was judged
\* to its end on the case it names.
File(r, status, manifest, judged) ==
    store' = Append(store,
        [review |-> r, sequence |-> Sequence(r), status |-> status, case |-> run[r].case,
         findings |-> run[r].findings, manifest |-> manifest,
         sound |-> judged /\ run[r].previous.sound])

\* The number of the revision this review opened is still free.
NumberIsFree(r) == run[r].opened => run[r].base = case
Sealed(r) == IF run[r].opened /\ NumberIsFree(r) THEN run[r].case ELSE case

Judged(r) == run[r].pc = "judging" /\ run[r].selected = {}

FaultyMayAsk(r) == run[r].round <= LastRound
MayAsk(r) == run[r].round < LastRound

Ask(r) ==
    /\ Judged(r)
    /\ MayAsk(r)
    /\ File(r, "awaiting_answers", Manifest(r), TRUE)
    /\ run' = [run EXCEPT ![r].pc = "waiting"]
    /\ UNCHANGED world

\* seal_case and record_review; a number somebody took meanwhile fails the review.
Complete(r) ==
    /\ Judged(r) \/ run[r].pc = "stopped"
    /\ NumberIsFree(r)
    /\ File(r, "completed", Manifest(r), Judged(r))
    /\ run' = [run EXCEPT ![r] = [IdleRun EXCEPT !.pc = "done"]]
    /\ case' = Sealed(r)
    /\ UNCHANGED <<content, cases, model, corpus, changes>>

\* revise_case: the first answer opens a revision, a later one adds to it, and either
\* way the case is another one. Every candidate there is is judged again, unless the
\* answers come with a stop.
Answer(r) ==
    /\ run[r].pc = "waiting"
    /\ cases' = cases + 1
    /\ \E stop \in BOOLEAN :
          run' = [run EXCEPT
             ![r].pc = IF stop THEN "stopped" ELSE "judging",
             ![r].case = cases', ![r].opened = TRUE, ![r].round = @ + 1,
             ![r].base = IF run[r].opened THEN @ ELSE case,
             ![r].selected =
                IF stop THEN {} ELSE {c \in Candidates : run[r].content[c] # Absent}]
    /\ UNCHANGED <<content, case, model, corpus, store, changes>>

\* cancel: the waiting snapshot under another id and status. A revision the review had
\* opened is not recorded.
CancelWaiting(r) ==
    /\ run[r].pc = "waiting"
    /\ File(r, "cancelled", Manifest(r), TRUE)
    /\ run' = [run EXCEPT ![r] = [IdleRun EXCEPT !.pc = "done"]]
    /\ UNCHANGED world

\* _record_failure: the findings there are, the retrievals of this review alone, and the
\* revision it opened if its number is free. Before there is an atlas nothing is filed.
Fail(r) ==
    /\ run[r].pc \in {"loaded", "selected", "judging", "stopped"}
    /\ \/ File(r, "failed", run[r].retrieved, FALSE)
       \/ run[r].pc = "loaded" /\ UNCHANGED store
    /\ run' = [run EXCEPT ![r] = [IdleRun EXCEPT !.pc = "done"]]
    /\ case' = Sealed(r)
    /\ UNCHANGED <<content, cases, model, corpus, changes>>

Next ==
    \/ EditCode \/ ReviseElsewhere \/ SelectModel \/ ImportPolicies
    \/ \E r \in Reviews :
          \/ LoadContext(r) \/ CalculateDelta(r) \/ Refuse(r) \/ LoadPolicyCorpus(r)
          \/ \E c \in Candidates : JudgeCandidate(r, c)
          \/ Ask(r) \/ Complete(r) \/ Answer(r) \/ CancelWaiting(r) \/ Fail(r)

Spec == Init /\ [][Next]_vars

-----------------------------------------------------------------------------
\* Properties

FindingsOK(findings) ==
    /\ DOMAIN findings \subseteq Candidates
    /\ \A c \in DOMAIN findings :
          /\ findings[c].version \in Versions
          /\ findings[c].case \in 1..cases
          /\ findings[c].model \in Models
          /\ findings[c].corpus \in Corpora

\* The state is well typed: every verdict is of a present candidate under a recorded
\* stamp, the newest case was a case once, and no review goes past its last round.
TypeOK ==
    /\ content \in [Candidates -> Versions \cup {Absent}]
    /\ case \in 1..cases
    /\ model \in Models
    /\ corpus \in Corpora
    /\ \A i \in DOMAIN store :
          /\ store[i].review \in Reviews
          /\ store[i].status \in {"awaiting_answers", "completed", "cancelled", "failed"}
          /\ store[i].sequence \in 1..MaxReviews
          /\ store[i].case \in 1..cases
          /\ FindingsOK(store[i].findings)
    /\ \A r \in Reviews :
          /\ run[r].pc \in {"idle", "loaded", "selected", "judging", "waiting", "stopped", "done"}
          /\ run[r].round \in 1..LastRound
          /\ FindingsOK(run[r].findings)
          /\ run[r].selected \subseteq {c \in Candidates : run[r].content[c] # Absent}

\* Judged on this code, this case, this model and these policies.
IsCurrent(finding, r, c) ==
    finding = [version |-> run[r].content[c], case |-> run[r].case,
               model |-> run[r].model, corpus |-> run[r].delta]

CarriesOnlyCurrent(r) ==
    \A c \in run[r].carried : IsCurrent(run[r].previous.findings[c], r, c)

\* analysis/delta.py: the code, the case, the model, the prompt or the corpus moving
\* "invalidates a verdict that was correct when it was recorded". A verdict is carried
\* only where none of them moved since it was reached.
CarriedVerdictsAreCurrent ==
    \A r \in Reviews : run[r].pc = "selected" => CarriesOnlyCurrent(r)

\* The same, for a line of reviews each judged to its end on the case it names.
SoundVerdictsAreCurrent ==
    \A r \in Reviews :
        run[r].pc = "selected" /\ run[r].previous.sound => CarriesOnlyCurrent(r)

\* Nothing is sent back to the model for no reason: a candidate the previous review
\* holds a verdict for is judged again only if something under that verdict moved. The
\* case is a review's: a previous review that names another one moves every verdict.
NothingIsJudgedForNothing ==
    \A r \in Reviews :
        run[r].pc = "selected" =>
            \A c \in run[r].selected \cap DOMAIN run[r].previous.findings :
                \/ ~IsCurrent(run[r].previous.findings[c], r, c)
                \/ run[r].previous.case # run[r].case

\* A candidate does not just go missing between two reviews: it is still there, or
\* reported addressed, or followed by one re-keyed candidate of its signature.
GoneCandidatesAreAccountedFor ==
    \A r \in Reviews :
        run[r].pc = "selected" =>
            LET before == DOMAIN run[r].previous.findings
                gone == {c \in before : run[r].content[c] = Absent}
            IN  \A c \in gone \ run[r].addressed :
                    \E d \in run[r].selected \ before :
                        {e \in gone : Signature[e] = Signature[d]} = {c}

\* persistence/reviews.py, the rows a listing leaves out "are superseded rather than
\* separate": two snapshots of one number are of one review.
OlderRowsAreSuperseded ==
    \A i, j \in DOMAIN store :
        store[i].sequence = store[j].sequence => store[i].review = store[j].review

\* domain/review.py: a review keeps its number, whatever is filed between its snapshots.
ReviewsKeepTheirNumber ==
    \A i, j \in DOMAIN store :
        store[i].review = store[j].review => store[i].sequence = store[j].sequence

=============================================================================

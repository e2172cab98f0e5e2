---------------------------- MODULE FindingCache ----------------------------
(***************************************************************************)
(* Verdicts reused between reviews: CachingArchitectureJudge and           *)
(* CachingReviewRecorder (reasoning/cache.py) over the finding table       *)
(* (persistence/findings.py), around SelectedLangChainJudge                *)
(* (reasoning/adapters/selected.py).                                       *)
(*                                                                         *)
(* A review judges its candidates in parallel and reads the table, the     *)
(* model selection and the table again in steps that those of other        *)
(* reviews, a change of model and a restart fall between.  A verdict is    *)
(* known by the review whose judgement reached it; what it says is left    *)
(* open.  One review here is one record of a review: a round that waits    *)
(* for answers and the round after it are two.                             *)
(*                                                                         *)
(* An operator that says "Mutant" is no part of the specification: it is a *)
(* plausible mistake in one defined after it, kept to show that a property *)
(* notices it.                                                             *)
(***************************************************************************)
EXTENDS Naturals

CONSTANTS
    Reviews,        \* the records of reviews that are filed
    Candidates,     \* what the detectors propose, with the code it names
    Cases,          \* the case and the retrieved policies a judgement is sent
    Models,         \* the models a workspace may select
    StandIn,        \* the deterministic provider, which is one of them
    NoKey,          \* the empty cache_key
    None,           \* no review, or no source of a row
    MaxSwitches,    \* bound: how often the selection changes
    MaxRestarts     \* bound: how often the process restarts

VARIABLES
    selection,      \* SelectedReasoningModel.current()
    rows,           \* core_finding_cache: cache_key -> the finding and its source
    jobs,           \* one judgement per review and candidate
    reviews,        \* each review's case, state, and the findings filed under it
    switches,       \* changes of the selection so far
    restarts        \* restarts so far

vars == <<selection, rows, jobs, reviews, switches, restarts>>

Keys == [candidate : Candidates, case : Cases, model : Models]

ASSUME ConstantsAssumption ==
    /\ StandIn \in Models
    /\ None \notin Reviews /\ NoKey \notin Keys
    /\ MaxSwitches \in Nat /\ MaxRestarts \in Nat

\* A Finding: what it answers, the model stamped on it, whose judgement it is,
\* whether a tool was used for it, and what the table stamps onto it.
Findings == [candidate : Candidates, case : Cases, model : Models, by : Reviews,
             looked : BOOLEAN, cache_key : Keys \cup {NoKey},
             reused_from_review_id : Reviews \cup {None}]

Jobs == [pc : {"todo", "keyed", "missed", "answered", "raised", "done"},
         key : Keys \cup {NoKey}, finding : Findings \cup {None}]
NoJob == [pc |-> "todo", key |-> NoKey, finding |-> None]

\* A row of the table, and what is known of a review.
Rows == [finding : Findings, source : Reviews \cup {None}]
Records == [status : {"unstarted", "judging", "filed", "claimed", "failed", "closed",
                      "deleted", "lost"},
            case : Cases \cup {None}, findings : SUBSET Findings]

\* The candidates whose judgement is in a finding.
Judged(r) == {c \in Candidates : jobs[r][c].pc = "done"}

Init ==
    /\ selection \in Models
    /\ rows = << >>
    /\ jobs = [r \in Reviews |-> [c \in Candidates |-> NoJob]]
    /\ reviews = [r \in Reviews |-> [status |-> "unstarted", case |-> None, findings |-> {}]]
    /\ switches = 0 /\ restarts = 0

-----------------------------------------------------------------------------
(* The table.                                                              *)

\* Mutant: the key as it was before the case was a term of it.
FaultyKey(c, k, m) == [candidate |-> c, case |-> CHOOSE x \in Cases : TRUE, model |-> m]

\* The key of a judgement: everything the prompt holds and one reading of the
\* selection.
Key(c, k, m) == [candidate |-> c, case |-> k, model |-> m]

\* FindingCache.get: the row's finding, under the key it was asked for, with the
\* review that made it durable where one did.
Got(key) == [rows[key].finding EXCEPT !.cache_key = key,
                                      !.reused_from_review_id = rows[key].source]

\* INSERT ... ON CONFLICT DO NOTHING: the first row of a key stays.
Stored(key, f) ==
    [k \in DOMAIN rows \cup {key} |->
       IF k \in DOMAIN rows THEN rows[k]
       ELSE [finding |-> [f EXCEPT !.cache_key = NoKey], source |-> None]]

\* Mutant: put hands back the finding it was given.
FaultyPut(key, f) == [f EXCEPT !.cache_key = key]

\* Mutant: put hands back the row rather than the finding in it.
RowOfPut(key, f) == Stored(key, f)[key]

\* What put hands back: the row that is there, which another judgement may have
\* written.
Put(key, f) == [Stored(key, f)[key].finding EXCEPT !.cache_key = key]

\* Mutant: rows are found by what a finding is stamped with, which is not its case.
FaultyClaims(r, key) ==
    /\ rows[key].source = None
    /\ \E f \in reviews[r].findings :
         f.candidate = key.candidate /\ f.model = key.model /\ f.reused_from_review_id = None

\* record_sources: a review claims the rows of its own keys that have no source.
Claims(r, key) ==
    /\ rows[key].source = None
    /\ \E f \in reviews[r].findings : f.cache_key = key /\ f.reused_from_review_id = None

\* Mutant: every judgement is stored.
FaultyIsStored(f) == TRUE

\* Only a judgement that used no tool is stored.
IsStored(f) == ~f.looked

-----------------------------------------------------------------------------
(* One judgement.                                                          *)

SetJob(r, c, job) == jobs' = [jobs EXCEPT ![r][c] = job]

At(r, c, pc) == reviews[r].status = "judging" /\ jobs[r][c].pc = pc

\* A review starts under the case it opened.
Start(r, k) ==
    /\ reviews[r].status = "unstarted"
    /\ reviews' = [reviews EXCEPT ![r].status = "judging", ![r].case = k]
    /\ UNCHANGED <<selection, rows, jobs, switches, restarts>>

\* A candidate that nothing moved under is not judged: its verdict is carried
\* from a review filed before, whose stamp is the model selected now.
Carry(r, p, f) ==
    /\ reviews[r].status = "judging"
    /\ reviews[p].status \in {"filed", "claimed", "failed", "closed"}
    /\ f \in reviews[p].findings
    /\ f.case = reviews[r].case /\ f.model = selection
    /\ jobs[r][f.candidate].pc = "todo"
    /\ SetJob(r, f.candidate, [NoJob EXCEPT !.pc = "done", !.finding = f])
    /\ UNCHANGED <<selection, rows, reviews, switches, restarts>>

\* judge: the key, from one reading of the selection.
BuildKey(r, c) ==
    /\ At(r, c, "todo")
    /\ SetJob(r, c, [jobs[r][c] EXCEPT !.pc = "keyed",
                                       !.key = Key(c, reviews[r].case, selection)])
    /\ UNCHANGED <<selection, rows, reviews, switches, restarts>>

Get(r, c) ==
    /\ At(r, c, "keyed")
    /\ LET key == jobs[r][c].key IN
       SetJob(r, c, IF key \in DOMAIN rows
                    THEN [pc |-> "done", key |-> key, finding |-> Got(key)]
                    ELSE [jobs[r][c] EXCEPT !.pc = "missed"])
    /\ UNCHANGED <<selection, rows, reviews, switches, restarts>>

\* SelectedLangChainJudge.judge reads the selection again, for the judge and for
\* its transport.  The stand-in never uses a tool.
Judge(r, c, looked) ==
    /\ At(r, c, "missed")
    /\ selection = StandIn => ~looked
    /\ LET f == [candidate |-> c, case |-> reviews[r].case, model |-> selection, by |-> r,
                 looked |-> looked, cache_key |-> NoKey, reused_from_review_id |-> None]
       IN SetJob(r, c, [jobs[r][c] EXCEPT !.pc = IF IsStored(f) THEN "answered" ELSE "done",
                                          !.finding = f])
    /\ UNCHANGED <<selection, rows, reviews, switches, restarts>>

\* The provider refuses or fails, or the selection became one it cannot build.
Raise(r, c) ==
    /\ At(r, c, "missed")
    /\ SetJob(r, c, [jobs[r][c] EXCEPT !.pc = "raised"])
    /\ UNCHANGED <<selection, rows, reviews, switches, restarts>>

PutFinding(r, c) ==
    /\ At(r, c, "answered")
    /\ LET job == jobs[r][c] IN
       /\ rows' = Stored(job.key, job.finding)
       /\ SetJob(r, c, [job EXCEPT !.pc = "done", !.finding = Put(job.key, job.finding)])
    /\ UNCHANGED <<selection, reviews, switches, restarts>>

-----------------------------------------------------------------------------
(* One review.                                                             *)

FindingsOf(r) == {jobs[r][c].finding : c \in Judged(r)}

\* CachingReviewRecorder.record, first half: the review is durable.
File(r) ==
    /\ reviews[r].status = "judging"
    /\ Judged(r) = Candidates
    /\ reviews' = [reviews EXCEPT ![r].status = "filed", ![r].findings = FindingsOf(r)]
    /\ UNCHANGED <<selection, rows, jobs, switches, restarts>>

\* The second half, in a transaction of its own: the rows it made durable name it.
Claim(r) ==
    /\ reviews[r].status = "filed"
    /\ rows' = [key \in DOMAIN rows |->
                  IF Claims(r, key) THEN [rows[key] EXCEPT !.source = r] ELSE rows[key]]
    /\ reviews' = [reviews EXCEPT ![r].status = "claimed"]
    /\ UNCHANGED <<selection, jobs, switches, restarts>>

\* A judgement raised: those running finish, those waiting for a thread do not
\* start, and the service files what was reached through the repository itself, so
\* that record claims nothing.
Fail(r) ==
    /\ reviews[r].status = "judging"
    /\ \E c \in Candidates : jobs[r][c].pc = "raised"
    /\ \A c \in Candidates : jobs[r][c].pc \in {"todo", "done", "raised"}
    /\ reviews' = [reviews EXCEPT ![r].status = "failed", ![r].findings = FindingsOf(r)]
    /\ UNCHANGED <<selection, rows, jobs, switches, restarts>>

\* A person deletes a record; the rows that name it stay.
Delete(r) ==
    /\ reviews[r].status \in {"claimed", "failed", "closed"}
    /\ reviews' = [reviews EXCEPT ![r].status = "deleted"]
    /\ UNCHANGED <<selection, rows, jobs, switches, restarts>>

-----------------------------------------------------------------------------
SwitchModel(m) ==
    /\ switches < MaxSwitches /\ m # selection
    /\ selection' = m /\ switches' = switches + 1
    /\ UNCHANGED <<rows, jobs, reviews, restarts>>

\* What a review has in memory is lost with the process; what is filed is filed.
AfterRestart == [judging |-> "lost", filed |-> "closed", failed |-> "closed"]

Restart ==
    /\ restarts < MaxRestarts
    /\ \E r \in Reviews : reviews[r].status \in DOMAIN AfterRestart
    /\ reviews' = [r \in Reviews |->
         IF reviews[r].status \in DOMAIN AfterRestart
         THEN [reviews[r] EXCEPT !.status = AfterRestart[reviews[r].status]]
         ELSE reviews[r]]
    /\ restarts' = restarts + 1
    /\ UNCHANGED <<selection, rows, jobs, switches>>

Next ==
    \/ \E r \in Reviews :
         \/ \E k \in Cases : Start(r, k)
         \/ \E p \in Reviews : \E f \in reviews[p].findings : Carry(r, p, f)
         \/ File(r) \/ Claim(r) \/ Fail(r) \/ Delete(r)
         \/ \E c \in Candidates :
              \/ BuildKey(r, c) \/ Get(r, c) \/ Raise(r, c) \/ PutFinding(r, c)
              \/ \E looked \in BOOLEAN : Judge(r, c, looked)
    \/ \E m \in Models : SwitchModel(m)
    \/ Restart

Spec == Init /\ [][Next]_vars

-----------------------------------------------------------------------------
(* Properties.                                                             *)

TypeOK ==
    /\ selection \in Models
    /\ DOMAIN rows \subseteq Keys
    /\ \A key \in DOMAIN rows : rows[key] \in Rows
    /\ jobs \in [Reviews -> [Candidates -> Jobs]]
    /\ reviews \in [Reviews -> Records]
    /\ switches \in 0..MaxSwitches /\ restarts \in 0..MaxRestarts

Filed == {r \in Reviews : reviews[r].findings # {}}

\* No review holds a verdict that was reached under another case, whether it
\* judged, found the verdict in the table or carried it (reasoning/cache.py:142:
\* "It has to say the same thing at row scale").
VerdictsAnswerTheirCase ==
    \A r \in Filed : \A f \in reviews[r].findings :
        f.case = reviews[r].case

\* Two findings that carry one key carry one verdict, although two reviews may
\* both have missed and both have judged (persistence/findings.py:132-151).
OneVerdictPerKey ==
    \A r, s \in Filed : \A f \in reviews[r].findings : \A g \in reviews[s].findings :
        f.cache_key = g.cache_key /\ f.cache_key # NoKey => f.by = g.by /\ f.model = g.model

\* "carried from review X" is said of a verdict only where review X holds it: it
\* was filed, under the same key and with the same verdict, and it judged or first
\* claimed it.  A restart may come between the filing and the claim.
SourcesHoldTheirVerdict ==
    \A r \in Filed : \A f \in reviews[r].findings :
        f.reused_from_review_id # None =>
            \E g \in reviews[f.reused_from_review_id].findings :
                /\ g.cache_key = f.cache_key /\ g.by = f.by
                /\ g.reused_from_review_id = None

\* A verdict that rests on what a tool said is in the review whose tool said it, or
\* carried from there whole: no other review finds it in the table
\* (reasoning/cache.py:98-110).
ToolVerdictsAreNotShared ==
    \A r \in Reviews, c \in Candidates :
        jobs[r][c].pc = "done" /\ jobs[r][c].finding.looked /\ jobs[r][c].key # NoKey
            => jobs[r][c].finding.by = r

\* selected.py:179 says of a selection's model_identity that it is "What a finding
\* produced under this selection carries": a finding with a key is stamped with the
\* model that key names.
KeysNameTheirModel ==
    \A r \in Filed : \A f \in reviews[r].findings :
        f.cache_key # NoKey => f.model = f.cache_key.model

=============================================================================

------------------------- MODULE FindingCacheProofs -------------------------
(***************************************************************************)
(* For any number of reviews, candidates, cases and models: the state of   *)
(* FindingCache is well typed, a verdict answers the case of the review    *)
(* that files it, a key has one verdict, the review a reused verdict names *)
(* holds it, and a verdict that rests on a tool stays with its review.     *)
(*                                                                         *)
(* The three about keys and sources are not inductive one by one.          *)
(* CacheInv ties every finding to the row its key names and every row's    *)
(* source to a finding the source filed; StepsGrow is why the ties hold    *)
(* once made: a row never changes its verdict and a filed review never     *)
(* loses a finding.                                                        *)
(***************************************************************************)
EXTENDS FindingCache, TLAPS

\* What a judgement holds at each of its steps.
JobTyped(job) ==
    /\ job.pc \in {"keyed", "missed", "answered"} => job.key \in Keys
    /\ job.pc \in {"answered", "done"} => job.finding \in Findings

TypeInv ==
    /\ TypeOK
    /\ \A r \in Reviews, c \in Candidates : JobTyped(jobs[r][c])
    /\ \A r \in Reviews :
         /\ reviews[r].status = "judging" => reviews[r].case \in Cases
         /\ reviews[r].status \in {"unstarted", "judging"} => reviews[r].findings = {}

-----------------------------------------------------------------------------
\* A record of the state with one field changed is still a record of its kind.
LEMMA RecordsStay ==
    /\ \A j \in Jobs :
         /\ \A x \in {"keyed", "missed", "answered", "raised", "done"} :
              /\ [j EXCEPT !.pc = x] \in Jobs
              /\ \A k \in Keys : [j EXCEPT !.pc = x, !.key = k] \in Jobs
              /\ \A f \in Findings : [j EXCEPT !.pc = x, !.finding = f] \in Jobs
    /\ \A v \in Records :
         /\ [v EXCEPT !.status = "claimed"] \in Records
         /\ [v EXCEPT !.status = "deleted"] \in Records
         /\ \A k \in Cases : [v EXCEPT !.status = "judging", !.case = k] \in Records
         /\ \A x \in {"filed", "failed"}, g \in SUBSET Findings :
              [v EXCEPT !.status = x, !.findings = g] \in Records
    /\ \A w \in Rows, r \in Reviews : [w EXCEPT !.source = r] \in Rows
  BY DEF Jobs, Records, Rows

\* The table hands out and takes findings.
LEMMA TableIsTyped ==
    ASSUME TypeOK, NEW key \in Keys
    PROVE  /\ key \in DOMAIN rows => Got(key) \in Findings
           /\ \A f \in Findings :
                /\ DOMAIN Stored(key, f) = DOMAIN rows \cup {key}
                /\ \A k \in DOMAIN Stored(key, f) :
                     /\ k \in Keys
                     /\ Stored(key, f)[k] \in Rows
                /\ Put(key, f) \in Findings
  BY DEF TypeOK, Got, Stored, Put, Findings, Rows

\* Nothing is typed wrongly at the start.
LEMMA TypeInvInitially == Init => TypeInv
  BY ConstantsAssumption DEF Init, TypeInv, TypeOK, JobTyped, NoJob, Jobs, Records

\* A step of one judgement that leaves a typed job and the rest alone.
LEMMA JobStep ==
    ASSUME TypeInv, NEW r \in Reviews, NEW c \in Candidates,
           NEW job \in Jobs,
           JobTyped(job), SetJob(r, c, job),
           UNCHANGED <<selection, reviews, switches, restarts>>,
           DOMAIN rows' \subseteq Keys,
           \A k \in DOMAIN rows' :
             rows'[k] \in Rows
    PROVE  TypeInv'
  <1> USE DEF TypeInv, TypeOK, SetJob
  <1>1. TypeOK'
    OBVIOUS
  <1>2. \A s \in Reviews, d \in Candidates : JobTyped(jobs'[s][d])
    OBVIOUS
  <1> QED
    BY <1>1, <1>2 DEF JobTyped

\* A step of a review's record that files typed findings or none, and moves no job.
LEMMA ReviewStep ==
    ASSUME TypeInv, NEW r \in Reviews,
           NEW review \in Records,
           review.status = "judging" => review.case \in Cases,
           review.status \in {"unstarted", "judging"} => review.findings = {},
           reviews' = [reviews EXCEPT ![r] = review],
           UNCHANGED <<selection, jobs, switches, restarts>>,
           DOMAIN rows' \subseteq Keys,
           \A k \in DOMAIN rows' :
             rows'[k] \in Rows
    PROVE  TypeInv'
  <1>1. TypeOK'
    BY DEF TypeInv, TypeOK
  <1>2. \A s \in Reviews, d \in Candidates : JobTyped(jobs'[s][d])
    BY DEF TypeInv
  <1>3. \A s \in Reviews :
          /\ reviews'[s].status = "judging" => reviews'[s].case \in Cases
          /\ reviews'[s].status \in {"unstarted", "judging"} => reviews'[s].findings = {}
    BY DEF TypeInv, TypeOK
  <1> QED
    BY <1>1, <1>2, <1>3 DEF TypeInv, JobTyped

\* What a review files are findings.
LEMMA FiledAreFindings ==
    ASSUME TypeInv, NEW r \in Reviews
    PROVE  FindingsOf(r) \subseteq Findings
  BY DEF TypeInv, JobTyped, FindingsOf, Judged

LEMMA TypeInvPreserved == TypeInv /\ [Next]_vars => TypeInv'
  <1> SUFFICES ASSUME TypeInv, [Next]_vars
               PROVE  TypeInv'
    OBVIOUS
  <1> USE DEF TypeInv, TypeOK
  <1>1. ASSUME NEW r \in Reviews, NEW k \in Cases, Start(r, k)
        PROVE  TypeInv'
    <2> DEFINE review == [reviews[r] EXCEPT !.status = "judging", !.case = k]
    <2>1. reviews' = [reviews EXCEPT ![r] = review]
      BY <1>1 DEF Start
    <2>2. review.case = k /\ review.findings = {} /\ review.status = "judging"
      BY <1>1 DEF Start
    <2>3. review \in Records
      BY <1>1, reviews[r] \in Records, RecordsStay DEF Start
    <2> HIDE DEF review
    <2> QED
      BY <1>1, <2>1, <2>2, <2>3, ReviewStep DEF Start
  <1>2. ASSUME NEW r \in Reviews, NEW p \in Reviews, NEW f \in reviews[p].findings,
               Carry(r, p, f)
        PROVE  TypeInv'
    <2>1. f \in Findings /\ f.candidate \in Candidates
      BY reviews[p] \in Records DEF Records, Findings
    <2> DEFINE job == [NoJob EXCEPT !.pc = "done", !.finding = f]
    <2>2. JobTyped(job)
      BY <2>1 DEF JobTyped, NoJob
    <2>3. job \in Jobs
      BY <2>1 DEF NoJob, Jobs
    <2>4. SetJob(r, f.candidate, job)
      BY <1>2 DEF Carry
    <2> HIDE DEF job
    <2> QED
      BY <1>2, <2>1, <2>2, <2>3, <2>4, JobStep DEF Carry
  <1>3. ASSUME NEW r \in Reviews, File(r)
        PROVE  TypeInv'
    <2> DEFINE review == [reviews[r] EXCEPT !.status = "filed", !.findings = FindingsOf(r)]
    <2>1. reviews' = [reviews EXCEPT ![r] = review]
      BY <1>3 DEF File
    <2>2. review.status = "filed"
      OBVIOUS
    <2>3. review \in Records
      BY reviews[r] \in Records, FiledAreFindings, RecordsStay
    <2> HIDE DEF review
    <2> QED
      BY <1>3, <2>1, <2>2, <2>3, ReviewStep DEF File
  <1>4. ASSUME NEW r \in Reviews, Claim(r)
        PROVE  TypeInv'
    <2> DEFINE review == [reviews[r] EXCEPT !.status = "claimed"]
    <2>1. reviews' = [reviews EXCEPT ![r] = review]
      BY <1>4 DEF Claim
    <2>2. review.status = "claimed"
      OBVIOUS
    <2>3. review \in Records
      BY reviews[r] \in Records, RecordsStay
    <2>4. /\ DOMAIN rows' \subseteq Keys
          /\ \A k \in DOMAIN rows' :
               rows'[k] \in Rows
      BY <1>4, RecordsStay DEF Claim
    <2> HIDE DEF review
    <2> QED
      BY <1>4, <2>1, <2>2, <2>3, <2>4, ReviewStep DEF Claim
  <1>5. ASSUME NEW r \in Reviews, Fail(r)
        PROVE  TypeInv'
    <2> DEFINE review == [reviews[r] EXCEPT !.status = "failed", !.findings = FindingsOf(r)]
    <2>1. reviews' = [reviews EXCEPT ![r] = review]
      BY <1>5 DEF Fail
    <2>2. review.status = "failed"
      OBVIOUS
    <2>3. review \in Records
      BY reviews[r] \in Records, FiledAreFindings, RecordsStay
    <2> HIDE DEF review
    <2> QED
      BY <1>5, <2>1, <2>2, <2>3, ReviewStep DEF Fail
  <1>6. ASSUME NEW r \in Reviews, Delete(r)
        PROVE  TypeInv'
    <2> DEFINE review == [reviews[r] EXCEPT !.status = "deleted"]
    <2>1. reviews' = [reviews EXCEPT ![r] = review]
      BY <1>6 DEF Delete
    <2>2. review.status = "deleted"
      OBVIOUS
    <2>3. review \in Records
      BY reviews[r] \in Records, RecordsStay
    <2> HIDE DEF review
    <2> QED
      BY <1>6, <2>1, <2>2, <2>3, ReviewStep DEF Delete
  <1>7. ASSUME NEW r \in Reviews, NEW c \in Candidates, BuildKey(r, c)
        PROVE  TypeInv'
    <2> DEFINE job == [jobs[r][c] EXCEPT !.pc = "keyed",
                                         !.key = Key(c, reviews[r].case, selection)]
    <2>1. Key(c, reviews[r].case, selection) \in Keys
      BY <1>7 DEF BuildKey, At, Key, Keys
    <2>2. JobTyped(job)
      BY <2>1 DEF JobTyped
    <2>3. job \in Jobs
      BY <2>1, jobs[r][c] \in Jobs, RecordsStay
    <2>4. SetJob(r, c, job)
      BY <1>7 DEF BuildKey
    <2> HIDE DEF job
    <2> QED
      BY <1>7, <2>2, <2>3, <2>4, JobStep DEF BuildKey
  <1>8. ASSUME NEW r \in Reviews, NEW c \in Candidates, Get(r, c)
        PROVE  TypeInv'
    <2> DEFINE key == jobs[r][c].key
    <2> DEFINE job == IF key \in DOMAIN rows
                      THEN [pc |-> "done", key |-> key, finding |-> Got(key)]
                      ELSE [jobs[r][c] EXCEPT !.pc = "missed"]
    <2>1. key \in Keys
      BY <1>8 DEF Get, At, JobTyped
    <2>2. key \in DOMAIN rows => Got(key) \in Findings
      BY <2>1, TableIsTyped
    <2>3. JobTyped(job)
      BY <2>1, <2>2 DEF JobTyped
    <2>4. job \in Jobs
      BY <2>1, <2>2, jobs[r][c] \in Jobs, RecordsStay DEF Jobs
    <2>5. SetJob(r, c, job)
      BY <1>8 DEF Get
    <2> HIDE DEF job
    <2> QED
      BY <1>8, <2>3, <2>4, <2>5, JobStep DEF Get
  <1>9. ASSUME NEW r \in Reviews, NEW c \in Candidates, NEW looked \in BOOLEAN,
               Judge(r, c, looked)
        PROVE  TypeInv'
    <2> DEFINE f == [candidate |-> c, case |-> reviews[r].case, model |-> selection,
                     by |-> r, looked |-> looked, cache_key |-> NoKey,
                     reused_from_review_id |-> None]
    <2> DEFINE job == [jobs[r][c] EXCEPT !.pc = IF IsStored(f) THEN "answered" ELSE "done",
                                         !.finding = f]
    <2>1. f \in Findings
      BY <1>9 DEF Judge, At, Findings
    <2>2. jobs[r][c].key \in Keys
      BY <1>9 DEF Judge, At, JobTyped
    <2>3. SetJob(r, c, job)
      BY <1>9 DEF Judge
    <2> HIDE DEF f
    <2>4. JobTyped(job)
      BY <2>1, <2>2 DEF JobTyped
    <2>5. job \in Jobs
      BY <2>1, jobs[r][c] \in Jobs, RecordsStay
    <2> HIDE DEF job
    <2> QED
      BY <1>9, <2>3, <2>4, <2>5, JobStep DEF Judge
  <1>10. ASSUME NEW r \in Reviews, NEW c \in Candidates, Raise(r, c)
         PROVE  TypeInv'
    <2> DEFINE job == [jobs[r][c] EXCEPT !.pc = "raised"]
    <2>1. JobTyped(job)
      BY DEF JobTyped
    <2>2. job \in Jobs
      BY jobs[r][c] \in Jobs, RecordsStay
    <2>3. SetJob(r, c, job)
      BY <1>10 DEF Raise
    <2> HIDE DEF job
    <2> QED
      BY <1>10, <2>1, <2>2, <2>3, JobStep DEF Raise
  <1>11. ASSUME NEW r \in Reviews, NEW c \in Candidates, PutFinding(r, c)
         PROVE  TypeInv'
    <2> DEFINE key == jobs[r][c].key
    <2> DEFINE f == jobs[r][c].finding
    <2> DEFINE job == [jobs[r][c] EXCEPT !.pc = "done", !.finding = Put(key, f)]
    <2>1. key \in Keys /\ f \in Findings
      BY <1>11 DEF PutFinding, At, JobTyped
    <2>2. Put(key, f) \in Findings
      BY <2>1, TableIsTyped
    <2>3. /\ DOMAIN rows' \subseteq Keys
          /\ \A k \in DOMAIN rows' :
               rows'[k] \in Rows
      BY <1>11, <2>1, TableIsTyped DEF PutFinding
    <2>4. JobTyped(job)
      BY <2>1, <2>2 DEF JobTyped
    <2>5. job \in Jobs
      BY <2>1, <2>2, jobs[r][c] \in Jobs, RecordsStay
    <2>6. SetJob(r, c, job)
      BY <1>11 DEF PutFinding
    <2> HIDE DEF job
    <2> QED
      BY <1>11, <2>3, <2>4, <2>5, <2>6, JobStep DEF PutFinding
  <1>12. ASSUME NEW m \in Models, SwitchModel(m)
         PROVE  TypeInv'
    BY <1>12, ConstantsAssumption DEF SwitchModel, JobTyped
  <1>13. CASE Restart
    <2>1. \A r \in Reviews :
            /\ reviews'[r].case = reviews[r].case
            /\ reviews'[r].findings = reviews[r].findings
            /\ reviews'[r] \in Records
            /\ reviews'[r].status \in {"unstarted", "judging"} =>
                 reviews'[r].status = reviews[r].status
      <3>1. /\ DOMAIN AfterRestart = {"judging", "filed", "failed"}
            /\ \A x \in DOMAIN AfterRestart : AfterRestart[x] \in {"lost", "closed"}
        BY DEF AfterRestart
      <3> SUFFICES ASSUME NEW r \in Reviews
                   PROVE  /\ reviews'[r].case = reviews[r].case
                          /\ reviews'[r].findings = reviews[r].findings
                          /\ reviews'[r] \in Records
                          /\ reviews'[r].status \in {"unstarted", "judging"} =>
                               reviews'[r].status = reviews[r].status
        OBVIOUS
      <3>2. reviews[r] \in Records
        OBVIOUS
      <3>3. CASE reviews[r].status \in DOMAIN AfterRestart
        <4>1. reviews'[r] = [reviews[r] EXCEPT !.status = AfterRestart[reviews[r].status]]
          BY <1>13, <3>3 DEF Restart
        <4> QED
          BY <3>1, <3>2, <3>3, <4>1 DEF Records
      <3>4. CASE reviews[r].status \notin DOMAIN AfterRestart
        BY <1>13, <3>2, <3>4 DEF Restart
      <3> QED
        BY <3>3, <3>4
    <2>2. reviews' \in [Reviews -> Records]
      BY <1>13, <2>1 DEF Restart
    <2>3. restarts' \in 0..MaxRestarts
      BY <1>13, ConstantsAssumption DEF Restart
    <2> QED
      BY <1>13, <2>1, <2>2, <2>3 DEF Restart, JobTyped
  <1>14. CASE UNCHANGED vars
    BY <1>14 DEF vars, JobTyped
  <1> QED
    BY <1>1, <1>2, <1>3, <1>4, <1>5, <1>6, <1>7, <1>8, <1>9, <1>10, <1>11, <1>12,
       <1>13, <1>14 DEF Next

\* In every behaviour every judgement, review and row of the table is well formed.
THEOREM TypeCorrect == Spec => []TypeOK
  <1>1. TypeInv => TypeOK
    BY DEF TypeInv
  <1> QED
    BY <1>1, TypeInvInitially, TypeInvPreserved, PTL DEF Spec

-----------------------------------------------------------------------------
(* Verdicts, keys and sources.                                             *)

\* The row a finding's key names holds that finding's verdict.
Anchored(f) ==
    f.cache_key # NoKey =>
        /\ f.cache_key \in DOMAIN rows
        /\ f.by = rows[f.cache_key].finding.by
        /\ f.model = rows[f.cache_key].finding.model

\* Review s filed, as its own, the verdict `by` reached under this key.
Holds(s, key, by) ==
    \E g \in reviews[s].findings :
        g.cache_key = key /\ g.by = by /\ g.reused_from_review_id = None

Sourced(f) ==
    f.reused_from_review_id # None => Holds(f.reused_from_review_id, f.cache_key, f.by)

\* A finding of review r.
Sound(r, f) == f.case = reviews[r].case /\ Anchored(f) /\ Sourced(f)

JobInv(r, job) ==
    /\ job.pc \in {"keyed", "missed", "answered"} => job.key.case = reviews[r].case
    /\ job.pc = "answered" =>
         /\ job.finding.case = reviews[r].case
         /\ job.finding.reused_from_review_id = None
    /\ job.pc = "done" => Sound(r, job.finding)
    /\ reviews[r].status = "unstarted" => job.pc = "todo"

RowInv(key) ==
    /\ rows[key].finding.case = key.case
    /\ rows[key].finding.reused_from_review_id = None
    /\ rows[key].source # None => Holds(rows[key].source, key, rows[key].finding.by)

CacheInv ==
    /\ TypeInv
    /\ \A r \in Reviews, c \in Candidates : JobInv(r, jobs[r][c])
    /\ \A key \in DOMAIN rows : RowInv(key)
    /\ \A r \in Reviews : \A f \in reviews[r].findings : Sound(r, f)

\* What no step takes back: the verdict of a row, a filed finding, a review's case.
Grows ==
    /\ \A key \in DOMAIN rows :
         key \in DOMAIN rows' /\ rows'[key].finding = rows[key].finding
    /\ \A r \in Reviews :
         /\ reviews[r].findings \subseteq reviews'[r].findings
         /\ reviews[r].status # "unstarted" => reviews'[r].case = reviews[r].case
         /\ reviews'[r].status = "unstarted" => reviews[r].status = "unstarted"

LEMMA CacheInvInitially == Init => CacheInv
  <1> SUFFICES ASSUME Init PROVE CacheInv
    OBVIOUS
  <1>1. TypeInv
    BY TypeInvInitially
  <1>2. \A r \in Reviews, c \in Candidates : JobInv(r, jobs[r][c])
    BY DEF Init, JobInv, NoJob
  <1> QED
    BY <1>1, <1>2 DEF Init, CacheInv

\* The table only gains rows.
LEMMA TableGrows ==
    ASSUME NEW key, NEW f, rows' = Stored(key, f)
    PROVE  \A k \in DOMAIN rows :
             k \in DOMAIN rows' /\ rows'[k] = rows[k]
  BY DEF Stored

LEMMA StepsGrow == TypeInv /\ [Next]_vars => Grows
  <1> SUFFICES ASSUME TypeInv, [Next]_vars
               PROVE  Grows
    OBVIOUS
  <1> USE DEF Grows, TypeInv, TypeOK
  <1>0. \A r \in Reviews : reviews[r] \in Records
    OBVIOUS
  <1>1. ASSUME NEW r \in Reviews, NEW k \in Cases, Start(r, k) PROVE Grows
    BY <1>0, <1>1 DEF Start, Records
  <1>2. ASSUME NEW r \in Reviews, File(r) PROVE Grows
    BY <1>0, <1>2 DEF File, Records
  <1>3. ASSUME NEW r \in Reviews, Claim(r) PROVE Grows
    <2>1. \A key \in DOMAIN rows :
            key \in DOMAIN rows' /\ rows'[key].finding = rows[key].finding
      BY <1>3 DEF Claim, Rows
    <2> QED
      BY <1>0, <1>3, <2>1 DEF Claim, Records
  <1>4. ASSUME NEW r \in Reviews, Fail(r) PROVE Grows
    BY <1>0, <1>4 DEF Fail, Records
  <1>5. ASSUME NEW r \in Reviews, Delete(r) PROVE Grows
    BY <1>0, <1>5 DEF Delete, Records
  <1>6. ASSUME NEW r \in Reviews, NEW c \in Candidates, PutFinding(r, c) PROVE Grows
    BY <1>6, TableGrows DEF PutFinding
  <1>7. CASE UNCHANGED <<rows, reviews>>
    BY <1>7
  <1>8. CASE Restart
    <2>1. ASSUME NEW r \in Reviews
          PROVE  /\ reviews'[r].findings = reviews[r].findings
                 /\ reviews'[r].case = reviews[r].case
                 /\ reviews'[r].status = "unstarted" => reviews[r].status = "unstarted"
      BY <1>0, <1>8 DEF Restart, AfterRestart, Records
    <2> QED
      BY <1>8, <2>1 DEF Restart
  <1> QED
    BY <1>1, <1>2, <1>3, <1>4, <1>5, <1>6, <1>7, <1>8
       DEF Next, vars, Carry, BuildKey, Get, Judge, Raise, SwitchModel

\* What was tied before a step that only adds stays tied.
LEMMA HoldingStays ==
    ASSUME Grows, NEW s \in Reviews, NEW key, NEW by, Holds(s, key, by)
    PROVE  Holds(s, key, by)'
  BY DEF Grows, Holds

LEMMA SoundnessStays ==
    ASSUME Grows, NEW r \in Reviews, NEW f \in Findings, Sound(r, f),
           reviews[r].status # "unstarted"
    PROVE  Sound(r, f)'
  <1>1. f.case = reviews'[r].case
    BY DEF Grows, Sound
  <1>2. Anchored(f)'
    BY DEF Grows, Sound, Anchored
  <1>3. Sourced(f)'
    BY HoldingStays DEF Sound, Sourced, Findings
  <1> QED
    BY <1>1, <1>2, <1>3 DEF Sound

LEMMA JobsStay ==
    ASSUME Grows, NEW r \in Reviews, NEW job \in Jobs, JobTyped(job), JobInv(r, job)
    PROVE  JobInv(r, job)'
  <1>1. CASE reviews[r].status = "unstarted"
    BY <1>1 DEF JobInv
  <1>2. CASE reviews[r].status # "unstarted"
    <2>1. reviews'[r].case = reviews[r].case /\ reviews'[r].status # "unstarted"
      BY <1>2 DEF Grows
    <2>2. job.pc = "done" => Sound(r, job.finding)'
      BY <1>2, SoundnessStays DEF JobTyped, JobInv
    <2> QED
      BY <2>1, <2>2 DEF JobInv
  <1> QED
    BY <1>1, <1>2

LEMMA RowsStay ==
    ASSUME TypeInv, Grows, NEW key \in DOMAIN rows, RowInv(key),
           rows'[key].source = rows[key].source
    PROVE  RowInv(key)'
  <1>1. rows[key].source \in Reviews \cup {None}
    BY DEF TypeInv, TypeOK, Rows
  <1> QED
    BY <1>1, HoldingStays DEF RowInv, Grows

LEMMA FiledStay ==
    ASSUME TypeInv, Grows, NEW r \in Reviews, NEW f \in reviews[r].findings, Sound(r, f)
    PROVE  Sound(r, f)'
  <1>1. f \in Findings /\ reviews[r].status # "unstarted"
    BY DEF TypeInv, TypeOK, Records
  <1> QED
    BY <1>1, SoundnessStays

\* The three parts of CacheInv after a step, but for what the step itself writes.
LEMMA RestStays ==
    ASSUME CacheInv, TypeInv', Grows
    PROVE  /\ \A r \in Reviews, c \in Candidates :
                jobs'[r][c] = jobs[r][c] => JobInv(r, jobs[r][c])'
           /\ \A key \in DOMAIN rows : rows'[key].source = rows[key].source => RowInv(key)'
           /\ \A r \in Reviews : \A f \in reviews[r].findings : Sound(r, f)'
  <1>1. ASSUME NEW r \in Reviews, NEW c \in Candidates, jobs'[r][c] = jobs[r][c]
        PROVE  JobInv(r, jobs[r][c])'
    <2>1. jobs[r][c] \in Jobs
      BY DEF CacheInv, TypeInv, TypeOK
    <2>2. PICK job \in Jobs : job = jobs[r][c]
      BY <2>1
    <2>3. JobTyped(job) /\ JobInv(r, job)
      BY <2>2 DEF CacheInv, TypeInv
    <2>4. JobInv(r, job)'
      BY <2>3, JobsStay
    <2>5. jobs'[r][c] = job
      BY <1>1, <2>2
    <2> QED
      BY <2>4, <2>5
  <1>2. ASSUME NEW key \in DOMAIN rows, rows'[key].source = rows[key].source
        PROVE  RowInv(key)'
    BY <1>2, RowsStay DEF CacheInv
  <1>3. ASSUME NEW r \in Reviews, NEW f \in reviews[r].findings
        PROVE  Sound(r, f)'
    BY <1>3, FiledStay DEF CacheInv
  <1> QED
    BY <1>1, <1>2, <1>3

\* A step of one judgement that leaves the table and the reviews alone keeps
\* CacheInv if its job is sound.
LEMMA JobStepSound ==
    ASSUME CacheInv, TypeInv', Grows, UNCHANGED <<rows, reviews>>,
           NEW r \in Reviews, NEW c \in Candidates, NEW job, SetJob(r, c, job),
           JobInv(r, job)
    PROVE  CacheInv'
  <1>1. JobInv(r, job)'
    BY DEF JobInv, Sound, Anchored, Sourced, Holds
  <1>2. jobs'[r][c] = job
    BY DEF CacheInv, TypeInv, TypeOK, SetJob
  <1>3. ASSUME NEW s \in Reviews, NEW d \in Candidates
        PROVE  JobInv(s, jobs[s][d])'
    <2>1. CASE s = r /\ d = c
      BY <1>1, <1>2, <2>1
    <2>2. CASE ~(s = r /\ d = c)
      <3>1. jobs'[s][d] = jobs[s][d]
        BY <2>2 DEF CacheInv, TypeInv, TypeOK, SetJob
      <3> QED
        BY <3>1, RestStays
    <2> QED
      BY <2>1, <2>2
  <1>4. \A key \in DOMAIN rows : RowInv(key)'
    BY RestStays
  <1>5. \A s \in Reviews : \A f \in reviews[s].findings : Sound(s, f)'
    BY RestStays
  <1> QED
    BY <1>3, <1>4, <1>5 DEF CacheInv

\* A step that files nothing and leaves the table and the judgements alone.
LEMMA QuietStep ==
    ASSUME CacheInv, TypeInv', Grows, UNCHANGED <<rows, jobs>>,
           \A r \in Reviews : reviews'[r].findings = reviews[r].findings
    PROVE  CacheInv'
  <1>1. \A s \in Reviews, d \in Candidates : JobInv(s, jobs[s][d])'
    BY RestStays
  <1>2. \A key \in DOMAIN rows : RowInv(key)'
    BY RestStays
  <1>3. \A s \in Reviews : \A f \in reviews[s].findings : Sound(s, f)'
    BY RestStays
  <1> QED
    BY <1>1, <1>2, <1>3 DEF CacheInv

\* A review files the findings of its finished judgements.
LEMMA FilingStep ==
    ASSUME CacheInv, TypeInv', Grows, UNCHANGED <<rows, jobs>>,
           NEW r \in Reviews, reviews[r].status = "judging",
           \A s \in Reviews \ {r} : reviews'[s] = reviews[s],
           reviews'[r].findings = FindingsOf(r)
    PROVE  CacheInv'
  <1>1. \A s \in Reviews, d \in Candidates : JobInv(s, jobs[s][d])'
    BY RestStays
  <1>2. \A key \in DOMAIN rows : RowInv(key)'
    BY RestStays
  <1>3. ASSUME NEW s \in Reviews, NEW f \in reviews'[s].findings
        PROVE  Sound(s, f)'
    <2>1. CASE s = r
      <3>1. PICK c \in Candidates : jobs[r][c].pc = "done" /\ jobs[r][c].finding = f
        BY <2>1 DEF FindingsOf, Judged
      <3>2. Sound(r, f) /\ f \in Findings
        BY <3>1 DEF CacheInv, TypeInv, JobInv, JobTyped
      <3> QED
        BY <2>1, <3>2, SoundnessStays
    <2>2. CASE s # r
      BY <2>2, RestStays
    <2> QED
      BY <2>1, <2>2
  <1> QED
    BY <1>1, <1>2, <1>3 DEF CacheInv

LEMMA CacheInvPreserved == CacheInv /\ [Next]_vars => CacheInv'
  <1> SUFFICES ASSUME CacheInv, [Next]_vars
               PROVE  CacheInv'
    OBVIOUS
  <1>a. TypeInv /\ TypeInv' /\ Grows
    BY TypeInvPreserved, StepsGrow DEF CacheInv
  <1>b. \A r \in Reviews, c \in Candidates : JobInv(r, jobs[r][c])
    BY DEF CacheInv
  <1>1. ASSUME NEW r \in Reviews, NEW k \in Cases, Start(r, k)
        PROVE  CacheInv'
    <2>1. \A s \in Reviews : reviews'[s].findings = reviews[s].findings
      BY <1>a, <1>1 DEF Start, TypeInv, TypeOK, Records
    <2> QED
      BY <1>a, <1>1, <2>1, QuietStep DEF Start
  <1>2. ASSUME NEW r \in Reviews, NEW p \in Reviews, NEW f \in reviews[p].findings,
               Carry(r, p, f)
        PROVE  CacheInv'
    <2> DEFINE job == [NoJob EXCEPT !.pc = "done", !.finding = f]
    <2>1. Sound(r, f)
      BY <1>2 DEF Carry, CacheInv, Sound
    <2>2. JobInv(r, job)
      BY <1>2, <2>1 DEF Carry, NoJob, JobInv
    <2>3. f.candidate \in Candidates
      BY <1>a DEF TypeInv, TypeOK, Records, Findings
    <2>4. SetJob(r, f.candidate, job)
      BY <1>2 DEF Carry
    <2> HIDE DEF job
    <2> QED
      BY <1>a, <1>2, <2>2, <2>3, <2>4, JobStepSound DEF Carry
  <1>3. ASSUME NEW r \in Reviews, File(r)
        PROVE  CacheInv'
    <2>1. /\ reviews'[r].findings = FindingsOf(r)
          /\ \A s \in Reviews \ {r} : reviews'[s] = reviews[s]
      BY <1>a, <1>3 DEF File, TypeInv, TypeOK, Records
    <2> QED
      BY <1>a, <1>3, <2>1, FilingStep DEF File
  <1>4. ASSUME NEW r \in Reviews, Claim(r)
        PROVE  CacheInv'
    <2>1. \A s \in Reviews : reviews'[s].findings = reviews[s].findings
      BY <1>a, <1>4 DEF Claim, TypeInv, TypeOK, Records
    <2>2. \A s \in Reviews, d \in Candidates : JobInv(s, jobs[s][d])'
      BY <1>a, <1>4, RestStays DEF Claim
    <2>3. ASSUME NEW key \in DOMAIN rows
          PROVE  RowInv(key)'
      <3>1. CASE Claims(r, key)
        <4>1. PICK f \in reviews[r].findings :
                f.cache_key = key /\ f.reused_from_review_id = None
          BY <3>1 DEF Claims
        <4>2. key # NoKey
          BY <1>a, ConstantsAssumption DEF TypeInv, TypeOK
        <4>3. f.by = rows[key].finding.by
          BY <4>1, <4>2 DEF CacheInv, Sound, Anchored
        <4>4. Holds(r, key, rows[key].finding.by)
          BY <4>1, <4>3 DEF Holds
        <4>5. Holds(r, key, rows[key].finding.by)'
          <5>1. PICK by : by = rows[key].finding.by
            OBVIOUS
          <5>2. Holds(r, key, by)'
            BY <1>a, <4>4, <5>1, HoldingStays
          <5> QED
            BY <1>a, <5>1, <5>2 DEF Grows
        <4>6. rows'[key].source = r /\ rows'[key].finding = rows[key].finding
          BY <1>a, <1>4, <3>1 DEF Claim, TypeInv, TypeOK, Rows
        <4> QED
          BY <4>5, <4>6 DEF RowInv, CacheInv
      <3>2. CASE ~Claims(r, key)
        <4>1. rows'[key] = rows[key]
          BY <1>4, <3>2 DEF Claim
        <4> QED
          BY <1>a, <4>1, RestStays
      <3> QED
        BY <3>1, <3>2
    <2>4. \A s \in Reviews : \A f \in reviews[s].findings : Sound(s, f)'
      BY <1>a, RestStays
    <2>5. DOMAIN rows' = DOMAIN rows
      BY <1>4 DEF Claim
    <2> QED
      BY <1>a, <2>1, <2>2, <2>3, <2>4, <2>5 DEF CacheInv
  <1>5. ASSUME NEW r \in Reviews, Fail(r)
        PROVE  CacheInv'
    <2>1. /\ reviews'[r].findings = FindingsOf(r)
          /\ \A s \in Reviews \ {r} : reviews'[s] = reviews[s]
      BY <1>a, <1>5 DEF Fail, TypeInv, TypeOK, Records
    <2> QED
      BY <1>a, <1>5, <2>1, FilingStep DEF Fail
  <1>6. ASSUME NEW r \in Reviews, Delete(r)
        PROVE  CacheInv'
    <2>1. \A s \in Reviews : reviews'[s].findings = reviews[s].findings
      BY <1>a, <1>6 DEF Delete, TypeInv, TypeOK, Records
    <2> QED
      BY <1>a, <1>6, <2>1, QuietStep DEF Delete
  <1>7. ASSUME NEW r \in Reviews, NEW c \in Candidates, BuildKey(r, c)
        PROVE  CacheInv'
    <2> DEFINE job == [jobs[r][c] EXCEPT !.pc = "keyed",
                                         !.key = Key(c, reviews[r].case, selection)]
    <2>1. JobInv(r, job)
      BY <1>a, <1>7 DEF BuildKey, At, JobInv, Key, TypeInv, TypeOK, Jobs
    <2>2. SetJob(r, c, job)
      BY <1>7 DEF BuildKey
    <2> HIDE DEF job
    <2> QED
      BY <1>a, <1>7, <2>1, <2>2, JobStepSound DEF BuildKey
  <1>8. ASSUME NEW r \in Reviews, NEW c \in Candidates, Get(r, c)
        PROVE  CacheInv'
    <2> DEFINE key == jobs[r][c].key
    <2>1. /\ jobs[r][c] \in Jobs /\ key \in Keys /\ key.case = reviews[r].case
          /\ reviews[r].status = "judging"
      BY <1>a, <1>b, <1>8 DEF Get, At, TypeInv, TypeOK, JobTyped, JobInv
    <2>2. CASE key \in DOMAIN rows
      <3> DEFINE job == [pc |-> "done", key |-> key, finding |-> Got(key)]
      <3>1. rows[key] \in Rows /\ RowInv(key)
        BY <1>a, <2>2 DEF TypeInv, TypeOK, CacheInv
      <3>2. /\ Got(key).case = rows[key].finding.case
            /\ Got(key).cache_key = key
            /\ Got(key).by = rows[key].finding.by
            /\ Got(key).model = rows[key].finding.model
            /\ Got(key).reused_from_review_id = rows[key].source
        BY <3>1 DEF Got, Rows, Findings
      <3>3. Sound(r, Got(key))
        BY <2>1, <2>2, <3>1, <3>2 DEF Sound, Anchored, Sourced, RowInv
      <3>4. JobInv(r, job)
        BY <2>1, <3>3 DEF JobInv
      <3>5. SetJob(r, c, job)
        BY <1>8, <2>2 DEF Get
      <3> HIDE DEF job
      <3> QED
        BY <1>a, <1>8, <3>4, <3>5, JobStepSound DEF Get
    <2>3. CASE key \notin DOMAIN rows
      <3> DEFINE job == [jobs[r][c] EXCEPT !.pc = "missed"]
      <3>1. JobInv(r, job)
        BY <2>1 DEF JobInv, Jobs
      <3>2. SetJob(r, c, job)
        BY <1>8, <2>3 DEF Get
      <3> HIDE DEF job
      <3> QED
        BY <1>a, <1>8, <3>1, <3>2, JobStepSound DEF Get
    <2> QED
      BY <2>2, <2>3
  <1>9. ASSUME NEW r \in Reviews, NEW c \in Candidates, NEW looked \in BOOLEAN,
               Judge(r, c, looked)
        PROVE  CacheInv'
    <2> DEFINE f == [candidate |-> c, case |-> reviews[r].case, model |-> selection,
                     by |-> r, looked |-> looked, cache_key |-> NoKey,
                     reused_from_review_id |-> None]
    <2> DEFINE job == [jobs[r][c] EXCEPT !.pc = IF IsStored(f) THEN "answered" ELSE "done",
                                         !.finding = f]
    <2>1. /\ jobs[r][c] \in Jobs /\ jobs[r][c].key.case = reviews[r].case
          /\ reviews[r].status = "judging"
      BY <1>a, <1>b, <1>9 DEF Judge, At, TypeInv, TypeOK, JobInv
    <2>2. SetJob(r, c, job)
      BY <1>9 DEF Judge
    <2>3. f.case = reviews[r].case /\ f.reused_from_review_id = None /\ Sound(r, f)
      BY DEF Sound, Anchored, Sourced
    <2> HIDE DEF f
    <2>4. job.pc \in {"answered", "done"} /\ job.finding = f /\ job.key = jobs[r][c].key
      BY <2>1 DEF Jobs
    <2> HIDE DEF job
    <2>5. JobInv(r, job)
      BY <2>1, <2>3, <2>4 DEF JobInv
    <2> QED
      BY <1>a, <1>9, <2>2, <2>5, JobStepSound DEF Judge
  <1>10. ASSUME NEW r \in Reviews, NEW c \in Candidates, Raise(r, c)
         PROVE  CacheInv'
    <2> DEFINE job == [jobs[r][c] EXCEPT !.pc = "raised"]
    <2>1. JobInv(r, job)
      BY <1>a, <1>10 DEF Raise, At, JobInv, TypeInv, TypeOK, Jobs
    <2>2. SetJob(r, c, job)
      BY <1>10 DEF Raise
    <2> HIDE DEF job
    <2> QED
      BY <1>a, <1>10, <2>1, <2>2, JobStepSound DEF Raise
  <1>11. ASSUME NEW r \in Reviews, NEW c \in Candidates, PutFinding(r, c)
         PROVE  CacheInv'
    <2>k. PICK key \in Keys : key = jobs[r][c].key
      BY <1>a, <1>11 DEF PutFinding, At, TypeInv, JobTyped
    <2>f. PICK f \in Findings : f = jobs[r][c].finding
      BY <1>a, <1>11 DEF PutFinding, At, TypeInv, JobTyped
    <2>1. /\ jobs[r][c] \in Jobs /\ key \in Keys /\ f \in Findings
          /\ key.case = reviews[r].case /\ f.case = reviews[r].case
          /\ f.reused_from_review_id = None /\ reviews[r].status = "judging"
      BY <1>a, <1>b, <1>11, <2>k, <2>f DEF PutFinding, At, TypeInv, TypeOK, JobTyped, JobInv
    <2>2. /\ rows' = Stored(key, f)
          /\ SetJob(r, c, [jobs[r][c] EXCEPT !.pc = "done", !.finding = Put(key, f)])
          /\ UNCHANGED reviews
      BY <1>11, <2>k, <2>f DEF PutFinding
    <2>3. /\ key \in DOMAIN rows'
          /\ \A k \in DOMAIN rows' : k # key => k \in DOMAIN rows
          /\ \A k \in DOMAIN rows : rows'[k] = rows[k]
          /\ key \notin DOMAIN rows =>
               rows'[key] = [finding |-> [f EXCEPT !.cache_key = NoKey], source |-> None]
      BY <2>2 DEF Stored
    <2>4. ASSUME NEW k \in DOMAIN rows'
          PROVE  RowInv(k)'
      <3>1. CASE k \in DOMAIN rows
        BY <1>a, <2>3, <3>1, RestStays
      <3>2. CASE k \notin DOMAIN rows
        <4>1. k = key /\ rows'[k].source = None
          BY <2>3, <3>2
        <4>2. rows'[k].finding.case = f.case /\ rows'[k].finding.reused_from_review_id = None
          BY <2>1, <2>3, <3>2, <4>1 DEF Findings
        <4> QED
          BY <2>1, <4>1, <4>2 DEF RowInv
      <3> QED
        BY <3>1, <3>2
    <2>5. rows'[key] \in Rows /\ RowInv(key)'
      BY <1>a, <2>3, <2>4 DEF TypeInv, TypeOK
    <2>6. Put(key, f) = [rows'[key].finding EXCEPT !.cache_key = key]
      BY <2>2 DEF Put
    <2>7. /\ Put(key, f).case = rows'[key].finding.case
          /\ Put(key, f).cache_key = key
          /\ Put(key, f).by = rows'[key].finding.by
          /\ Put(key, f).model = rows'[key].finding.model
          /\ Put(key, f).reused_from_review_id = None
      BY <2>5, <2>6 DEF Rows, Findings, RowInv
    <2>8. PICK job : job = [jobs[r][c] EXCEPT !.pc = "done", !.finding = Put(key, f)]
      OBVIOUS
    <2>9. PICK g : g = Put(key, f)
      OBVIOUS
    <2>10. Sound(r, g)'
      BY <2>1, <2>2, <2>3, <2>5, <2>7, <2>9 DEF Sound, Anchored, Sourced, RowInv
    <2>11. job.pc = "done" /\ job.finding = g /\ jobs'[r][c] = job
      BY <1>a, <2>1, <2>2, <2>8, <2>9 DEF Jobs, SetJob, TypeInv, TypeOK
    <2>12. JobInv(r, job)'
      BY <2>1, <2>2, <2>10, <2>11 DEF JobInv
    <2>13. ASSUME NEW s \in Reviews, NEW d \in Candidates
           PROVE  JobInv(s, jobs[s][d])'
      <3>1. CASE s = r /\ d = c
        BY <2>11, <2>12, <3>1
      <3>2. CASE ~(s = r /\ d = c)
        <4>1. jobs'[s][d] = jobs[s][d]
          BY <1>a, <2>2, <3>2 DEF SetJob, TypeInv, TypeOK
        <4> QED
          BY <1>a, <4>1, RestStays
      <3> QED
        BY <3>1, <3>2
    <2>14. \A s \in Reviews : \A h \in reviews'[s].findings : Sound(s, h)'
      BY <1>a, <2>2, RestStays
    <2> QED
      BY <1>a, <2>4, <2>13, <2>14 DEF CacheInv
  <1>12. ASSUME NEW m \in Models, SwitchModel(m)
         PROVE  CacheInv'
    BY <1>a, <1>12, QuietStep DEF SwitchModel
  <1>13. CASE Restart
    <2>1. \A r \in Reviews : reviews'[r].findings = reviews[r].findings
      BY <1>a, <1>13 DEF Restart, AfterRestart, TypeInv, TypeOK, Records
    <2> QED
      BY <1>a, <1>13, <2>1, QuietStep DEF Restart
  <1>14. CASE UNCHANGED vars
    BY <1>a, <1>14, QuietStep DEF vars
  <1> QED
    BY <1>1, <1>2, <1>3, <1>4, <1>5, <1>6, <1>7, <1>8, <1>9, <1>10, <1>11, <1>12,
       <1>13, <1>14 DEF Next

-----------------------------------------------------------------------------
\* However many reviews miss one key at once, whatever they reach and whenever the
\* process restarts, all findings under a key are one verdict.
THEOREM OneVerdict == Spec => []OneVerdictPerKey
  <1>1. CacheInv => OneVerdictPerKey
    BY DEF CacheInv, Sound, Anchored, OneVerdictPerKey, Filed
  <1> QED
    BY <1>1, CacheInvInitially, CacheInvPreserved, PTL DEF Spec

\* No review files a verdict reached under another case, on any of the three ways a
\* finding comes to it.
THEOREM OwnCase == Spec => []VerdictsAnswerTheirCase
  <1>1. CacheInv => VerdictsAnswerTheirCase
    BY DEF CacheInv, Sound, VerdictsAnswerTheirCase, Filed
  <1> QED
    BY <1>1, CacheInvInitially, CacheInvPreserved, PTL DEF Spec

\* "carried from review X" is true of X, whatever fell between a review's filing and
\* its claim.
THEOREM TrueSources == Spec => []SourcesHoldTheirVerdict
  <1>1. CacheInv => SourcesHoldTheirVerdict
    BY DEF CacheInv, Sound, Sourced, Holds, SourcesHoldTheirVerdict, Filed
  <1> QED
    BY <1>1, CacheInvInitially, CacheInvPreserved, PTL DEF Spec


-----------------------------------------------------------------------------
\* The verdicts that rest on a tool

\* No row has one, and none is on its way to a row.
ToolInv ==
    /\ \A key \in DOMAIN rows : ~rows[key].finding.looked
    /\ \A r \in Reviews, c \in Candidates : jobs[r][c].pc = "answered" => ~jobs[r][c].finding.looked
    /\ ToolVerdictsAreNotShared

\* What a judgement may hold: a verdict that rests on a tool is its own review's, unless no
\* key led to it.
MayHold(r, job) ==
    /\ job.pc = "answered" => ~job.finding.looked
    /\ job.pc = "done" /\ job.finding.looked /\ job.key # NoKey => job.finding.by = r

LEMMA JobStepShares ==
    ASSUME TypeInv, ToolInv, NEW r \in Reviews, NEW c \in Candidates, NEW job, SetJob(r, c, job), MayHold(r, job),
           \A key \in DOMAIN rows' : ~rows'[key].finding.looked
    PROVE  ToolInv'
<1>1. \A s \in Reviews, d \in Candidates : jobs'[s][d] = IF s = r /\ d = c THEN job ELSE jobs[s][d]
  BY DEF SetJob, TypeInv, TypeOK
<1>2. \A s \in Reviews, d \in Candidates : MayHold(s, jobs'[s][d])
  BY <1>1 DEF ToolInv, ToolVerdictsAreNotShared, MayHold
<1> QED
  BY <1>2 DEF ToolInv, ToolVerdictsAreNotShared, MayHold

LEMMA ToolInvPreserved == TypeInv /\ ToolInv /\ [Next]_vars => ToolInv'
<1> SUFFICES ASSUME TypeInv, ToolInv, [Next]_vars PROVE ToolInv'
  OBVIOUS
<1>1. \A r \in Reviews, c \in Candidates : jobs[r][c] \in Jobs /\ JobTyped(jobs[r][c])
  BY DEF TypeInv, TypeOK
<1>2. ASSUME jobs' = jobs, \A key \in DOMAIN rows' : key \in DOMAIN rows /\ rows'[key].finding = rows[key].finding
      PROVE  ToolInv'
  BY <1>2 DEF ToolInv, ToolVerdictsAreNotShared
<1>3. ASSUME NEW r \in Reviews, NEW p \in Reviews, NEW f, Carry(r, p, f), f \in reviews[p].findings
      PROVE  ToolInv'
  <2> DEFINE job == [NoJob EXCEPT !.pc = "done", !.finding = f]
  <2>1. job.pc = "done" /\ job.key = NoKey
    BY DEF NoJob
  <2>2. f.candidate \in Candidates
    BY <1>3 DEF TypeInv, TypeOK, Records, Findings
  <2>3. SetJob(r, f.candidate, job) /\ rows' = rows
    BY <1>3 DEF Carry
  <2> HIDE DEF job
  <2> QED
    BY <2>1, <2>2, <2>3, JobStepShares DEF MayHold, ToolInv
<1>4. ASSUME NEW r \in Reviews, NEW c \in Candidates, BuildKey(r, c) \/ Raise(r, c)
      PROVE  ToolInv'
  <2>1. PICK job : SetJob(r, c, job) /\ job.pc \in {"keyed", "raised"} /\ rows' = rows
    BY <1>1, <1>4 DEF BuildKey, Raise, Jobs
  <2> QED
    BY <2>1, JobStepShares DEF MayHold, ToolInv
<1>5. ASSUME NEW r \in Reviews, NEW c \in Candidates, Get(r, c)
      PROVE  ToolInv'
  <2> DEFINE key == jobs[r][c].key
             job == IF key \in DOMAIN rows
                    THEN [pc |-> "done", key |-> key, finding |-> Got(key)]
                    ELSE [jobs[r][c] EXCEPT !.pc = "missed"]
  <2>1. SetJob(r, c, job) /\ rows' = rows
    BY <1>5 DEF Get
  <2>2. key \in DOMAIN rows => rows[key].finding \in Findings /\ ~rows[key].finding.looked
    BY DEF TypeInv, TypeOK, Rows, ToolInv
  <2>3. key \in DOMAIN rows => Got(key).looked = rows[key].finding.looked
    BY <2>2 DEF Got, Findings
  <2>4. MayHold(r, job)
    BY <1>1, <2>2, <2>3 DEF MayHold, Jobs
  <2> HIDE DEF job
  <2> QED
    BY <2>1, <2>4, JobStepShares DEF ToolInv
<1>6. ASSUME NEW r \in Reviews, NEW c \in Candidates, NEW looked \in BOOLEAN, Judge(r, c, looked)
      PROVE  ToolInv'
  <2> DEFINE f == [candidate |-> c, case |-> reviews[r].case, model |-> selection, by |-> r,
                   looked |-> looked, cache_key |-> NoKey, reused_from_review_id |-> None]
             job == [jobs[r][c] EXCEPT !.pc = IF IsStored(f) THEN "answered" ELSE "done", !.finding = f]
  <2>1. SetJob(r, c, job) /\ rows' = rows
    BY <1>6 DEF Judge
  <2>2. f.by = r /\ (IsStored(f) => ~f.looked)
    BY DEF IsStored
  <2>3. job.pc = (IF IsStored(f) THEN "answered" ELSE "done") /\ job.finding = f
    BY <1>1 DEF Jobs
  <2> HIDE DEF job, f
  <2>4. MayHold(r, job)
    BY <2>2, <2>3 DEF MayHold
  <2> QED
    BY <2>1, <2>4, JobStepShares DEF ToolInv
<1>7. ASSUME NEW r \in Reviews, NEW c \in Candidates, PutFinding(r, c)
      PROVE  ToolInv'
  <2> DEFINE key == jobs[r][c].key
             f == jobs[r][c].finding
             job == [jobs[r][c] EXCEPT !.pc = "done", !.finding = Put(key, f)]
  <2>1. SetJob(r, c, job) /\ rows' = Stored(key, f)
    BY <1>7 DEF PutFinding
  <2>2. key \in Keys /\ f \in Findings /\ ~f.looked
    BY <1>1, <1>7 DEF PutFinding, At, JobTyped, ToolInv
  <2>3. \A k \in DOMAIN Stored(key, f) :
           Stored(key, f)[k].finding \in Findings /\ ~Stored(key, f)[k].finding.looked
    BY <2>2 DEF Stored, ToolInv, TypeInv, TypeOK, Rows, Findings
  <2>4. ~Put(key, f).looked
    <3>1. key \in DOMAIN Stored(key, f)
      BY DEF Stored
    <3> QED
      BY <2>3, <3>1 DEF Put, Findings
  <2>5. job.finding = Put(key, f) /\ job.pc = "done"
    BY <1>1 DEF Jobs
  <2> HIDE DEF job, f, key
  <2>6. MayHold(r, job)
    BY <2>4, <2>5 DEF MayHold
  <2> QED
    BY <2>1, <2>3, <2>6, JobStepShares
<1>8. ASSUME NEW r \in Reviews, Claim(r)
      PROVE  ToolInv'
  <2>1. \A key \in DOMAIN rows : rows[key] \in Rows
    BY DEF TypeInv, TypeOK
  <2>2. jobs' = jobs /\ \A key \in DOMAIN rows' : key \in DOMAIN rows /\ rows'[key].finding = rows[key].finding
    BY <1>8, <2>1 DEF Claim, Rows
  <2> QED
    BY <1>2, <2>2
<1>9. ASSUME jobs' = jobs, rows' = rows
      PROVE  ToolInv'
  BY <1>2, <1>9
<1>10. CASE UNCHANGED vars
  BY <1>9, <1>10 DEF vars
<1>11. CASE Restart \/ \E m \in Models : SwitchModel(m)
  BY <1>9, <1>11 DEF Restart, SwitchModel
<1>12. ASSUME NEW r \in Reviews, (\E k \in Cases : Start(r, k)) \/ File(r) \/ Fail(r) \/ Delete(r)
       PROVE  ToolInv'
  BY <1>9, <1>12 DEF Start, File, Fail, Delete
<1> QED
  BY <1>3, <1>4, <1>5, <1>6, <1>7, <1>8, <1>10, <1>11, <1>12 DEF Next

\* ToolVerdictsAreNotShared: whoever misses one key at once and whatever tools answer, what a
\* review finds in the table rests on no tool (reasoning/cache.py).
THEOREM ToolsStayWithTheirReview == Spec => []ToolVerdictsAreNotShared
<1>1. Init => ToolInv
  BY DEF Init, ToolInv, ToolVerdictsAreNotShared, NoJob
<1>2. ToolInv => ToolVerdictsAreNotShared
  BY DEF ToolInv
<1> QED
  BY <1>1, <1>2, TypeInvInitially, TypeInvPreserved, ToolInvPreserved, PTL DEF Spec
=============================================================================

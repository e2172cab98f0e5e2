------------------------- MODULE BranchReviewsProofs -------------------------
(***************************************************************************)
(* Theorems of BranchReviews: what carries from one review of a branch to  *)
(* the next, for any candidates, versions, models, corpora and rounds and  *)
(* any number of reviews that overlap in any way.                          *)
(***************************************************************************)
EXTENDS BranchReviews, FiniteSetTheorems, TLAPS

Pcs == {"idle", "loaded", "selected", "judging", "waiting", "stopped", "done"}
Statuses == {None, "awaiting_answers", "completed", "cancelled", "failed"}
Verdicts == [version : Versions, case : Nat, model : Models, corpus : Corpora]
FindingMaps == UNION {[D -> Verdicts] : D \in SUBSET Candidates}
CorpusMaps == UNION {[D -> Corpora] : D \in SUBSET Candidates}
Rows ==
    [review : Nat, sequence : Nat, status : Statuses, case : Nat, findings : FindingMaps, manifest : CorpusMaps,
     sound : BOOLEAN]
Contents == [Candidates -> Versions \cup {Absent}]
RunStates ==
    [pc : Pcs, previous : Rows, historical : SUBSET Candidates, content : Contents, case : Nat, base : Nat,
     opened : BOOLEAN, round : 1..LastRound, model : Models \cup {None}, delta : Corpora \cup {None},
     corpus : Corpora \cup {None}, carried : SUBSET Candidates, addressed : SUBSET Candidates,
     selected : SUBSET Candidates, findings : FindingMaps, retrieved : CorpusMaps]

\* Every verdict is under a case there was.
CasesAreKnown(findings, known) == \A c \in DOMAIN findings : findings[c].case \in 1..known

RowIsTyped(row, known) ==
    /\ row.review \in Reviews /\ row.status # None
    /\ row.sequence \in 1..row.review
    /\ row.case \in 1..known /\ CasesAreKnown(row.findings, known)

\* What a review works on is there, and a wait leaves a round to judge the answers in.
RunIsTyped(r, v, known) ==
    /\ v \in RunStates
    /\ CasesAreKnown(v.findings, known) /\ CasesAreKnown(v.previous.findings, known)
    /\ v.previous.sequence < r
    /\ \A c \in v.selected : v.content[c] # Absent
    /\ v.pc \notin {"idle", "done"} => v.case \in 1..known
    /\ v.pc \in {"judging", "waiting", "stopped"} => v.corpus \in Corpora
    /\ v.pc = "waiting" => v.round < LastRound

\* Reviews begin in their order.
ReviewsBeginInOrder == \A q, r \in Reviews : q < r /\ run[r].pc # "idle" => run[q].pc # "idle"

\* Some row has the highest number, and is the last of that number.
HasAHighest ==
    store # <<>> =>
        \E n \in NewestPerRevision : \A j \in DOMAIN store : store[j].sequence <= store[n].sequence

WorldIsTyped ==
    /\ content \in Contents /\ cases \in Nat /\ case \in 1..cases /\ model \in Models /\ corpus \in Corpora

StoreIsTyped ==
    /\ store \in Seq(Rows)
    /\ \A i \in DOMAIN store : RowIsTyped(store[i], cases) /\ run[store[i].review].pc # "idle"
    /\ HasAHighest

RunsAreTyped ==
    /\ run \in [Reviews -> RunStates]
    /\ \A r \in Reviews : RunIsTyped(r, run[r], cases)
    /\ ReviewsBeginInOrder

TypeInv == WorldIsTyped /\ StoreIsTyped /\ RunsAreTyped

LEMMA Empty ==
    /\ Nothing \in FindingMaps /\ Nothing \in CorpusMaps /\ DOMAIN Nothing = {}
    /\ NoPrevious \in Rows /\ NoPrevious.findings = Nothing /\ NoPrevious.manifest = Nothing
    /\ NoPrevious.sequence = 0 /\ NoPrevious.sound
<1>1. Nothing \in [{} -> Verdicts] /\ Nothing \in [{} -> Corpora] /\ DOMAIN Nothing = {}
  BY DEF Nothing
<1>2. Nothing \in FindingMaps /\ Nothing \in CorpusMaps
  BY <1>1 DEF FindingMaps, CorpusMaps
<1> QED
  BY <1>1, <1>2 DEF NoPrevious, Rows, Statuses

LEMMA MapsAreMaps ==
    /\ \A m \in FindingMaps : DOMAIN m \subseteq Candidates /\ \A c \in DOMAIN m : m[c] \in Verdicts
    /\ \A m \in CorpusMaps : DOMAIN m \subseteq Candidates /\ \A c \in DOMAIN m : m[c] \in Corpora
BY DEF FindingMaps, CorpusMaps

LEMMA MapsAreMade ==
    ASSUME NEW D \in SUBSET Candidates, NEW m, m = [c \in D |-> m[c]]
    PROVE  /\ (\A c \in D : m[c] \in Verdicts) => m \in FindingMaps
           /\ (\A c \in D : m[c] \in Corpora) => m \in CorpusMaps
<1>1. (\A c \in D : m[c] \in Verdicts) => m \in [D -> Verdicts]
  OBVIOUS
<1>2. (\A c \in D : m[c] \in Corpora) => m \in [D -> Corpora]
  OBVIOUS
<1> QED
  BY <1>1, <1>2 DEF FindingMaps, CorpusMaps

\* A map with one more entry.
LEMMA WithOneMore ==
    ASSUME NEW m, NEW c \in Candidates, NEW value
    PROVE  /\ DOMAIN With(m, c, value) = DOMAIN m \cup {c}
           /\ With(m, c, value)[c] = value
           /\ \A d \in DOMAIN m : d # c => With(m, c, value)[d] = m[d]
           /\ m \in FindingMaps /\ value \in Verdicts => With(m, c, value) \in FindingMaps
           /\ m \in CorpusMaps /\ value \in Corpora => With(m, c, value) \in CorpusMaps
<1> DEFINE n == With(m, c, value)
<1>1. /\ DOMAIN n = DOMAIN m \cup {c} /\ n = [d \in DOMAIN m \cup {c} |-> n[d]]
      /\ n[c] = value /\ \A d \in DOMAIN m : d # c => n[d] = m[d]
  BY DEF With
<1> HIDE DEF n
<1>2. m \in FindingMaps /\ value \in Verdicts => n \in FindingMaps
  BY <1>1, MapsAreMaps, MapsAreMade
<1>3. m \in CorpusMaps /\ value \in Corpora => n \in CorpusMaps
  BY <1>1, MapsAreMaps, MapsAreMade
<1> QED
  BY <1>1, <1>2, <1>3 DEF n

-----------------------------------------------------------------------------
\* What each step makes of its review

Loaded(r) ==
    [run[r] EXCEPT !.pc = "loaded", !.case = case, !.previous = Latest, !.historical = Historical]
ComparedWith(u, code, m, p, carried, addressed, selected, kept) ==
    [u EXCEPT !.pc = "selected", !.content = code, !.model = m, !.delta = p, !.carried = carried,
              !.addressed = addressed, !.selected = selected, !.findings = kept]
Compared(r) ==
    ComparedWith(run[r], content, model, corpus, Unchanged(r), Addressed(r), Present \ Unchanged(r),
                 [c \in Unchanged(r) |-> run[r].previous.findings[c]])
Begun(r) == [run[r] EXCEPT !.pc = "judging", !.corpus = corpus]
Verdict(r, c) ==
    [version |-> run[r].content[c], case |-> run[r].case, model |-> model, corpus |-> run[r].corpus]
JudgedOne(r, c) ==
    [run[r] EXCEPT !.selected = @ \ {c}, !.findings = With(@, c, Verdict(r, c)),
                   !.retrieved = With(@, c, run[r].corpus)]
Asked(r) == [run[r] EXCEPT !.pc = "waiting"]
Answered(r, stop) ==
    [run[r] EXCEPT !.pc = IF stop THEN "stopped" ELSE "judging", !.case = cases', !.opened = TRUE, !.round = @ + 1,
                   !.base = IF run[r].opened THEN @ ELSE case,
                   !.selected = IF stop THEN {} ELSE {c \in Candidates : run[r].content[c] # Absent}]
Done == [IdleRun EXCEPT !.pc = "done"]

Becomes(r, v) == run' = [run EXCEPT ![r] = v]

\* The row a review files.
Row(r, status, manifest, sound) ==
    [review |-> r, sequence |-> Sequence(r), status |-> status, case |-> run[r].case,
     findings |-> run[r].findings, manifest |-> manifest, sound |-> sound /\ run[r].previous.sound]

LEMMA Effects ==
    ASSUME run \in [Reviews -> RunStates], NEW r \in Reviews
    PROVE  /\ LoadContext(r) => Becomes(r, Loaded(r))
           /\ CalculateDelta(r) => Becomes(r, Compared(r))
           /\ Refuse(r) => Becomes(r, Done)
           /\ LoadPolicyCorpus(r) => Becomes(r, Begun(r))
           /\ \A c \in Candidates : JudgeCandidate(r, c) => Becomes(r, JudgedOne(r, c))
           /\ Ask(r) => Becomes(r, Asked(r))
           /\ Answer(r) => \E stop \in BOOLEAN : Becomes(r, Answered(r, stop))
           /\ Complete(r) \/ CancelWaiting(r) \/ Fail(r) => Becomes(r, Done)
<1> USE DEF Becomes
<1>1. run[r] \in RunStates
  OBVIOUS
<1>2. LoadContext(r) => Becomes(r, Loaded(r))
  BY <1>1 DEF LoadContext, Loaded, RunStates
<1>3. CalculateDelta(r) => Becomes(r, Compared(r))
  BY <1>1 DEF CalculateDelta, Compared, ComparedWith, RunStates
<1>4. LoadPolicyCorpus(r) => Becomes(r, Begun(r))
  BY <1>1 DEF LoadPolicyCorpus, Begun, RunStates
<1>5. ASSUME NEW c \in Candidates, JudgeCandidate(r, c)
      PROVE  Becomes(r, JudgedOne(r, c))
  BY <1>1, <1>5 DEF JudgeCandidate, JudgedOne, Verdict, RunStates
<1>6. Ask(r) => Becomes(r, Asked(r))
  BY <1>1 DEF Ask, Asked, RunStates
<1>7. ASSUME Answer(r)
      PROVE  \E stop \in BOOLEAN : Becomes(r, Answered(r, stop))
  <2>1. PICK stop \in BOOLEAN :
           run' = [run EXCEPT
             ![r].pc = IF stop THEN "stopped" ELSE "judging",
             ![r].case = cases', ![r].opened = TRUE, ![r].round = @ + 1,
             ![r].base = IF run[r].opened THEN @ ELSE case,
             ![r].selected =
                IF stop THEN {} ELSE {c \in Candidates : run[r].content[c] # Absent}]
    BY <1>7 DEF Answer
  <2>2. Becomes(r, Answered(r, stop))
    BY <1>1, <2>1 DEF Answered, RunStates
  <2> QED
    BY <2>2
<1>8. Refuse(r) \/ Complete(r) \/ CancelWaiting(r) \/ Fail(r) => Becomes(r, Done)
  BY DEF Refuse, Complete, CancelWaiting, Fail, Done
<1> QED
  BY <1>2, <1>3, <1>4, <1>5, <1>6, <1>7, <1>8

LEMMA OneReviewMoves ==
    ASSUME run \in [Reviews -> RunStates], NEW r \in Reviews, NEW v, Becomes(r, v)
    PROVE  /\ run'[r] = v /\ \A q \in Reviews : q # r => run'[q] = run[q]
           /\ v \in RunStates => run' \in [Reviews -> RunStates]
BY DEF Becomes

\* The fields that change, and the ones a property reads.
LEMMA FieldsOfStates ==
    ASSUME run \in [Reviews -> RunStates], NEW r \in Reviews
    PROVE  /\ LET v == Loaded(r)
              IN  /\ v.pc = "loaded" /\ v.case = case /\ v.previous = Latest
                  /\ v.findings = run[r].findings /\ v.retrieved = run[r].retrieved
                  /\ v.content = run[r].content /\ v.selected = run[r].selected
           /\ LET v == Compared(r)
              IN  /\ v.pc = "selected" /\ v.case = run[r].case /\ v.previous = run[r].previous
                  /\ v.findings = [c \in Unchanged(r) |-> run[r].previous.findings[c]]
                  /\ v.retrieved = run[r].retrieved /\ v.content = content /\ v.selected = Present \ Unchanged(r)
                  /\ v.carried = Unchanged(r) /\ v.addressed = Addressed(r) /\ v.model = model /\ v.delta = corpus
           /\ LET v == Begun(r)
              IN  /\ v.pc = "judging" /\ v.case = run[r].case /\ v.previous = run[r].previous
                  /\ v.findings = run[r].findings /\ v.retrieved = run[r].retrieved
                  /\ v.content = run[r].content /\ v.selected = run[r].selected /\ v.corpus = corpus
           /\ \A c \in Candidates : LET v == JudgedOne(r, c)
              IN  /\ v.pc = run[r].pc /\ v.case = run[r].case /\ v.previous = run[r].previous
                  /\ v.findings = With(run[r].findings, c, Verdict(r, c))
                  /\ v.retrieved = With(run[r].retrieved, c, run[r].corpus)
                  /\ v.content = run[r].content /\ v.selected = run[r].selected \ {c}
                  /\ v.corpus = run[r].corpus /\ v.round = run[r].round
           /\ LET v == Asked(r)
              IN  /\ v.pc = "waiting" /\ v.case = run[r].case /\ v.previous = run[r].previous
                  /\ v.findings = run[r].findings /\ v.retrieved = run[r].retrieved
                  /\ v.content = run[r].content /\ v.selected = run[r].selected
                  /\ v.corpus = run[r].corpus /\ v.round = run[r].round
           /\ \A stop \in BOOLEAN : LET v == Answered(r, stop)
              IN  /\ v.pc = IF stop THEN "stopped" ELSE "judging"
                  /\ v.case = cases' /\ v.previous = run[r].previous
                  /\ v.findings = run[r].findings /\ v.retrieved = run[r].retrieved
                  /\ v.content = run[r].content /\ v.corpus = run[r].corpus
                  /\ v.selected = IF stop THEN {} ELSE {c \in Candidates : run[r].content[c] # Absent}
           /\ LET v == Done
              IN  /\ v.pc = "done" /\ v.previous = NoPrevious /\ v.findings = Nothing /\ v.retrieved = Nothing
                  /\ v.selected = {}
<1>1. run[r] \in RunStates
  OBVIOUS
<1> QED
  BY <1>1 DEF RunStates, Loaded, Compared, ComparedWith, Begun, JudgedOne, Asked, Answered, Done, IdleRun

-----------------------------------------------------------------------------
\* Types

LEMMA IdleIsTyped == IdleRun \in RunStates
BY Empty, ConstantsAssumption DEF IdleRun, RunStates, Pcs, Contents

LEMMA InitTyped == Init => TypeInv
<1> SUFFICES ASSUME Init PROVE TypeInv
  OBVIOUS
<1>1. WorldIsTyped
  BY DEF Init, WorldIsTyped, Contents
<1>2. StoreIsTyped
  BY DEF Init, StoreIsTyped, HasAHighest
<1>3. IdleRun \in RunStates
  BY IdleIsTyped
<1>4. \A r \in Reviews : RunIsTyped(r, IdleRun, cases)
  BY <1>3, Empty, ConstantsAssumption DEF RunIsTyped, IdleRun, CasesAreKnown, Reviews
<1>5. RunsAreTyped
  BY <1>3, <1>4 DEF Init, RunsAreTyped, ReviewsBeginInOrder, IdleRun
<1> QED
  BY <1>1, <1>2, <1>5 DEF TypeInv

LEMMA KnownCasesStayKnown ==
    ASSUME NEW m \in Nat, NEW n \in Nat, m <= n
    PROVE  /\ \A findings : CasesAreKnown(findings, m) => CasesAreKnown(findings, n)
           /\ \A row : RowIsTyped(row, m) => RowIsTyped(row, n)
           /\ \A r, v : RunIsTyped(r, v, m) => RunIsTyped(r, v, n)
<1>1. \A k \in 1..m : k \in 1..n
  OBVIOUS
<1>2. \A findings : CasesAreKnown(findings, m) => CasesAreKnown(findings, n)
  BY <1>1 DEF CasesAreKnown
<1> QED
  BY <1>1, <1>2 DEF RowIsTyped, RunIsTyped

\* The review before is the row of the highest number, if there is a row.
LEMMA LatestIsHighest ==
    ASSUME TypeInv
    PROVE  \/ Latest = NoPrevious /\ store = <<>>
           \/ /\ \E n \in DOMAIN store : Latest = store[n]
              /\ \A j \in DOMAIN store : store[j].sequence <= Latest.sequence
<1>1. \A i \in DOMAIN store : store[i].sequence \in Nat
  <2>1. \A i \in DOMAIN store : store[i] \in Rows
    BY DEF TypeInv, StoreIsTyped
  <2> QED
    BY <2>1 DEF Rows
<1>2. CASE store = <<>>
  BY <1>2 DEF Latest, Highest, NewestPerRevision
<1>3. CASE store # <<>>
  <2>1. PICK n \in NewestPerRevision : \A j \in DOMAIN store : store[j].sequence <= store[n].sequence
    BY <1>3 DEF TypeInv, StoreIsTyped, HasAHighest
  <2> DEFINE m == CHOOSE i \in NewestPerRevision :
                      \A j \in NewestPerRevision : store[j].sequence <= store[i].sequence
  <2>2. NewestPerRevision \subseteq DOMAIN store
    BY DEF NewestPerRevision
  <2>3. m \in NewestPerRevision /\ \A j \in NewestPerRevision : store[j].sequence <= store[m].sequence
    BY <2>1, <2>2
  <2>4. Latest = store[m]
    BY <2>1 DEF Latest, Highest
  <2> HIDE DEF m
  <2>5. store[n].sequence <= store[m].sequence /\ m \in DOMAIN store /\ n \in DOMAIN store
    BY <2>1, <2>2, <2>3
  <2>6. \A j \in DOMAIN store : store[j].sequence <= store[m].sequence
    BY <1>1, <2>1, <2>5
  <2> QED
    BY <2>4, <2>5, <2>6
<1> QED
  BY <1>2, <1>3

\* A review that has begun stays begun.
StillBegun == \A q \in Reviews : run[q].pc # "idle" => run'[q].pc # "idle"

LEMMA StoreStays ==
    ASSUME TypeInv, store' = store, cases' \in Nat, cases <= cases', StillBegun
    PROVE  StoreIsTyped'
<1>1. \A i \in DOMAIN store : RowIsTyped(store[i], cases')
  BY KnownCasesStayKnown DEF TypeInv, WorldIsTyped, StoreIsTyped
<1>2. \A i \in DOMAIN store : run'[store[i].review].pc # "idle"
  BY DEF TypeInv, StoreIsTyped, StillBegun, RowIsTyped
<1>3. HasAHighest'
  BY DEF TypeInv, StoreIsTyped, HasAHighest, NewestPerRevision
<1> QED
  BY <1>1, <1>2, <1>3 DEF TypeInv, StoreIsTyped

LEMMA StoreGrows ==
    ASSUME TypeInv, NEW row \in Rows, RowIsTyped(row, cases), store' = Append(store, row), cases' = cases, StillBegun,
           run'[row.review].pc # "idle"
    PROVE  StoreIsTyped'
<1>1. /\ store' \in Seq(Rows) /\ DOMAIN store = 1..Len(store) /\ DOMAIN store' = 1..(Len(store) + 1)
      /\ Len(store) \in Nat /\ store'[Len(store) + 1] = row
      /\ \A i \in 1..Len(store) : store'[i] = store[i]
  BY DEF TypeInv, StoreIsTyped
<1>2. \A i \in DOMAIN store' : RowIsTyped(store'[i], cases') /\ run'[store'[i].review].pc # "idle"
  BY <1>1 DEF TypeInv, StoreIsTyped, StillBegun, RowIsTyped
<1>3. \A i \in DOMAIN store' : store'[i].sequence \in Nat
  <2>1. \A i \in DOMAIN store' : store'[i] \in Rows
    BY <1>1
  <2> QED
    BY <2>1 DEF Rows
<1>4. HasAHighest'
  <2>1. CASE \A j \in DOMAIN store : store[j].sequence <= row.sequence
    BY <1>1, <1>3, <2>1 DEF HasAHighest, NewestPerRevision
  <2>2. CASE ~\A j \in DOMAIN store : store[j].sequence <= row.sequence
    <3>1. store # <<>>
      BY <2>2
    <3>2. PICK n \in NewestPerRevision : \A j \in DOMAIN store : store[j].sequence <= store[n].sequence
      BY <3>1 DEF TypeInv, StoreIsTyped, HasAHighest
    <3>3. n \in DOMAIN store /\ \A j \in DOMAIN store : store[j].sequence = store[n].sequence => j <= n
      BY DEF NewestPerRevision
    <3>4. row.sequence < store[n].sequence
      BY <1>1, <1>3, <2>2, <3>2, <3>3
    <3>5. /\ n \in DOMAIN store' /\ \A j \in DOMAIN store' : store'[j].sequence = store'[n].sequence => j <= n
          /\ \A j \in DOMAIN store' : store'[j].sequence <= store'[n].sequence
      BY <1>1, <1>3, <3>2, <3>3, <3>4
    <3> QED
      BY <3>5 DEF HasAHighest, NewestPerRevision
  <2> QED
    BY <2>1, <2>2
<1> QED
  BY <1>1, <1>2, <1>4 DEF StoreIsTyped

LEMMA RunMoves ==
    ASSUME TypeInv, cases' \in Nat, cases <= cases', NEW r \in Reviews, NEW v, RunIsTyped(r, v, cases'),
           Becomes(r, v), v.pc # "idle", run[r].pc = "idle" => \A q \in 1..(r - 1) : run[q].pc # "idle"
    PROVE  RunsAreTyped' /\ StillBegun
<1>1. /\ run'[r] = v /\ \A q \in Reviews : q # r => run'[q] = run[q]
      /\ run' \in [Reviews -> RunStates]
  BY OneReviewMoves DEF TypeInv, RunsAreTyped, RunIsTyped
<1>2. \A q \in Reviews : RunIsTyped(q, run'[q], cases')
  BY <1>1, KnownCasesStayKnown DEF TypeInv, WorldIsTyped, RunsAreTyped
<1>3. StillBegun
  BY <1>1 DEF StillBegun
<1>4. ReviewsBeginInOrder'
  <2> SUFFICES ASSUME NEW p \in Reviews, NEW q \in Reviews, p < q, run'[q].pc # "idle"
               PROVE  run'[p].pc # "idle"
    BY DEF ReviewsBeginInOrder
  <2>1. CASE q = r /\ run[r].pc = "idle"
    BY <1>1, <1>3, <2>1 DEF StillBegun, Reviews
  <2>2. CASE ~(q = r /\ run[r].pc = "idle")
    BY <1>1, <1>3, <2>2 DEF StillBegun, TypeInv, RunsAreTyped, ReviewsBeginInOrder
  <2> QED
    BY <2>1, <2>2
<1> QED
  BY <1>1, <1>2, <1>3, <1>4 DEF RunsAreTyped

LEMMA PartsOfRuns ==
    ASSUME TypeInv, NEW r \in Reviews
    PROVE  /\ run \in [Reviews -> RunStates] /\ run[r] \in RunStates /\ RunIsTyped(r, run[r], cases)
           /\ run[r].previous \in Rows /\ run[r].previous.sequence \in Nat
           /\ run[r].previous.findings \in FindingMaps /\ run[r].previous.manifest \in CorpusMaps
           /\ run[r].findings \in FindingMaps /\ run[r].retrieved \in CorpusMaps
           /\ run[r].content \in Contents /\ run[r].round \in 1..LastRound /\ run[r].case \in Nat
           /\ run[r].selected \subseteq Candidates
           /\ Unchanged(r) \subseteq Present /\ Unchanged(r) \subseteq DOMAIN run[r].previous.findings
           /\ Present \subseteq Candidates
<1>1. run[r] \in RunStates
  BY DEF TypeInv, RunsAreTyped
<1>2. run[r].previous \in Rows
  BY <1>1 DEF RunStates
<1> QED
  BY <1>1, <1>2 DEF TypeInv, RunsAreTyped, RunStates, Rows, Unchanged, Present

LEMMA ManifestIsAMap ==
    ASSUME TypeInv, NEW r \in Reviews
    PROVE  Manifest(r) \in CorpusMaps
<1> DEFINE m == Manifest(r)
           D == DOMAIN run[r].retrieved \cup (DOMAIN run[r].previous.manifest \cap DOMAIN run[r].findings)
<1>1. /\ D \in SUBSET Candidates
      /\ \A c \in DOMAIN run[r].retrieved : run[r].retrieved[c] \in Corpora
      /\ \A c \in DOMAIN run[r].previous.manifest : run[r].previous.manifest[c] \in Corpora
  BY PartsOfRuns, MapsAreMaps
<1>2. m = [c \in D |-> m[c]] /\ \A c \in D : m[c] \in Corpora
  BY <1>1 DEF Manifest
<1> QED
  BY <1>1, <1>2, MapsAreMade

LEMMA RowsAreFiled ==
    ASSUME TypeInv, NEW r \in Reviews, run[r].pc \notin {"idle", "done"}, NEW status \in Statuses \ {None},
           NEW manifest \in CorpusMaps, NEW sound \in BOOLEAN
    PROVE  LET row == Row(r, status, manifest, sound)
           IN  row \in Rows /\ RowIsTyped(row, cases) /\ row.review = r
<1> DEFINE row == Row(r, status, manifest, sound)
<1>1. /\ row.review = r /\ row.sequence = Sequence(r) /\ row.status = status /\ row.case = run[r].case
      /\ row.findings = run[r].findings
  BY DEF Row
<1>2. Sequence(r) \in 1..r /\ r \in Nat
  BY PartsOfRuns, ConstantsAssumption DEF Sequence, RunIsTyped, Reviews
<1>3. row \in Rows
  <2>1. (sound /\ run[r].previous.sound) \in BOOLEAN
    OBVIOUS
  <2> QED
    BY <1>2, <2>1, PartsOfRuns DEF Row, Rows
<1>4. RowIsTyped(row, cases)
  BY <1>1, <1>2, PartsOfRuns DEF RowIsTyped, RunIsTyped
<1> QED
  BY <1>1, <1>3, <1>4

LEMMA WorldSteps ==
    ASSUME TypeInv, EditCode \/ ReviseElsewhere \/ SelectModel \/ ImportPolicies
    PROVE  WorldIsTyped' /\ UNCHANGED <<store, run>> /\ cases' \in Nat /\ cases <= cases'
<1> USE DEF TypeInv, WorldIsTyped
<1>1. CASE EditCode
  BY <1>1 DEF EditCode, Contents
<1>2. CASE ReviseElsewhere
  BY <1>2 DEF ReviseElsewhere
<1>3. CASE SelectModel \/ ImportPolicies
  BY <1>3 DEF SelectModel, ImportPolicies
<1> QED
  BY <1>1, <1>2, <1>3

\* A step that files nothing.
LEMMA QuietStepsKeepTypes ==
    ASSUME TypeInv, WorldIsTyped', store' = store, cases <= cases', NEW r \in Reviews, NEW v,
           RunIsTyped(r, v, cases'), Becomes(r, v), v.pc # "idle",
           run[r].pc = "idle" => \A q \in 1..(r - 1) : run[q].pc # "idle"
    PROVE  TypeInv'
<1>1. cases' \in Nat
  BY DEF WorldIsTyped
<1>2. RunsAreTyped' /\ StillBegun
  BY <1>1, RunMoves
<1> QED
  BY <1>1, <1>2, StoreStays DEF TypeInv

\* A step that files a row.
LEMMA FilingStepsKeepTypes ==
    ASSUME TypeInv, WorldIsTyped', cases' = cases, NEW r \in Reviews, NEW v, RunIsTyped(r, v, cases), Becomes(r, v),
           v.pc # "idle", run[r].pc \notin {"idle", "done"},
           NEW status \in Statuses \ {None}, NEW manifest \in CorpusMaps, NEW sound \in BOOLEAN,
           store' = Append(store, Row(r, status, manifest, sound))
    PROVE  TypeInv'
<1>1. cases' \in Nat /\ cases <= cases'
  BY DEF TypeInv, WorldIsTyped
<1>2. RunsAreTyped' /\ StillBegun
  BY <1>1, RunMoves
<1>3. run'[r].pc # "idle"
  BY <1>2, PartsOfRuns DEF StillBegun
<1> DEFINE row == Row(r, status, manifest, sound)
<1>4. row \in Rows /\ RowIsTyped(row, cases) /\ row.review = r
  BY RowsAreFiled
<1>5. store' = Append(store, row)
  OBVIOUS
<1> HIDE DEF row
<1>6. StoreIsTyped'
  BY <1>2, <1>3, <1>4, <1>5, StoreGrows
<1> QED
  BY <1>2, <1>6 DEF TypeInv

LEMMA ComparedStatesAreTyped ==
    ASSUME NEW u \in RunStates, NEW p \in Corpora, NEW m \in Models, NEW code \in Contents, NEW C \in SUBSET Candidates,
           NEW A \in SUBSET Candidates, NEW S \in SUBSET Candidates, NEW kept \in FindingMaps
    PROVE  ComparedWith(u, code, m, p, C, A, S, kept) \in RunStates
BY DEF ComparedWith, RunStates, Pcs

\* Each of those is a state a review can be in.
LEMMA StatesAreTyped ==
    ASSUME NEW r \in Reviews, run[r] \in RunStates
    PROVE  /\ case \in Nat /\ Latest \in Rows /\ Historical \in SUBSET Candidates => Loaded(r) \in RunStates
           /\ /\ content \in Contents /\ model \in Models /\ corpus \in Corpora
              /\ Unchanged(r) \in SUBSET Candidates /\ Addressed(r) \in SUBSET Candidates
              /\ Present \ Unchanged(r) \in SUBSET Candidates
              /\ [c \in Unchanged(r) |-> run[r].previous.findings[c]] \in FindingMaps
              => Compared(r) \in RunStates
           /\ corpus \in Corpora => Begun(r) \in RunStates
           /\ Asked(r) \in RunStates
<1> DEFINE kept == [c \in Unchanged(r) |-> run[r].previous.findings[c]]
<1>1. case \in Nat /\ Latest \in Rows /\ Historical \in SUBSET Candidates => Loaded(r) \in RunStates
  BY DEF Loaded, RunStates, Pcs
<1>2. corpus \in Corpora => Begun(r) \in RunStates
  BY DEF Begun, RunStates, Pcs
<1>3. Asked(r) \in RunStates
  BY DEF Asked, RunStates, Pcs
<1>4. ASSUME content \in Contents, model \in Models, corpus \in Corpora,
             Unchanged(r) \in SUBSET Candidates, Addressed(r) \in SUBSET Candidates,
             Present \ Unchanged(r) \in SUBSET Candidates, kept \in FindingMaps
      PROVE  Compared(r) \in RunStates
  <2> DEFINE C == Unchanged(r)
             A == Addressed(r)
             S == Present \ Unchanged(r)
  <2>1. Compared(r) = ComparedWith(run[r], content, model, corpus, C, A, S, kept)
    BY DEF Compared
  <2>2. C \in SUBSET Candidates /\ A \in SUBSET Candidates /\ S \in SUBSET Candidates /\ kept \in FindingMaps
    BY <1>4
  <2> HIDE DEF kept, C, A, S
  <2> QED
    BY <1>4, <2>1, <2>2, ComparedStatesAreTyped
<1> QED
  BY <1>1, <1>2, <1>3, <1>4

LEMMA EarlierRowsComeBefore ==
    ASSUME TypeInv, NEW r \in Reviews, run[r].pc = "idle", \A q \in 1..(r - 1) : run[q].pc # "idle"
    PROVE  Latest \in Rows /\ Latest.sequence < r /\ CasesAreKnown(Latest.findings, cases)
<1>1. CASE Latest = NoPrevious
  BY <1>1, Empty DEF CasesAreKnown, Reviews
<1>2. ASSUME NEW n \in DOMAIN store, Latest = store[n]
      PROVE  Latest \in Rows /\ Latest.sequence < r /\ CasesAreKnown(Latest.findings, cases)
  <2>1. Latest \in Rows /\ RowIsTyped(Latest, cases) /\ run[Latest.review].pc # "idle"
    BY <1>2 DEF TypeInv, StoreIsTyped
  <2>2. Latest.review \in Reviews /\ Latest.sequence \in 1..Latest.review /\ Latest.review # r
    BY <2>1 DEF RowIsTyped
  <2>3. ~(r < Latest.review)
    BY <2>1, <2>2 DEF TypeInv, RunsAreTyped, ReviewsBeginInOrder
  <2>4. Latest.sequence < r
    BY <2>2, <2>3, ConstantsAssumption DEF Reviews
  <2> QED
    BY <2>1, <2>4 DEF RowIsTyped
<1> QED
  BY <1>1, <1>2, LatestIsHighest

LEMMA LoadContextKeepsTypes ==
    ASSUME TypeInv, NEW r \in Reviews, LoadContext(r)
    PROVE  TypeInv'
<1> DEFINE v == Loaded(r)
<1>1. /\ UNCHANGED <<world, store>> /\ run[r].pc = "idle"
      /\ \A q \in 1..(r - 1) : run[q].pc # "idle"
  BY DEF LoadContext
<1>2. WorldIsTyped' /\ store' = store /\ cases' = cases /\ cases <= cases' /\ case \in 1..cases /\ case \in Nat
  BY <1>1 DEF TypeInv, WorldIsTyped, world
<1>3. Latest \in Rows /\ Latest.sequence < r /\ CasesAreKnown(Latest.findings, cases)
  BY <1>1, EarlierRowsComeBefore
<1>4. Historical \in SUBSET Candidates
  <2>1. \A i \in DOMAIN store : store[i].findings \in FindingMaps
    <3>1. \A i \in DOMAIN store : store[i] \in Rows
      BY DEF TypeInv, StoreIsTyped
    <3> QED
      BY <3>1 DEF Rows
  <2> QED
    BY <2>1, MapsAreMaps DEF Historical, NewestPerRevision
<1>5. v \in RunStates
  BY <1>2, <1>3, <1>4, PartsOfRuns, StatesAreTyped
<1>6. Becomes(r, v) /\ v.pc = "loaded" /\ v.case = case /\ v.previous = Latest /\ v.findings = run[r].findings
      /\ v.content = run[r].content /\ v.selected = run[r].selected
  BY PartsOfRuns, Effects, FieldsOfStates
<1> HIDE DEF v
<1>7. RunIsTyped(r, v, cases')
  BY <1>2, <1>3, <1>5, <1>6, PartsOfRuns DEF RunIsTyped
<1> QED
  BY <1>1, <1>2, <1>6, <1>7, QuietStepsKeepTypes

LEMMA CalculateDeltaKeepsTypes ==
    ASSUME TypeInv, NEW r \in Reviews, CalculateDelta(r)
    PROVE  TypeInv'
<1> DEFINE v == Compared(r)
           kept == [c \in Unchanged(r) |-> run[r].previous.findings[c]]
<1>1. UNCHANGED <<world, store>> /\ run[r].pc = "loaded"
  BY DEF CalculateDelta
<1>2. /\ WorldIsTyped' /\ store' = store /\ cases' = cases /\ cases <= cases'
      /\ content \in Contents /\ model \in Models /\ corpus \in Corpora
  BY <1>1 DEF TypeInv, WorldIsTyped, world
<1>3. kept \in FindingMaps
  <2>1. Unchanged(r) \in SUBSET Candidates /\ \A c \in Unchanged(r) : kept[c] \in Verdicts
    BY PartsOfRuns, MapsAreMaps
  <2> QED
    BY <2>1, MapsAreMade
<1>4. CasesAreKnown(kept, cases)
  BY PartsOfRuns DEF CasesAreKnown, RunIsTyped
<1>5. Unchanged(r) \in SUBSET Candidates /\ Addressed(r) \in SUBSET Candidates
      /\ Present \ Unchanged(r) \in SUBSET Candidates
  BY PartsOfRuns, MapsAreMaps DEF Addressed, Missing
<1>6. v \in RunStates
  BY <1>2, <1>3, <1>5, PartsOfRuns, StatesAreTyped
<1>7. /\ Becomes(r, v) /\ v.pc = "selected" /\ v.case = run[r].case /\ v.previous = run[r].previous
      /\ v.findings = kept /\ v.content = content /\ v.selected = Present \ Unchanged(r)
  BY PartsOfRuns, Effects, FieldsOfStates
<1> HIDE DEF v, kept
<1>8. RunIsTyped(r, v, cases')
  BY <1>1, <1>2, <1>4, <1>6, <1>7, PartsOfRuns DEF RunIsTyped, Present
<1> QED
  BY <1>1, <1>2, <1>7, <1>8, QuietStepsKeepTypes

LEMMA LoadPolicyCorpusKeepsTypes ==
    ASSUME TypeInv, NEW r \in Reviews, LoadPolicyCorpus(r)
    PROVE  TypeInv'
<1> DEFINE v == Begun(r)
<1>1. UNCHANGED <<world, store>> /\ run[r].pc = "selected"
  BY DEF LoadPolicyCorpus
<1>2. WorldIsTyped' /\ store' = store /\ cases' = cases /\ cases <= cases' /\ corpus \in Corpora
  BY <1>1 DEF TypeInv, WorldIsTyped, world
<1>3. v \in RunStates
  BY <1>2, PartsOfRuns, StatesAreTyped
<1>4. /\ Becomes(r, v) /\ v.pc = "judging" /\ v.case = run[r].case /\ v.previous = run[r].previous
      /\ v.findings = run[r].findings /\ v.content = run[r].content /\ v.selected = run[r].selected
      /\ v.corpus = corpus
  BY PartsOfRuns, Effects, FieldsOfStates
<1> HIDE DEF v
<1>5. RunIsTyped(r, v, cases')
  BY <1>1, <1>2, <1>3, <1>4, PartsOfRuns DEF RunIsTyped
<1> QED
  BY <1>1, <1>2, <1>4, <1>5, QuietStepsKeepTypes

\* What a review is about to record of a candidate is a verdict.
LEMMA VerdictsAreTyped ==
    ASSUME TypeInv, NEW r \in Reviews, NEW c \in run[r].selected, run[r].pc = "judging"
    PROVE  /\ c \in Candidates /\ Verdict(r, c) \in Verdicts /\ run[r].corpus \in Corpora
           /\ Verdict(r, c).case = run[r].case /\ run[r].case \in 1..cases
<1>1. c \in Candidates /\ run[r].content[c] \in Versions /\ run[r].corpus \in Corpora /\ run[r].case \in 1..cases
  BY PartsOfRuns DEF RunIsTyped, Contents
<1> QED
  BY <1>1, PartsOfRuns DEF Verdict, Verdicts, TypeInv, WorldIsTyped

LEMMA KnownWithOneMore ==
    ASSUME NEW f, NEW c \in Candidates, NEW x, CasesAreKnown(f, cases), x.case \in 1..cases
    PROVE  CasesAreKnown(With(f, c, x), cases)
BY DEF With, CasesAreKnown

LEMMA JudgeCandidateKeepsTypes ==
    ASSUME TypeInv, NEW r \in Reviews, NEW c \in Candidates, JudgeCandidate(r, c)
    PROVE  TypeInv'
<1> DEFINE v == JudgedOne(r, c)
<1>1. UNCHANGED <<world, store>> /\ run[r].pc = "judging" /\ c \in run[r].selected
  BY DEF JudgeCandidate
<1>2. WorldIsTyped' /\ store' = store /\ cases' = cases /\ cases <= cases'
  BY <1>1 DEF TypeInv, WorldIsTyped, world
<1>3. /\ Verdict(r, c) \in Verdicts /\ run[r].corpus \in Corpora
      /\ Verdict(r, c).case = run[r].case /\ run[r].case \in 1..cases
  BY <1>1, VerdictsAreTyped
<1>4. /\ With(run[r].findings, c, Verdict(r, c)) \in FindingMaps
      /\ With(run[r].retrieved, c, run[r].corpus) \in CorpusMaps
      /\ CasesAreKnown(With(run[r].findings, c, Verdict(r, c)), cases)
  <2>1. CasesAreKnown(run[r].findings, cases)
    BY PartsOfRuns DEF RunIsTyped
  <2> QED
    BY <1>3, <2>1, PartsOfRuns, WithOneMore, KnownWithOneMore
<1>5. v \in RunStates
  BY <1>4, PartsOfRuns DEF JudgedOne, RunStates
<1>6. /\ Becomes(r, v) /\ v.pc = run[r].pc /\ v.case = run[r].case /\ v.previous = run[r].previous
      /\ v.findings = With(run[r].findings, c, Verdict(r, c))
      /\ v.content = run[r].content /\ v.selected = run[r].selected \ {c} /\ v.corpus = run[r].corpus
  BY PartsOfRuns, Effects, FieldsOfStates
<1> HIDE DEF v
<1>7. RunIsTyped(r, v, cases')
  BY <1>1, <1>2, <1>4, <1>5, <1>6, PartsOfRuns DEF RunIsTyped
<1> QED
  BY <1>1, <1>2, <1>6, <1>7, QuietStepsKeepTypes

LEMMA AskKeepsTypes ==
    ASSUME TypeInv, NEW r \in Reviews, Ask(r)
    PROVE  TypeInv'
<1> DEFINE v == Asked(r)
<1>1. /\ UNCHANGED world /\ run[r].pc = "judging" /\ run[r].round < LastRound
      /\ store' = Append(store, Row(r, "awaiting_answers", Manifest(r), TRUE))
  BY DEF Ask, Judged, MayAsk, File, Row
<1>2. WorldIsTyped' /\ cases' = cases
  BY <1>1 DEF TypeInv, WorldIsTyped, world
<1>3. v \in RunStates
  BY PartsOfRuns, StatesAreTyped
<1>4. /\ Becomes(r, v) /\ v.pc = "waiting" /\ v.case = run[r].case /\ v.previous = run[r].previous
      /\ v.findings = run[r].findings /\ v.content = run[r].content /\ v.selected = run[r].selected
      /\ v.corpus = run[r].corpus /\ v.round = run[r].round
  BY PartsOfRuns, Effects, FieldsOfStates
<1> HIDE DEF v
<1>5. RunIsTyped(r, v, cases)
  BY <1>1, <1>3, <1>4, PartsOfRuns DEF RunIsTyped
<1>6. "awaiting_answers" \in Statuses \ {None}
  BY DEF Statuses, None
<1> QED
  BY <1>1, <1>2, <1>4, <1>5, <1>6, ManifestIsAMap, FilingStepsKeepTypes

LEMMA AnswerKeepsTypes ==
    ASSUME TypeInv, NEW r \in Reviews, Answer(r)
    PROVE  TypeInv'
<1>1. /\ run[r].pc = "waiting" /\ cases' = cases + 1
      /\ UNCHANGED <<content, case, model, corpus, store, changes>>
  BY DEF Answer
<1>2. WorldIsTyped' /\ cases' \in Nat /\ cases <= cases' /\ cases' \in 1..cases' /\ case \in Nat
  BY <1>1 DEF TypeInv, WorldIsTyped
<1>3. PICK stop \in BOOLEAN : Becomes(r, Answered(r, stop))
  BY PartsOfRuns, Effects
<1> DEFINE v == Answered(r, stop)
           D == IF stop THEN {} ELSE {c \in Candidates : run[r].content[c] # Absent}
<1>4. run[r].round + 1 \in 1..LastRound
  BY <1>1, PartsOfRuns, ConstantsAssumption DEF RunIsTyped
<1>5. v \in RunStates
  <2>1. run[r] \in RunStates /\ run[r].base \in Nat
    BY PartsOfRuns DEF RunStates
  <2> QED
    BY <1>2, <1>4, <2>1 DEF Answered, RunStates, Pcs
<1>6. /\ Becomes(r, v) /\ v.pc = (IF stop THEN "stopped" ELSE "judging") /\ v.case = cases'
      /\ v.previous = run[r].previous /\ v.findings = run[r].findings /\ v.content = run[r].content
      /\ v.corpus = run[r].corpus /\ v.selected = D
  BY <1>3, PartsOfRuns, FieldsOfStates
<1> HIDE DEF v
<1>7. CasesAreKnown(v.findings, cases') /\ CasesAreKnown(v.previous.findings, cases')
  BY <1>2, <1>6, PartsOfRuns, KnownCasesStayKnown DEF RunIsTyped, TypeInv, WorldIsTyped
<1>8. RunIsTyped(r, v, cases')
  BY <1>1, <1>2, <1>5, <1>6, <1>7, PartsOfRuns DEF RunIsTyped
<1>9. store' = store /\ v.pc # "idle"
  BY <1>1, <1>6
<1> QED
  BY <1>1, <1>2, <1>6, <1>8, <1>9, QuietStepsKeepTypes

LEMMA DoneIsTyped ==
    ASSUME TypeInv, NEW r \in Reviews
    PROVE  RunIsTyped(r, Done, cases) /\ Done.pc = "done"
<1>1. Done \in RunStates
  BY IdleIsTyped DEF Done, RunStates, Pcs
<1>2. /\ Done.pc = "done" /\ Done.previous = NoPrevious /\ Done.findings = Nothing /\ Done.selected = {}
  BY PartsOfRuns, FieldsOfStates
<1> QED
  BY <1>1, <1>2, Empty DEF RunIsTyped, CasesAreKnown, Reviews

\* A review that ends records no case there never was.
LEMMA SealsAreKnown ==
    ASSUME TypeInv, NEW r \in Reviews, run[r].pc \notin {"idle", "done"}, case' = Sealed(r),
           UNCHANGED <<content, cases, model, corpus, changes>>
    PROVE  WorldIsTyped' /\ cases' = cases
BY PartsOfRuns DEF TypeInv, WorldIsTyped, RunIsTyped, Sealed

LEMMA EndingsKeepTypes ==
    ASSUME TypeInv, NEW r \in Reviews, Complete(r) \/ CancelWaiting(r) \/ Fail(r) \/ Refuse(r)
    PROVE  TypeInv'
<1>1. Becomes(r, Done) /\ RunIsTyped(r, Done, cases) /\ Done.pc = "done"
  BY PartsOfRuns, Effects, DoneIsTyped
<1>2. /\ "completed" \in Statuses \ {None} /\ "cancelled" \in Statuses \ {None} /\ "failed" \in Statuses \ {None}
      /\ TRUE \in BOOLEAN /\ FALSE \in BOOLEAN
  BY DEF Statuses, None
<1>3. Manifest(r) \in CorpusMaps /\ run[r].retrieved \in CorpusMaps
  BY ManifestIsAMap, PartsOfRuns
<1>4. CASE Complete(r)
  <2>1. /\ store' = Append(store, Row(r, "completed", Manifest(r), Judged(r)))
        /\ run[r].pc \notin {"idle", "done"} /\ case' = Sealed(r)
        /\ UNCHANGED <<content, cases, model, corpus, changes>> /\ Judged(r) \in BOOLEAN
    BY <1>4 DEF Complete, File, Row, Judged
  <2>2. WorldIsTyped' /\ cases' = cases
    BY <2>1, SealsAreKnown
  <2> QED
    BY <1>1, <1>2, <1>3, <2>1, <2>2, FilingStepsKeepTypes
<1>5. CASE CancelWaiting(r)
  <2>1. /\ store' = Append(store, Row(r, "cancelled", Manifest(r), TRUE))
        /\ run[r].pc \notin {"idle", "done"} /\ UNCHANGED world
    BY <1>5 DEF CancelWaiting, File, Row
  <2>2. WorldIsTyped' /\ cases' = cases
    BY <2>1 DEF TypeInv, WorldIsTyped, world
  <2> QED
    BY <1>1, <1>2, <1>3, <2>1, <2>2, FilingStepsKeepTypes
<1>6. CASE Fail(r)
  <2>1. /\ store' = Append(store, Row(r, "failed", run[r].retrieved, FALSE)) \/ store' = store
        /\ run[r].pc \notin {"idle", "done"} /\ case' = Sealed(r)
        /\ UNCHANGED <<content, cases, model, corpus, changes>>
    BY <1>6 DEF Fail, File, Row
  <2>2. WorldIsTyped' /\ cases' = cases /\ cases <= cases'
    BY <2>1, SealsAreKnown DEF TypeInv, WorldIsTyped
  <2>3. CASE store' = store
    BY <1>1, <2>1, <2>2, <2>3, QuietStepsKeepTypes
  <2>4. CASE store' = Append(store, Row(r, "failed", run[r].retrieved, FALSE))
    BY <1>1, <1>2, <1>3, <2>1, <2>2, <2>4, FilingStepsKeepTypes
  <2> QED
    BY <2>1, <2>3, <2>4
<1>7. CASE Refuse(r)
  <2>1. UNCHANGED <<world, store>> /\ run[r].pc # "idle"
    BY <1>7 DEF Refuse
  <2>2. WorldIsTyped' /\ store' = store /\ cases' = cases /\ cases <= cases'
    BY <2>1 DEF TypeInv, WorldIsTyped, world
  <2> QED
    BY <1>1, <2>1, <2>2, QuietStepsKeepTypes
<1> QED
  BY <1>4, <1>5, <1>6, <1>7

LEMMA StepsKeepTypes == TypeInv /\ [Next]_vars => TypeInv'
<1> SUFFICES ASSUME TypeInv, [Next]_vars PROVE TypeInv'
  OBVIOUS
<1>1. ASSUME WorldIsTyped', UNCHANGED <<store, run>>, cases' \in Nat, cases <= cases'
      PROVE  TypeInv'
  <2>1. StillBegun /\ store' = store
    BY <1>1 DEF StillBegun
  <2>2. StoreIsTyped'
    BY <1>1, <2>1, StoreStays
  <2>3. RunsAreTyped'
    BY <1>1, KnownCasesStayKnown DEF TypeInv, WorldIsTyped, RunsAreTyped, ReviewsBeginInOrder
  <2> QED
    BY <1>1, <2>2, <2>3 DEF TypeInv
<1>2. CASE UNCHANGED vars
  <2>1. WorldIsTyped' /\ UNCHANGED <<store, run>> /\ cases' \in Nat /\ cases <= cases'
    BY <1>2 DEF vars, TypeInv, WorldIsTyped
  <2> QED
    BY <1>1, <2>1
<1>3. CASE EditCode \/ ReviseElsewhere \/ SelectModel \/ ImportPolicies
  BY <1>1, <1>3, WorldSteps
<1>4. ASSUME NEW r \in Reviews,
             \/ LoadContext(r) \/ CalculateDelta(r) \/ Refuse(r) \/ LoadPolicyCorpus(r)
             \/ \E c \in Candidates : JudgeCandidate(r, c)
             \/ Ask(r) \/ Complete(r) \/ Answer(r) \/ CancelWaiting(r) \/ Fail(r)
      PROVE  TypeInv'
  BY <1>4, LoadContextKeepsTypes, CalculateDeltaKeepsTypes, LoadPolicyCorpusKeepsTypes, JudgeCandidateKeepsTypes,
     AskKeepsTypes, AnswerKeepsTypes, EndingsKeepTypes
<1> QED
  BY <1>2, <1>3, <1>4 DEF Next

LEMMA TypesAreInvariant == Spec => []TypeInv
<1>1. Init => TypeInv
  BY InitTyped
<1>2. TypeInv /\ [Next]_vars => TypeInv'
  BY StepsKeepTypes
<1> QED
  BY <1>1, <1>2, PTL DEF Spec

LEMMA FindingsAreOK ==
    ASSUME TypeInv, NEW findings \in FindingMaps, CasesAreKnown(findings, cases),
           \A c \in DOMAIN findings : findings[c] \in Verdicts
    PROVE  FindingsOK(findings)
BY MapsAreMaps DEF FindingsOK, CasesAreKnown, Verdicts

\* BranchReviews.TypeOK: every verdict filed or at hand is of a candidate there is, under a
\* case that was one, there are no more numbers than reviews, and no review goes past
\* its last round (analysis/delta.py, workflow/report.py).
THEOREM TypeCorrect == Spec => []TypeOK
<1>1. TypeInv => TypeOK
  <2> SUFFICES ASSUME TypeInv PROVE TypeOK
    OBVIOUS
  <2>1. /\ content \in [Candidates -> Versions \cup {Absent}] /\ case \in 1..cases /\ model \in Models
        /\ corpus \in Corpora
    BY DEF TypeInv, WorldIsTyped, Contents
  <2>2. ASSUME NEW i \in DOMAIN store
        PROVE  /\ store[i].review \in Reviews
               /\ store[i].status \in {"awaiting_answers", "completed", "cancelled", "failed"}
               /\ store[i].sequence \in 1..MaxReviews
               /\ store[i].case \in 1..cases
               /\ FindingsOK(store[i].findings)
    <3>1. store[i] \in Rows /\ RowIsTyped(store[i], cases)
      BY <2>2 DEF TypeInv, StoreIsTyped
    <3>2. store[i].findings \in FindingMaps /\ store[i].status \in Statuses
      BY <3>1 DEF Rows
    <3>3. FindingsOK(store[i].findings)
      BY <3>1, <3>2, MapsAreMaps, FindingsAreOK DEF RowIsTyped
    <3> QED
      BY <3>1, <3>2, <3>3, ConstantsAssumption DEF RowIsTyped, Reviews, Statuses
  <2>3. ASSUME NEW r \in Reviews
        PROVE  /\ run[r].pc \in {"idle", "loaded", "selected", "judging", "waiting", "stopped", "done"}
               /\ run[r].round \in 1..LastRound
               /\ FindingsOK(run[r].findings)
               /\ run[r].selected \subseteq {c \in Candidates : run[r].content[c] # Absent}
    <3>1. FindingsOK(run[r].findings)
      BY PartsOfRuns, MapsAreMaps, FindingsAreOK DEF RunIsTyped
    <3>2. run[r].pc \in Pcs
      BY PartsOfRuns DEF RunStates
    <3> QED
      BY <3>1, <3>2, PartsOfRuns DEF RunIsTyped, Pcs
  <2> QED
    BY <2>1, <2>2, <2>3 DEF TypeOK
<1> QED
  BY <1>1, TypesAreInvariant, PTL

-----------------------------------------------------------------------------
\* The steps, as far as the reviews and the rows go

Loads(r) ==
    run[r].pc = "idle" /\ Cardinality(Unfiled) < MaxUnfiled /\ store' = store /\ Becomes(r, Loaded(r))
Compares(r) == run[r].pc = "loaded" /\ store' = store /\ Becomes(r, Compared(r))
Begins(r) == run[r].pc = "selected" /\ store' = store /\ Becomes(r, Begun(r))
Judges(r, c) ==
    run[r].pc = "judging" /\ c \in run[r].selected /\ store' = store /\ Becomes(r, JudgedOne(r, c))
Files(r, status, manifest, sound) == store' = Append(store, Row(r, status, manifest, sound))
Asks(r) == Judged(r) /\ Files(r, "awaiting_answers", Manifest(r), TRUE) /\ Becomes(r, Asked(r))
Answers(r) == run[r].pc = "waiting" /\ store' = store /\ \E stop \in BOOLEAN : Becomes(r, Answered(r, stop))
Leaves(r) == run[r].pc = "loaded" /\ store' = store /\ Becomes(r, Done)

\* A review is filed as judged to its end only when it is.
MayFile(r, manifest, sound) ==
    \/ manifest = Manifest(r) /\ (sound => Judged(r) \/ run[r].pc = "waiting")
    \/ manifest = run[r].retrieved /\ ~sound
Ends(r) ==
    /\ run[r].pc \notin {"idle", "done"} /\ Becomes(r, Done)
    /\ \E status \in Statuses \ {None}, manifest \in CorpusMaps, sound \in BOOLEAN :
          MayFile(r, manifest, sound) /\ Files(r, status, manifest, sound)

ReviewSteps(r) ==
    \/ Loads(r) \/ Compares(r) \/ Begins(r) \/ \E c \in Candidates : Judges(r, c)
    \/ Asks(r) \/ Answers(r) \/ Leaves(r) \/ Ends(r)

LEMMA Steps ==
    ASSUME TypeInv, [Next]_vars
    PROVE  UNCHANGED <<store, run>> \/ \E r \in Reviews : ReviewSteps(r)
<1>1. EditCode \/ ReviseElsewhere \/ SelectModel \/ ImportPolicies \/ UNCHANGED vars => UNCHANGED <<store, run>>
  BY DEF EditCode, ReviseElsewhere, SelectModel, ImportPolicies, vars
<1>2. ASSUME NEW r \in Reviews,
             \/ LoadContext(r) \/ CalculateDelta(r) \/ Refuse(r) \/ LoadPolicyCorpus(r)
             \/ \E c \in Candidates : JudgeCandidate(r, c)
             \/ Ask(r) \/ Complete(r) \/ Answer(r) \/ CancelWaiting(r) \/ Fail(r)
      PROVE  ReviewSteps(r)
  <2>1. LoadContext(r) => Loads(r)
    BY PartsOfRuns, Effects DEF LoadContext, Loads
  <2>2. CalculateDelta(r) => Compares(r)
    BY PartsOfRuns, Effects DEF CalculateDelta, Compares
  <2>3. Refuse(r) => Leaves(r)
    BY PartsOfRuns, Effects DEF Refuse, Leaves
  <2>4. LoadPolicyCorpus(r) => Begins(r)
    BY PartsOfRuns, Effects DEF LoadPolicyCorpus, Begins
  <2>5. (\E c \in Candidates : JudgeCandidate(r, c)) => \E c \in Candidates : Judges(r, c)
    BY PartsOfRuns, Effects DEF JudgeCandidate, Judges
  <2>6. Ask(r) => Asks(r)
    BY PartsOfRuns, Effects DEF Ask, Asks, File, Files, Row
  <2>7. Answer(r) => Answers(r)
    BY PartsOfRuns, Effects DEF Answer, Answers
  <2>8. Complete(r) \/ CancelWaiting(r) \/ Fail(r) => Becomes(r, Done)
    BY PartsOfRuns, Effects
  <2>9. /\ "completed" \in Statuses \ {None} /\ "cancelled" \in Statuses \ {None} /\ "failed" \in Statuses \ {None}
        /\ Judged(r) \in BOOLEAN /\ Manifest(r) \in CorpusMaps /\ run[r].retrieved \in CorpusMaps
    BY ManifestIsAMap, PartsOfRuns DEF Statuses, None, Judged
  <2>10. CASE Complete(r)
    <3>1. Files(r, "completed", Manifest(r), Judged(r)) /\ run[r].pc \notin {"idle", "done"}
          /\ MayFile(r, Manifest(r), Judged(r))
      BY <2>10 DEF Complete, File, Files, Row, Judged, MayFile
    <3> QED
      BY <2>8, <2>9, <2>10, <3>1 DEF Ends, ReviewSteps
  <2>11. CASE CancelWaiting(r)
    <3>1. Files(r, "cancelled", Manifest(r), TRUE) /\ run[r].pc \notin {"idle", "done"} /\ MayFile(r, Manifest(r), TRUE)
      BY <2>11 DEF CancelWaiting, File, Files, Row, MayFile
    <3> QED
      BY <2>8, <2>9, <2>11, <3>1 DEF Ends, ReviewSteps
  <2>12. CASE Fail(r)
    <3>1. /\ Files(r, "failed", run[r].retrieved, FALSE) \/ (run[r].pc = "loaded" /\ store' = store)
          /\ run[r].pc \notin {"idle", "done"} /\ MayFile(r, run[r].retrieved, FALSE)
      BY <2>12 DEF Fail, File, Files, Row, MayFile
    <3> QED
      BY <2>8, <2>9, <2>12, <3>1 DEF Ends, Leaves, ReviewSteps
  <2> QED
    BY <1>2, <2>1, <2>2, <2>3, <2>4, <2>5, <2>6, <2>7, <2>10, <2>11, <2>12 DEF ReviewSteps
<1> QED
  BY <1>1, <1>2 DEF Next

-----------------------------------------------------------------------------
\* The number of a review

HasAFixedNumber(pc) == pc \in {"judging", "waiting", "stopped", "done"}

\* The rows of a review are under the number it counts from the review before it.
NumberInv ==
    /\ ReviewsKeepTheirNumber
    /\ \A i \in DOMAIN store :
          LET q == store[i].review
          IN  HasAFixedNumber(run[q].pc) /\ (run[q].pc # "done" => store[i].sequence = Sequence(q))

LEMMA QuietStepsKeepNumbers ==
    ASSUME TypeInv, NumberInv, NEW r \in Reviews, NEW v, Becomes(r, v), store' = store,
           HasAFixedNumber(run[r].pc) =>
              HasAFixedNumber(v.pc) /\ run[r].pc # "done" /\ (v.pc # "done" => v.previous = run[r].previous)
    PROVE  NumberInv'
<1>1. run'[r] = v /\ \A q \in Reviews : q # r => run'[q] = run[q]
  BY PartsOfRuns, OneReviewMoves
<1>2. ReviewsKeepTheirNumber'
  BY DEF NumberInv, ReviewsKeepTheirNumber
<1>3. \A i \in DOMAIN store : store[i].review \in Reviews
  BY DEF TypeInv, StoreIsTyped, RowIsTyped
<1> QED
  BY <1>1, <1>2, <1>3 DEF NumberInv, Sequence

LEMMA FilingStepsKeepNumbers ==
    ASSUME TypeInv, NumberInv, NEW r \in Reviews, NEW v, Becomes(r, v), run[r].pc # "done",
           NEW status, NEW manifest, NEW sound, Files(r, status, manifest, sound),
           HasAFixedNumber(v.pc), v.pc # "done" => v.previous = run[r].previous
    PROVE  NumberInv'
<1>1. run'[r] = v /\ \A q \in Reviews : q # r => run'[q] = run[q]
  BY PartsOfRuns, OneReviewMoves
<1> DEFINE row == Row(r, status, manifest, sound)
           n == Len(store)
<1>2. row.review = r /\ row.sequence = Sequence(r)
  BY DEF Row
<1>3. store' = Append(store, row) /\ store \in Seq(Rows)
  BY DEF Files, TypeInv, StoreIsTyped
<1> HIDE DEF row
<1>4. /\ n \in Nat /\ DOMAIN store = 1..n /\ DOMAIN store' = 1..(n + 1) /\ store'[n + 1] = row
      /\ \A i \in 1..n : store'[i] = store[i]
  BY <1>3
<1>5. \A i \in 1..n : store[i].review \in Reviews /\ (store[i].review = r => store[i].sequence = Sequence(r))
  BY <1>4 DEF TypeInv, StoreIsTyped, RowIsTyped, NumberInv
<1> HIDE DEF n
<1>6. \A i \in 1..(n + 1) : i \in 1..n \/ i = n + 1
  BY <1>4
<1>7. ReviewsKeepTheirNumber'
  BY <1>2, <1>4, <1>5, <1>6 DEF NumberInv, ReviewsKeepTheirNumber
<1>8. ASSUME NEW i \in 1..(n + 1)
      PROVE  /\ HasAFixedNumber(run'[store'[i].review].pc)
             /\ run'[store'[i].review].pc # "done" =>
                   store'[i].sequence = run'[store'[i].review].previous.sequence + 1
  <2>1. CASE store'[i].review = r
    <3>1. store'[i].sequence = Sequence(r)
      BY <1>2, <1>4, <1>5, <1>6, <2>1
    <3> QED
      BY <1>1, <2>1, <3>1 DEF Sequence
  <2>2. CASE store'[i].review # r
    <3>1. i \in 1..n /\ store'[i] = store[i] /\ store[i].review \in Reviews
      BY <1>2, <1>4, <1>5, <1>6, <2>2
    <3> QED
      BY <1>1, <1>4, <2>2, <3>1 DEF NumberInv, Sequence
  <2> QED
    BY <2>1, <2>2
<1> QED
  BY <1>4, <1>7, <1>8 DEF NumberInv, Sequence

LEMMA StepsKeepNumbers == TypeInv /\ NumberInv /\ [Next]_vars => NumberInv'
<1> SUFFICES ASSUME TypeInv, NumberInv, [Next]_vars PROVE NumberInv'
  OBVIOUS
<1> USE DEF HasAFixedNumber
<1>1. CASE UNCHANGED <<store, run>>
  BY <1>1 DEF NumberInv, ReviewsKeepTheirNumber, Sequence
<1>2. ASSUME NEW r \in Reviews, ReviewSteps(r)
      PROVE  NumberInv'
  <2>1. CASE Loads(r)
    BY <2>1, PartsOfRuns, FieldsOfStates, QuietStepsKeepNumbers DEF Loads
  <2>2. CASE Compares(r)
    BY <2>2, PartsOfRuns, FieldsOfStates, QuietStepsKeepNumbers DEF Compares
  <2>3. CASE Begins(r)
    BY <2>3, PartsOfRuns, FieldsOfStates, QuietStepsKeepNumbers DEF Begins
  <2>4. ASSUME NEW c \in Candidates, Judges(r, c)
        PROVE  NumberInv'
    BY <2>4, PartsOfRuns, FieldsOfStates, QuietStepsKeepNumbers DEF Judges
  <2>5. CASE Asks(r)
    <3>1. Asked(r).pc = "waiting" /\ Asked(r).previous = run[r].previous
      BY PartsOfRuns, FieldsOfStates
    <3> QED
      BY <2>5, <3>1, FilingStepsKeepNumbers DEF Asks, Judged
  <2>6. CASE Answers(r)
    <3>1. PICK stop \in BOOLEAN : Becomes(r, Answered(r, stop))
      BY <2>6 DEF Answers
    <3>2. Answered(r, stop).pc \in {"judging", "stopped"} /\ Answered(r, stop).previous = run[r].previous
      BY PartsOfRuns, FieldsOfStates
    <3> QED
      BY <2>6, <3>1, <3>2, QuietStepsKeepNumbers DEF Answers
  <2>7. CASE Leaves(r)
    BY <2>7, DoneIsTyped, QuietStepsKeepNumbers DEF Leaves
  <2>8. CASE Ends(r)
    BY <2>8, DoneIsTyped, FilingStepsKeepNumbers DEF Ends
  <2> QED
    BY <1>2, <2>1, <2>2, <2>3, <2>4, <2>5, <2>6, <2>7, <2>8 DEF ReviewSteps
<1> QED
  BY <1>1, <1>2, Steps

\* BranchReviews.ReviewsKeepTheirNumber: every row of a review is under one number, the one
\* after that of the review it compares with, however many reviews are filed between its
\* own rows (domain/review.py, workflow/report.py).
THEOREM NumbersAreKept == Spec => []ReviewsKeepTheirNumber
<1>1. Init => NumberInv
  BY DEF Init, NumberInv, ReviewsKeepTheirNumber
<1>2. TypeInv /\ NumberInv /\ [Next]_vars => NumberInv'
  BY StepsKeepNumbers
<1>3. NumberInv => ReviewsKeepTheirNumber
  BY DEF NumberInv
<1> QED
  BY <1>1, <1>2, <1>3, TypesAreInvariant, PTL DEF Spec

-----------------------------------------------------------------------------
\* The verdicts a review carries

\* A manifest says what a verdict was reached under; that of a sound row says it of each,
\* and each was reached on the case of the row.
ManifestIsTrue(manifest, findings) ==
    \A c \in DOMAIN manifest \cap DOMAIN findings : manifest[c] = findings[c].corpus
AllOfOneCase(row) == \A c \in DOMAIN row.findings : c \in DOMAIN row.manifest /\ row.findings[c].case = row.case
RowIsTrue(row) == ManifestIsTrue(row.manifest, row.findings) /\ (row.sound => AllOfOneCase(row))

\* The verdicts of a review are its own, under the corpus it retrieved for them, and those
\* of the review before.
VerdictsHaveASource(v) ==
    /\ \A c \in DOMAIN v.retrieved : c \in DOMAIN v.findings /\ v.retrieved[c] = v.findings[c].corpus
    /\ \A c \in DOMAIN v.findings \ DOMAIN v.retrieved :
          c \in DOMAIN v.previous.findings /\ v.findings[c] = v.previous.findings[c]

\* What is not to be judged has been judged on the case at hand.
RestIsOfTheCase(v) == \A c \in DOMAIN v.findings \ v.selected : v.findings[c].case = v.case

RunIsTrue(v) ==
    /\ RowIsTrue(v.previous) /\ VerdictsHaveASource(v)
    /\ \A c \in DOMAIN v.findings : v.content[c] # Absent
    /\ v.pc \in {"selected", "judging", "waiting"} /\ v.previous.sound => RestIsOfTheCase(v)
    /\ v.pc = "waiting" => v.selected = {}
    /\ v.pc \in {"idle", "loaded"} => v.findings = Nothing /\ v.retrieved = Nothing

\* IsCurrent, of the state of a review.
Current(finding, v, c) ==
    finding = [version |-> v.content[c], case |-> v.case, model |-> v.model, corpus |-> v.delta]
CarriesCurrent(v) == v.previous.sound => \A c \in v.carried : Current(v.previous.findings[c], v, c)
JudgesForAReason(v) ==
    \A c \in v.selected \cap DOMAIN v.previous.findings :
        ~Current(v.previous.findings[c], v, c) \/ v.previous.case # v.case
AccountsForTheGone(v) ==
    LET before == DOMAIN v.previous.findings
        gone == {c \in before : v.content[c] = Absent}
    IN  \A c \in gone \ v.addressed :
            \E d \in v.selected \ before : {e \in gone : Signature[e] = Signature[d]} = {c}
ComparesWell(v) == v.pc = "selected" => CarriesCurrent(v) /\ JudgesForAReason(v) /\ AccountsForTheGone(v)

VerdictInv ==
    /\ \A i \in DOMAIN store : RowIsTrue(store[i])
    /\ \A r \in Reviews : RunIsTrue(run[r]) /\ ComparesWell(run[r])

LEMMA QuietStepsKeepVerdicts ==
    ASSUME TypeInv, VerdictInv, NEW r \in Reviews, NEW v, Becomes(r, v), store' = store,
           RunIsTrue(v), ComparesWell(v)
    PROVE  VerdictInv'
<1>1. run'[r] = v /\ \A q \in Reviews : q # r => run'[q] = run[q]
  BY PartsOfRuns, OneReviewMoves
<1>2. \A q \in Reviews : RunIsTrue(run'[q]) /\ ComparesWell(run'[q])
  BY <1>1 DEF VerdictInv
<1> QED
  BY <1>2 DEF VerdictInv

LEMMA FilingStepsKeepVerdicts ==
    ASSUME TypeInv, VerdictInv, NEW r \in Reviews, NEW v, Becomes(r, v), RunIsTrue(v), ComparesWell(v),
           NEW row, RowIsTrue(row), store' = Append(store, row)
    PROVE  VerdictInv'
<1>1. run'[r] = v /\ \A q \in Reviews : q # r => run'[q] = run[q]
  BY PartsOfRuns, OneReviewMoves
<1>2. \A q \in Reviews : RunIsTrue(run'[q]) /\ ComparesWell(run'[q])
  BY <1>1 DEF VerdictInv
<1>3. \A i \in DOMAIN store' : (i \in DOMAIN store /\ store'[i] = store[i]) \/ store'[i] = row
  BY DEF TypeInv, StoreIsTyped
<1> QED
  BY <1>2, <1>3 DEF VerdictInv

LEMMA PartsOfVerdicts ==
    ASSUME VerdictInv, NEW r \in Reviews
    PROVE  RunIsTrue(run[r]) /\ ComparesWell(run[r]) /\ RowIsTrue(run[r].previous)
BY DEF VerdictInv, RunIsTrue

LEMMA LoadsKeepVerdicts ==
    ASSUME TypeInv, VerdictInv, NEW r \in Reviews, Loads(r)
    PROVE  VerdictInv'
<1> DEFINE v == Loaded(r)
<1>1. RowIsTrue(Latest)
  <2>1. RowIsTrue(NoPrevious)
    BY Empty DEF RowIsTrue, ManifestIsTrue, AllOfOneCase
  <2> QED
    BY <2>1, LatestIsHighest DEF VerdictInv
<1>2. /\ v.pc = "loaded" /\ v.previous = Latest /\ v.findings = run[r].findings /\ v.retrieved = run[r].retrieved
      /\ Becomes(r, v) /\ store' = store /\ run[r].pc = "idle"
  BY PartsOfRuns, FieldsOfStates DEF Loads
<1>3. v.findings = Nothing /\ v.retrieved = Nothing /\ DOMAIN Nothing = {}
  BY <1>2, PartsOfVerdicts, Empty DEF RunIsTrue
<1> HIDE DEF v
<1>4. RunIsTrue(v) /\ ComparesWell(v)
  BY <1>1, <1>2, <1>3 DEF RunIsTrue, ComparesWell, VerdictsHaveASource
<1> QED
  BY <1>2, <1>4, QuietStepsKeepVerdicts

\* What the delta carries, judges again and says of the candidates that are gone.
LEMMA ComparesCarryCurrent ==
    ASSUME TypeInv, VerdictInv, NEW r \in Reviews
    PROVE  CarriesCurrent(Compared(r)) /\ JudgesForAReason(Compared(r))
<1> DEFINE v == Compared(r)
           p == run[r].previous
<1>1. /\ v.case = run[r].case /\ v.previous = p /\ v.content = content /\ v.selected = Present \ Unchanged(r)
      /\ v.carried = Unchanged(r) /\ v.model = model /\ v.delta = corpus
  BY PartsOfRuns, FieldsOfStates
<1>2. /\ RowIsTrue(p) /\ p.findings \in FindingMaps
      /\ \A c \in DOMAIN p.findings : p.findings[c] \in Verdicts
  BY PartsOfRuns, PartsOfVerdicts, MapsAreMaps
<1>3. \A c : c \in Unchanged(r) <=>
               /\ c \in Present /\ c \in DOMAIN p.findings /\ p.findings[c].version = content[c]
               /\ p.case = run[r].case /\ p.findings[c].model = model
               /\ ~(c \in DOMAIN p.manifest /\ p.manifest[c] # corpus)
  BY DEF Unchanged, CaseMoved, JudgementMoved, CorpusMoved
<1> HIDE DEF v, p
<1>4. CarriesCurrent(v)
  <2> SUFFICES ASSUME p.sound, NEW c \in Unchanged(r) PROVE Current(p.findings[c], v, c)
    BY <1>1 DEF CarriesCurrent
  <2>1. c \in DOMAIN p.findings /\ p.findings[c] \in Verdicts /\ p.findings[c].version = content[c]
        /\ p.case = run[r].case /\ p.findings[c].model = model
    BY <1>2, <1>3
  <2>2. c \in DOMAIN p.manifest /\ p.manifest[c] = p.findings[c].corpus /\ p.findings[c].case = p.case
    BY <1>2, <2>1 DEF RowIsTrue, AllOfOneCase, ManifestIsTrue
  <2>3. p.findings[c].corpus = corpus
    BY <1>3, <2>2
  <2> QED
    BY <1>1, <2>1, <2>2, <2>3 DEF Current, Verdicts
<1>5. JudgesForAReason(v)
  <2> SUFFICES ASSUME NEW c \in (Present \ Unchanged(r)) \cap DOMAIN p.findings, Current(p.findings[c], v, c),
                      p.case = run[r].case
               PROVE  FALSE
    BY <1>1 DEF JudgesForAReason
  <2>1. p.findings[c].version = content[c] /\ p.findings[c].model = model /\ p.findings[c].corpus = corpus
    BY <1>1 DEF Current
  <2>2. c \in DOMAIN p.manifest => p.manifest[c] = corpus
    BY <1>2, <2>1 DEF RowIsTrue, ManifestIsTrue
  <2> QED
    BY <1>3, <2>1, <2>2
<1> QED
  BY <1>4, <1>5 DEF v

LEMMA ComparesAccountForTheGone ==
    ASSUME TypeInv, NEW r \in Reviews
    PROVE  AccountsForTheGone(Compared(r))
<1> DEFINE v == Compared(r)
           before == DOMAIN run[r].previous.findings
           gone == {c \in before : content[c] = Absent}
<1>1. /\ v.previous = run[r].previous /\ v.content = content /\ v.selected = Present \ Unchanged(r)
      /\ v.addressed = Addressed(r)
  BY PartsOfRuns, FieldsOfStates
<1>2. before \subseteq Candidates /\ gone = Missing(r)
  BY PartsOfRuns, MapsAreMaps DEF Missing, Present
<1>3. ASSUME NEW c \in gone \ Addressed(r)
      PROVE  \E d \in (Present \ Unchanged(r)) \ before : {e \in gone : Signature[e] = Signature[d]} = {c}
  <2>1. c \in Succeeded(r)
    BY <1>2, <1>3 DEF Addressed
  <2>2. PICK d \in Present \ (before \cup run[r].historical) :
             Cardinality(Predecessors(r, d)) = 1 /\ c \in Predecessors(r, d)
    BY <2>1 DEF Succeeded
  <2>3. IsFiniteSet(Predecessors(r, d))
    <3>1. Predecessors(r, d) \subseteq Candidates
      BY <1>2 DEF Predecessors
    <3> QED
      BY <3>1, ConstantsAssumption, FS_Subset
  <2>4. \E x : Predecessors(r, d) = {x}
    BY <2>2, <2>3, FS_Singleton
  <2>5. Predecessors(r, d) = {c}
    BY <2>2, <2>4
  <2>6. Predecessors(r, d) = {e \in gone : Signature[e] = Signature[d]}
    BY <1>2 DEF Predecessors
  <2>7. d \in (Present \ Unchanged(r)) \ before
    BY <2>2, PartsOfRuns
  <2> QED
    BY <2>5, <2>6, <2>7
<1> QED
  BY <1>1, <1>3 DEF AccountsForTheGone

LEMMA ComparesKeepVerdicts ==
    ASSUME TypeInv, VerdictInv, NEW r \in Reviews, Compares(r)
    PROVE  VerdictInv'
<1> DEFINE v == Compared(r)
           kept == [c \in Unchanged(r) |-> run[r].previous.findings[c]]
<1>1. /\ v.pc = "selected" /\ v.case = run[r].case /\ v.previous = run[r].previous
      /\ v.findings = kept /\ v.content = content /\ v.selected = Present \ Unchanged(r)
      /\ v.retrieved = run[r].retrieved /\ Becomes(r, v) /\ store' = store /\ run[r].pc = "loaded"
  BY PartsOfRuns, FieldsOfStates DEF Compares
<1>2. run[r].retrieved = Nothing /\ DOMAIN Nothing = {} /\ RowIsTrue(run[r].previous)
  BY <1>1, PartsOfVerdicts, Empty DEF RunIsTrue
<1>3. /\ DOMAIN kept = Unchanged(r) /\ \A c \in Unchanged(r) : kept[c] = run[r].previous.findings[c]
      /\ Unchanged(r) \subseteq Present /\ Unchanged(r) \subseteq DOMAIN run[r].previous.findings
  BY PartsOfRuns
<1>4. run[r].previous.sound => \A c \in Unchanged(r) : kept[c].case = run[r].case
  BY <1>2, <1>3 DEF RowIsTrue, AllOfOneCase, Unchanged, CaseMoved
<1>5. ComparesWell(v)
  BY ComparesCarryCurrent, ComparesAccountForTheGone DEF ComparesWell
<1>6. \A c \in Unchanged(r) : content[c] # Absent
  BY <1>3 DEF Present
<1> HIDE DEF v, kept
<1>7. VerdictsHaveASource(v)
  BY <1>1, <1>2, <1>3 DEF VerdictsHaveASource
<1>8. v.previous.sound => RestIsOfTheCase(v)
  BY <1>1, <1>3, <1>4 DEF RestIsOfTheCase
<1>9. RunIsTrue(v)
  BY <1>1, <1>2, <1>3, <1>6, <1>7, <1>8 DEF RunIsTrue
<1> QED
  BY <1>1, <1>5, <1>9, QuietStepsKeepVerdicts

LEMMA BeginsKeepVerdicts ==
    ASSUME TypeInv, VerdictInv, NEW r \in Reviews, Begins(r)
    PROVE  VerdictInv'
<1> DEFINE v == Begun(r)
<1>1. /\ v.pc = "judging" /\ v.case = run[r].case /\ v.previous = run[r].previous
      /\ v.findings = run[r].findings /\ v.content = run[r].content /\ v.selected = run[r].selected
      /\ v.retrieved = run[r].retrieved /\ Becomes(r, v) /\ store' = store /\ run[r].pc = "selected"
  BY PartsOfRuns, FieldsOfStates DEF Begins
<1>2. RunIsTrue(run[r])
  BY PartsOfVerdicts
<1> HIDE DEF v
<1>3. RunIsTrue(v) /\ ComparesWell(v)
  BY <1>1, <1>2 DEF RunIsTrue, VerdictsHaveASource, RestIsOfTheCase, ComparesWell
<1> QED
  BY <1>1, <1>3, QuietStepsKeepVerdicts

LEMMA JudgesKeepVerdicts ==
    ASSUME TypeInv, VerdictInv, NEW r \in Reviews, NEW c \in Candidates, Judges(r, c)
    PROVE  VerdictInv'
<1> DEFINE v == JudgedOne(r, c)
           x == Verdict(r, c)
           f == run[r].findings
           t == run[r].retrieved
<1>1. /\ v.pc = "judging" /\ v.case = run[r].case /\ v.previous = run[r].previous
      /\ v.findings = With(f, c, x) /\ v.retrieved = With(t, c, run[r].corpus)
      /\ v.content = run[r].content /\ v.selected = run[r].selected \ {c}
      /\ Becomes(r, v) /\ store' = store /\ run[r].pc = "judging" /\ c \in run[r].selected
  BY PartsOfRuns, FieldsOfStates DEF Judges
<1>2. RunIsTrue(run[r]) /\ x.corpus = run[r].corpus /\ x.case = run[r].case /\ run[r].content[c] # Absent
  BY <1>1, PartsOfVerdicts, PartsOfRuns DEF Verdict, RunIsTyped
<1> HIDE DEF v, x, f, t
<1>3. /\ DOMAIN v.findings = DOMAIN f \cup {c} /\ v.findings[c] = x
      /\ \A d \in DOMAIN f : d # c => v.findings[d] = f[d]
  BY <1>1 DEF With
<1>4. /\ DOMAIN v.retrieved = DOMAIN t \cup {c} /\ v.retrieved[c] = run[r].corpus
      /\ \A d \in DOMAIN t : d # c => v.retrieved[d] = t[d]
  BY <1>1 DEF With
<1>5. VerdictsHaveASource(v)
  BY <1>1, <1>2, <1>3, <1>4 DEF RunIsTrue, VerdictsHaveASource, f, t
<1>6. v.previous.sound => RestIsOfTheCase(v)
  BY <1>1, <1>2, <1>3 DEF RunIsTrue, RestIsOfTheCase, f
<1>7. \A d \in DOMAIN v.findings : v.content[d] # Absent
  BY <1>1, <1>2, <1>3 DEF RunIsTrue, f
<1>8. RunIsTrue(v) /\ ComparesWell(v)
  BY <1>1, <1>2, <1>5, <1>6, <1>7 DEF RunIsTrue, ComparesWell
<1> QED
  BY <1>1, <1>8, QuietStepsKeepVerdicts

\* The row a review files says the truth, if the review is true.
LEMMA FiledRowsAreTrue ==
    ASSUME TypeInv, VerdictInv, NEW r \in Reviews, NEW status, NEW manifest, NEW sound, MayFile(r, manifest, sound)
    PROVE  RowIsTrue(Row(r, status, manifest, sound))
<1> DEFINE row == Row(r, status, manifest, sound)
           p == run[r].previous
           f == run[r].findings
           t == run[r].retrieved
<1>1. row.findings = f /\ row.manifest = manifest /\ row.case = run[r].case /\ (row.sound <=> sound /\ p.sound)
  BY DEF Row
<1>2. /\ \A c \in DOMAIN t : c \in DOMAIN f /\ t[c] = f[c].corpus
      /\ \A c \in DOMAIN f \ DOMAIN t : c \in DOMAIN p.findings /\ f[c] = p.findings[c]
      /\ RowIsTrue(p)
  BY PartsOfVerdicts DEF RunIsTrue, VerdictsHaveASource
<1>3. /\ DOMAIN Manifest(r) = DOMAIN t \cup (DOMAIN p.manifest \cap DOMAIN f)
      /\ \A c \in DOMAIN t : Manifest(r)[c] = t[c]
      /\ \A c \in (DOMAIN p.manifest \cap DOMAIN f) \ DOMAIN t : Manifest(r)[c] = p.manifest[c]
  BY DEF Manifest
<1>4. ManifestIsTrue(t, f)
  BY <1>2 DEF ManifestIsTrue
<1>5. ManifestIsTrue(Manifest(r), f)
  BY <1>2, <1>3 DEF ManifestIsTrue, RowIsTrue
<1> HIDE DEF row
<1>6. ManifestIsTrue(row.manifest, row.findings)
  BY <1>1, <1>4, <1>5 DEF MayFile
<1>7. ASSUME row.sound
      PROVE  AllOfOneCase(row)
  <2>1. sound /\ p.sound /\ manifest = Manifest(r) /\ run[r].pc \in {"judging", "waiting"} /\ run[r].selected = {}
    BY <1>1, <1>7, PartsOfVerdicts DEF MayFile, Judged, RunIsTrue
  <2>2. \A c \in DOMAIN f : f[c].case = run[r].case
    BY <2>1, PartsOfVerdicts DEF RunIsTrue, RestIsOfTheCase
  <2>3. \A c \in DOMAIN f : c \in DOMAIN Manifest(r)
    BY <1>2, <1>3, <2>1 DEF RowIsTrue, AllOfOneCase
  <2> QED
    BY <1>1, <2>1, <2>2, <2>3 DEF AllOfOneCase
<1> QED
  BY <1>6, <1>7 DEF RowIsTrue, row

LEMMA AsksKeepVerdicts ==
    ASSUME TypeInv, VerdictInv, NEW r \in Reviews, Asks(r)
    PROVE  VerdictInv'
<1> DEFINE v == Asked(r)
           row == Row(r, "awaiting_answers", Manifest(r), TRUE)
<1>1. /\ v.pc = "waiting" /\ v.case = run[r].case /\ v.previous = run[r].previous
      /\ v.findings = run[r].findings /\ v.content = run[r].content /\ v.selected = run[r].selected
      /\ v.retrieved = run[r].retrieved /\ Becomes(r, v) /\ store' = Append(store, row)
      /\ run[r].pc = "judging" /\ run[r].selected = {}
  BY PartsOfRuns, FieldsOfStates DEF Asks, Files, Judged
<1>2. RunIsTrue(run[r])
  BY PartsOfVerdicts
<1>3. RowIsTrue(row)
  <2>1. MayFile(r, Manifest(r), TRUE)
    BY DEF Asks, MayFile
  <2> QED
    BY <2>1, FiledRowsAreTrue
<1> HIDE DEF v, row
<1>4. RunIsTrue(v) /\ ComparesWell(v)
  BY <1>1, <1>2 DEF RunIsTrue, VerdictsHaveASource, RestIsOfTheCase, ComparesWell
<1> QED
  BY <1>1, <1>3, <1>4, FilingStepsKeepVerdicts

LEMMA AnswersKeepVerdicts ==
    ASSUME TypeInv, VerdictInv, NEW r \in Reviews, Answers(r)
    PROVE  VerdictInv'
<1>1. PICK stop \in BOOLEAN : Becomes(r, Answered(r, stop))
  BY DEF Answers
<1> DEFINE v == Answered(r, stop)
           everything == {c \in Candidates : run[r].content[c] # Absent}
<1>2. /\ v.pc = (IF stop THEN "stopped" ELSE "judging") /\ v.previous = run[r].previous
      /\ v.findings = run[r].findings /\ v.content = run[r].content /\ v.retrieved = run[r].retrieved
      /\ v.selected = (IF stop THEN {} ELSE everything)
      /\ Becomes(r, v) /\ store' = store
  BY <1>1, PartsOfRuns, FieldsOfStates DEF Answers
<1>3. RunIsTrue(run[r])
  BY PartsOfVerdicts
<1>4. DOMAIN run[r].findings \subseteq everything
  BY <1>3, PartsOfRuns, MapsAreMaps DEF RunIsTrue
<1> HIDE DEF v, everything
<1>5. v.pc = "judging" => RestIsOfTheCase(v)
  BY <1>2, <1>4 DEF RestIsOfTheCase
<1>6. v.pc \notin {"idle", "loaded", "selected", "waiting"}
  BY <1>2
<1>7. RunIsTrue(v) /\ ComparesWell(v)
  BY <1>2, <1>3, <1>5, <1>6 DEF RunIsTrue, VerdictsHaveASource, ComparesWell
<1> QED
  BY <1>2, <1>7, QuietStepsKeepVerdicts

LEMMA DoneIsTrue ==
    ASSUME TypeInv, NEW r \in Reviews
    PROVE  RunIsTrue(Done) /\ ComparesWell(Done)
<1>1. /\ Done.pc = "done" /\ Done.previous = NoPrevious /\ Done.findings = Nothing /\ Done.retrieved = Nothing
  BY PartsOfRuns, FieldsOfStates
<1> QED
  BY <1>1, Empty DEF RunIsTrue, ComparesWell, RowIsTrue, ManifestIsTrue, AllOfOneCase, VerdictsHaveASource

LEMMA EndsKeepVerdicts ==
    ASSUME TypeInv, VerdictInv, NEW r \in Reviews, Leaves(r) \/ Ends(r)
    PROVE  VerdictInv'
<1>1. RunIsTrue(Done) /\ ComparesWell(Done) /\ Becomes(r, Done)
  BY DoneIsTrue DEF Leaves, Ends
<1>2. CASE Leaves(r)
  BY <1>1, <1>2, QuietStepsKeepVerdicts DEF Leaves
<1>3. CASE Ends(r)
  <2>1. PICK status \in Statuses \ {None}, manifest \in CorpusMaps, sound \in BOOLEAN :
             MayFile(r, manifest, sound) /\ Files(r, status, manifest, sound)
    BY <1>3 DEF Ends
  <2>2. RowIsTrue(Row(r, status, manifest, sound))
    BY <2>1, FiledRowsAreTrue
  <2> QED
    BY <1>1, <2>1, <2>2, FilingStepsKeepVerdicts DEF Files
<1> QED
  BY <1>2, <1>3

LEMMA StepsKeepVerdicts == TypeInv /\ VerdictInv /\ [Next]_vars => VerdictInv'
<1> SUFFICES ASSUME TypeInv, VerdictInv, [Next]_vars PROVE VerdictInv'
  OBVIOUS
<1>1. CASE UNCHANGED <<store, run>>
  BY <1>1 DEF VerdictInv
<1>2. ASSUME NEW r \in Reviews, ReviewSteps(r)
      PROVE  VerdictInv'
  BY <1>2, LoadsKeepVerdicts, ComparesKeepVerdicts, BeginsKeepVerdicts, JudgesKeepVerdicts, AsksKeepVerdicts,
     AnswersKeepVerdicts, EndsKeepVerdicts DEF ReviewSteps
<1> QED
  BY <1>1, <1>2, Steps

LEMMA InitIsTrue == Init => VerdictInv
<1> SUFFICES ASSUME Init PROVE VerdictInv
  OBVIOUS
<1>1. /\ IdleRun.pc = "idle" /\ IdleRun.previous = NoPrevious /\ IdleRun.findings = Nothing
      /\ IdleRun.retrieved = Nothing
  BY DEF IdleRun
<1>2. RunIsTrue(IdleRun) /\ ComparesWell(IdleRun)
  BY <1>1, Empty DEF RunIsTrue, ComparesWell, RowIsTrue, ManifestIsTrue, AllOfOneCase, VerdictsHaveASource
<1> QED
  BY <1>2 DEF Init, VerdictInv

LEMMA VerdictsAreTrue == Spec => []VerdictInv
BY InitIsTrue, StepsKeepVerdicts, TypesAreInvariant, PTL DEF Spec

\* BranchReviews.SoundVerdictsAreCurrent: along a line of reviews each judged to its end, a
\* verdict is carried only if it was reached on the code, case, model and policies of the
\* review that carries it (analysis/delta.py).
THEOREM CarriedVerdictsOfSoundReviewsAreCurrent == Spec => []SoundVerdictsAreCurrent
<1>1. VerdictInv => SoundVerdictsAreCurrent
  BY DEF VerdictInv, ComparesWell, CarriesCurrent, Current, SoundVerdictsAreCurrent, CarriesOnlyCurrent, IsCurrent
<1> QED
  BY <1>1, VerdictsAreTrue, PTL

\* BranchReviews.NothingIsJudgedForNothing: a candidate is sent back to the model only if
\* something under its verdict moved, or the case of the whole review before
\* (analysis/delta.py).
THEOREM JudgementsHaveAReason == Spec => []NothingIsJudgedForNothing
<1>1. VerdictInv => NothingIsJudgedForNothing
  BY DEF VerdictInv, ComparesWell, JudgesForAReason, Current, NothingIsJudgedForNothing, IsCurrent
<1> QED
  BY <1>1, VerdictsAreTrue, PTL

\* BranchReviews.GoneCandidatesAreAccountedFor: a candidate of the review before that is no
\* longer there is reported addressed, or is the only one gone that a new candidate of its
\* signature can follow (analysis/delta.py).
THEOREM TheGoneAreAccountedFor == Spec => []GoneCandidatesAreAccountedFor
<1>1. VerdictInv => GoneCandidatesAreAccountedFor
  BY DEF VerdictInv, ComparesWell, AccountsForTheGone, GoneCandidatesAreAccountedFor
<1> QED
  BY <1>1, VerdictsAreTrue, PTL

-----------------------------------------------------------------------------
\* One review a number, where reviews do not overlap before their first snapshot

UnderWay(pc) == pc \in {"loaded", "selected", "judging", "waiting", "stopped"}
HasARow(r) == \E i \in DOMAIN store : store[i].review = r

\* The rows under the number of a review under way are its own.
OwnsItsNumber(r) == \A i \in DOMAIN store : store[i].sequence = Sequence(r) => store[i].review = r

UniqueInv ==
    /\ OlderRowsAreSuperseded
    /\ \A r \in Reviews : UnderWay(run[r].pc) => OwnsItsNumber(r)
    /\ \A q, r \in Reviews :
          q # r /\ UnderWay(run[q].pc) /\ UnderWay(run[r].pc) => HasARow(q) \/ HasARow(r)
    /\ \A r \in Reviews : run[r].pc \in {"waiting", "stopped"} => HasARow(r)

LEMMA LoadsKeepUnique ==
    ASSUME MaxUnfiled <= 1, TypeInv, UniqueInv, NEW r \in Reviews, Loads(r)
    PROVE  UniqueInv'
<1> DEFINE v == Loaded(r)
<1>1. /\ v.pc = "loaded" /\ v.previous = Latest /\ store' = store /\ Becomes(r, v) /\ Cardinality(Unfiled) < MaxUnfiled
  BY PartsOfRuns, FieldsOfStates DEF Loads
<1>2. run'[r] = v /\ \A q \in Reviews : q # r => run'[q] = run[q]
  BY <1>1, PartsOfRuns, OneReviewMoves
<1>3. Unfiled = {}
  <2>1. Unfiled \subseteq 1..MaxReviews /\ MaxReviews \in Nat /\ MaxUnfiled \in Nat
    BY ConstantsAssumption DEF Unfiled, Reviews
  <2>2. IsFiniteSet(Unfiled)
    <3>1. IsFiniteSet(1..MaxReviews)
      BY <2>1, FS_Interval
    <3> QED
      BY <2>1, <3>1, FS_Subset
  <2>3. Cardinality(Unfiled) \in Nat
    BY <2>2, FS_CardinalityType
  <2>4. Cardinality(Unfiled) = 0
    BY <1>1, <2>1, <2>3
  <2> QED
    BY <2>2, <2>4, FS_EmptySet
<1>4. \A i \in DOMAIN store : store[i].sequence \in Nat /\ store[i].sequence <= Latest.sequence
  <2>1. \A i \in DOMAIN store : store[i] \in Rows
    BY DEF TypeInv, StoreIsTyped
  <2>2. \A i \in DOMAIN store : store[i].sequence \in Nat
    BY <2>1 DEF Rows
  <2> QED
    BY <2>2, LatestIsHighest
<1>5. Latest.sequence \in Nat
  BY <1>4, LatestIsHighest, Empty
<1> HIDE DEF v
<1>6. \A i \in DOMAIN store : store[i].sequence # run'[r].previous.sequence + 1
  BY <1>1, <1>2, <1>4, <1>5
<1>7. \A q \in Reviews : UnderWay(run[q].pc) => HasARow(q)
  BY <1>3 DEF Unfiled, UnderWay, UniqueInv, HasARow
<1>8. OlderRowsAreSuperseded'
  BY <1>1 DEF UniqueInv, OlderRowsAreSuperseded
<1>9. \A q \in Reviews : UnderWay(run'[q].pc) =>
         \A i \in DOMAIN store' : store'[i].sequence = run'[q].previous.sequence + 1 => store'[i].review = q
  BY <1>1, <1>2, <1>6 DEF UniqueInv, OwnsItsNumber, Sequence
<1>10. \A q \in Reviews : q # r /\ UnderWay(run'[q].pc) => HasARow(q)'
  BY <1>1, <1>2, <1>7 DEF HasARow
<1>11. run'[r].pc = "loaded"
  BY <1>1, <1>2
<1> QED
  BY <1>8, <1>9, <1>10, <1>11 DEF UniqueInv, OwnsItsNumber, Sequence, UnderWay

LEMMA QuietStepsKeepUnique ==
    ASSUME TypeInv, UniqueInv, NEW r \in Reviews, NEW v, Becomes(r, v), store' = store,
           UnderWay(v.pc) => UnderWay(run[r].pc) /\ v.previous = run[r].previous,
           v.pc \in {"waiting", "stopped"} => HasARow(r)
    PROVE  UniqueInv'
<1>1. run'[r] = v /\ \A q \in Reviews : q # r => run'[q] = run[q]
  BY PartsOfRuns, OneReviewMoves
<1>2. OlderRowsAreSuperseded'
  BY DEF UniqueInv, OlderRowsAreSuperseded
<1>3. \A q \in Reviews : UnderWay(run'[q].pc) => UnderWay(run[q].pc) /\ run'[q].previous = run[q].previous
  BY <1>1
<1>4. \A q \in Reviews : HasARow(q)' <=> HasARow(q)
  BY DEF HasARow
<1>5. \A q \in Reviews : run'[q].pc \in {"waiting", "stopped"} => HasARow(q)
  BY <1>1 DEF UniqueInv
<1>6. \A q \in Reviews : UnderWay(run'[q].pc) =>
         \A i \in DOMAIN store' : store'[i].sequence = run'[q].previous.sequence + 1 => store'[i].review = q
  BY <1>3 DEF UniqueInv, OwnsItsNumber, Sequence
<1> QED
  BY <1>2, <1>3, <1>4, <1>5, <1>6 DEF UniqueInv, OwnsItsNumber, Sequence

LEMMA FilingStepsKeepUnique ==
    ASSUME TypeInv, NumberInv, UniqueInv, NEW r \in Reviews, NEW v, Becomes(r, v), UnderWay(run[r].pc),
           UnderWay(v.pc) => v.previous = run[r].previous,
           NEW status, NEW manifest, NEW sound, Files(r, status, manifest, sound)
    PROVE  UniqueInv'
<1>1. run'[r] = v /\ \A q \in Reviews : q # r => run'[q] = run[q]
  BY PartsOfRuns, OneReviewMoves
<1> DEFINE row == Row(r, status, manifest, sound)
           n == Len(store)
<1>2. row.review = r /\ row.sequence = Sequence(r)
  BY DEF Row
<1>3. store' = Append(store, row) /\ store \in Seq(Rows)
  BY DEF Files, TypeInv, StoreIsTyped
<1> HIDE DEF row
<1>4. /\ n \in Nat /\ DOMAIN store = 1..n /\ DOMAIN store' = 1..(n + 1) /\ store'[n + 1] = row
      /\ \A i \in 1..n : store'[i] = store[i]
      /\ \A i \in 1..(n + 1) : i \in 1..n \/ i = n + 1
  BY <1>3
<1> HIDE DEF n
<1>5. \A i \in DOMAIN store : store[i].sequence = Sequence(r) => store[i].review = r
  BY DEF UniqueInv, OwnsItsNumber
<1>6. OlderRowsAreSuperseded'
  BY <1>2, <1>4, <1>5 DEF UniqueInv, OlderRowsAreSuperseded
<1>7. \A q \in Reviews : HasARow(q) \/ q = r => HasARow(q)'
  BY <1>2, <1>4 DEF HasARow
<1>8. \A q \in Reviews : UnderWay(run'[q].pc) => UnderWay(run[q].pc) /\ run'[q].previous = run[q].previous
  BY <1>1
\* Of two reviews under way one has a row, which the other would own.
<1>9. ASSUME NEW q \in Reviews, q # r, UnderWay(run[q].pc)
      PROVE  Sequence(q) # Sequence(r)
  <2>1. CASE HasARow(r)
    <3>1. PICK i \in DOMAIN store : store[i].review = r
      BY <2>1 DEF HasARow
    <3>2. store[i].sequence = Sequence(r)
      BY <3>1 DEF NumberInv, UnderWay
    <3> QED
      BY <1>9, <3>1, <3>2 DEF UniqueInv, OwnsItsNumber
  <2>2. CASE HasARow(q)
    <3>1. PICK i \in DOMAIN store : store[i].review = q
      BY <2>2 DEF HasARow
    <3>2. store[i].sequence = Sequence(q)
      BY <1>9, <3>1 DEF NumberInv, UnderWay
    <3> QED
      BY <1>5, <1>9, <3>1, <3>2
  <2> QED
    BY <1>9, <2>1, <2>2 DEF UniqueInv
<1>10. ASSUME NEW q \in Reviews, UnderWay(run'[q].pc), NEW i \in DOMAIN store',
              store'[i].sequence = run'[q].previous.sequence + 1
       PROVE  store'[i].review = q
  <2>1. UnderWay(run[q].pc) /\ store'[i].sequence = Sequence(q)
    BY <1>8, <1>10 DEF Sequence
  <2>2. CASE i \in 1..n
    BY <1>4, <2>1, <2>2 DEF UniqueInv, OwnsItsNumber
  <2>3. CASE i = n + 1
    BY <1>2, <1>4, <1>9, <2>1, <2>3
  <2> QED
    BY <1>4, <2>2, <2>3
<1>11. \A q \in Reviews : run'[q].pc \in {"waiting", "stopped"} => HasARow(q)'
  BY <1>1, <1>7 DEF UniqueInv
<1> QED
  BY <1>6, <1>7, <1>8, <1>10, <1>11 DEF UniqueInv, OwnsItsNumber, Sequence

LEMMA StepsKeepUnique ==
    ASSUME MaxUnfiled <= 1
    PROVE  TypeInv /\ NumberInv /\ UniqueInv /\ [Next]_vars => UniqueInv'
<1> SUFFICES ASSUME TypeInv, NumberInv, UniqueInv, [Next]_vars PROVE UniqueInv'
  OBVIOUS
<1>1. CASE UNCHANGED <<store, run>>
  BY <1>1 DEF UniqueInv, OlderRowsAreSuperseded, OwnsItsNumber, Sequence, HasARow
<1>2. ASSUME NEW r \in Reviews, ReviewSteps(r)
      PROVE  UniqueInv'
  <2>1. CASE Loads(r)
    BY <2>1, LoadsKeepUnique
  <2>2. CASE Compares(r)
    BY <2>2, PartsOfRuns, FieldsOfStates, QuietStepsKeepUnique DEF Compares, UnderWay
  <2>3. CASE Begins(r)
    BY <2>3, PartsOfRuns, FieldsOfStates, QuietStepsKeepUnique DEF Begins, UnderWay
  <2>4. ASSUME NEW c \in Candidates, Judges(r, c)
        PROVE  UniqueInv'
    BY <2>4, PartsOfRuns, FieldsOfStates, QuietStepsKeepUnique DEF Judges, UnderWay
  <2>5. CASE Asks(r)
    <3>1. Asked(r).previous = run[r].previous /\ UnderWay(run[r].pc)
      BY <2>5, PartsOfRuns, FieldsOfStates DEF Asks, Judged, UnderWay
    <3> QED
      BY <2>5, <3>1, FilingStepsKeepUnique DEF Asks
  <2>6. CASE Answers(r)
    <3>1. PICK stop \in BOOLEAN : Becomes(r, Answered(r, stop))
      BY <2>6 DEF Answers
    <3>2. Answered(r, stop).previous = run[r].previous
      BY PartsOfRuns, FieldsOfStates
    <3>3. HasARow(r) /\ UnderWay(run[r].pc) /\ store' = store
      BY <2>6 DEF Answers, UniqueInv, UnderWay
    <3> QED
      BY <3>1, <3>2, <3>3, QuietStepsKeepUnique
  <2>7. CASE Leaves(r)
    BY <2>7, DoneIsTyped, QuietStepsKeepUnique DEF Leaves, UnderWay
  <2>8. CASE Ends(r)
    <3>1. UnderWay(run[r].pc) /\ ~UnderWay(Done.pc)
      BY <2>8, PartsOfRuns, DoneIsTyped DEF Ends, UnderWay, RunStates, Pcs
    <3> QED
      BY <2>8, <3>1, FilingStepsKeepUnique DEF Ends
  <2> QED
    BY <1>2, <2>1, <2>2, <2>3, <2>4, <2>5, <2>6, <2>7, <2>8 DEF ReviewSteps
<1> QED
  BY <1>1, <1>2, Steps

\* BranchReviews.OlderRowsAreSuperseded: where one review at most is before its first
\* snapshot, all rows of a number are of one review, so that a listing of the last of each
\* hides no review (persistence/reviews.py). Two that overlap take one number.
THEOREM NumbersAreOfOneReview ==
    ASSUME MaxUnfiled <= 1
    PROVE  Spec => []OlderRowsAreSuperseded
<1>1. Init => UniqueInv /\ NumberInv
  BY DEF Init, UniqueInv, NumberInv, OlderRowsAreSuperseded, ReviewsKeepTheirNumber, IdleRun, UnderWay, OwnsItsNumber
<1>2. TypeInv /\ NumberInv /\ UniqueInv /\ [Next]_vars => UniqueInv'
  BY StepsKeepUnique
<1>3. TypeInv /\ NumberInv /\ [Next]_vars => NumberInv'
  BY StepsKeepNumbers
<1>4. UniqueInv => OlderRowsAreSuperseded
  BY DEF UniqueInv
<1> QED
  BY <1>1, <1>2, <1>3, <1>4, TypesAreInvariant, PTL DEF Spec
=============================================================================

----------------------------- MODULE PagesProofs -----------------------------
(***************************************************************************)
(* What the pages tell holds of every page that may be open: a step is one *)
(* of the page's own module, and leaves the other pages alone.             *)
(* The last sections say that each page's state keeps its type.            *)
(***************************************************************************)
EXTENDS Pages, WorkspacePagesProofs, ReviewPagesProofs

\* A page of a review or of a run is none of the workspace, and stays open.
LEMMA OtherPagesStayOpen ==
    /\ ReviewInit \/ RunInit => page \notin {"Ms", "Po", "Re", "Ca", "Gw", "As", "To", "Th"}
    /\ ReviewNext \/ RunNext => page' = page /\ page \notin {"Ms", "Po", "Re", "Ca", "Gw", "As", "To", "Th"}
<1>1. ReviewInit \/ RunInit => page \notin {"Ms", "Po", "Re", "Ca", "Gw", "As", "To", "Th"}
  BY DEF ReviewInit, RunInit
<1>2. ReviewNext \/ RunNext => page' = page /\ page \notin {"Ms", "Po", "Re", "Ca", "Gw", "As", "To", "Th"}
  BY DEF ReviewNext, RunNext, At
<1> QED
  BY <1>1, <1>2

\* What the promises of the pages of the workspace rest on holds throughout.
LEMMA WorkspaceStaysTrue ==
    (Init => WorkspaceInvariant) /\ (WorkspaceInvariant /\ [Next]_vars => WorkspaceInvariant')
<1>1. Init => WorkspaceInvariant
  BY WorkspaceInitially, OtherPagesStayOpen DEF Init, WorkspaceInvariant
<1>2. WorkspaceInvariant /\ [Next]_vars => WorkspaceInvariant'
  <2> SUFFICES ASSUME WorkspaceInvariant, [Next]_vars
               PROVE  WorkspaceInvariant'
    OBVIOUS
  <2>1. CASE ReviewNext \/ RunNext
    BY <2>1, OtherPagesStayOpen DEF WorkspaceInvariant
  <2>2. CASE WorkspaceNext \/ UNCHANGED vars
    BY <2>2, WorkspacePreserved
  <2> QED
    BY <2>1, <2>2 DEF Next
<1> QED
  BY <1>1, <1>2

\* The pages of the workspace tell what it holds, whatever it holds: the model that is chosen,
\* the policies a filter leaves, the case a scope is saved on, the chunks of a tab, the page
\* behind an overlay, what the palette finds, the failures and the theme.
THEOREM WorkspaceIsTold == Spec => []PagesTellTheWorkspace
<1>1. Init => WorkspaceInvariant
  BY WorkspaceStaysTrue
<1>2. WorkspaceInvariant /\ [Next]_vars => WorkspaceInvariant'
  BY WorkspaceStaysTrue
<1>3. WorkspaceInvariant => PagesTellTheWorkspace
  BY WorkspaceTells
<1> QED
  BY <1>1, <1>2, <1>3, PTL DEF Spec

\* A page of a review or of the workspace is none of the runs', and stays open.
LEMMA OtherPagesThanRunsStayOpen ==
    /\ ReviewInit \/ WorkspaceInit => page \notin {"Rp", "Sr", "Rw", "Rn", "Rh"}
    /\ ReviewNext \/ WorkspaceNext => page' = page /\ page \notin {"Rp", "Sr", "Rw", "Rn", "Rh"}
<1>1. ReviewInit \/ WorkspaceInit => page \notin {"Rp", "Sr", "Rw", "Rn", "Rh"}
  BY DEF ReviewInit, WorkspaceInit
<1>2. ReviewNext \/ WorkspaceNext => page' = page /\ page \notin {"Rp", "Sr", "Rw", "Rn", "Rh"}
  BY DEF ReviewNext, WorkspaceNext, At
<1> QED
  BY <1>1, <1>2

\* What the promises of the pages of runs rest on holds throughout.
LEMMA RunsStayTrue == (Init => RunInvariant) /\ (RunInvariant /\ [Next]_vars => RunInvariant')
<1>1. Init => RunInvariant
  BY RunInitially, OtherPagesThanRunsStayOpen DEF Init, RunInvariant
<1>2. RunInvariant /\ [Next]_vars => RunInvariant'
  <2> SUFFICES ASSUME RunInvariant, [Next]_vars
               PROVE  RunInvariant'
    OBVIOUS
  <2>1. CASE ReviewNext \/ WorkspaceNext
    BY <2>1, OtherPagesThanRunsStayOpen DEF RunInvariant
  <2>2. CASE RunNext \/ UNCHANGED vars
    BY <2>2, RunPreserved
  <2> QED
    BY <2>1, <2>2 DEF Next
<1> QED
  BY <1>1, <1>2

\* What a run is started with is what the reader chose last, whatever arrived while they chose:
\* the repository and the branch of the last word, folders of that repository left out of it,
\* and one press of a visit at work at a time.
THEOREM ChoicesHold == Spec => []ChoicesHoldTogether
<1>1. Init => RunInvariant
  BY RunsStayTrue
<1>2. RunInvariant /\ [Next]_vars => RunInvariant'
  BY RunsStayTrue
<1>3. RunInvariant => ChoicesHoldTogether
  BY RunTells
<1> QED
  BY <1>1, <1>2, <1>3, PTL DEF Spec

\* What is said of a run is so, however late it is read: its phases, that the reader is told of
\* it once it has ended and not before, the promise that outranks the view, its one row among
\* the reviews.
THEOREM RunsAreWatchedTruly == Spec => []RunsAreReportedTruly
<1>1. Init => RunInvariant
  BY RunsStayTrue
<1>2. RunInvariant /\ [Next]_vars => RunInvariant'
  BY RunsStayTrue
<1>3. RunInvariant => RunsAreReportedTruly
  BY RunTells
<1> QED
  BY <1>1, <1>2, <1>3, PTL DEF Spec

\* A page of a run or of the workspace is none of a review's, and stays open.
LEMMA OtherPagesThanReviewsStayOpen ==
    /\ RunInit \/ WorkspaceInit => page \notin {"Dk", "Rf", "Cv", "Rr", "Rd", "Fp", "Ae", "Ac"}
    /\ RunNext \/ WorkspaceNext => page' = page /\ page \notin {"Dk", "Rf", "Cv", "Rr", "Rd", "Fp", "Ae", "Ac"}
<1>1. RunInit \/ WorkspaceInit => page \notin {"Dk", "Rf", "Cv", "Rr", "Rd", "Fp", "Ae", "Ac"}
  BY DEF RunInit, WorkspaceInit
<1>2. RunNext \/ WorkspaceNext => page' = page /\ page \notin {"Dk", "Rf", "Cv", "Rr", "Rd", "Fp", "Ae", "Ac"}
  BY DEF RunNext, WorkspaceNext, At
<1> QED
  BY <1>1, <1>2

\* What the promises of the pages of a review rest on holds throughout.
LEMMA ReviewsStayTrue == (Init => ReviewInvariant) /\ (ReviewInvariant /\ [Next]_vars => ReviewInvariant')
<1>1. Init => ReviewInvariant
  BY ReviewInitially, OtherPagesThanReviewsStayOpen DEF Init, ReviewInvariant
<1>2. ReviewInvariant /\ [Next]_vars => ReviewInvariant'
  <2> SUFFICES ASSUME ReviewInvariant, [Next]_vars
               PROVE  ReviewInvariant'
    OBVIOUS
  <2>1. CASE RunNext \/ WorkspaceNext
    BY <2>1, OtherPagesThanReviewsStayOpen DEF ReviewInvariant
  <2>2. CASE ReviewNext \/ UNCHANGED vars
    BY <2>2, ReviewPreserved
  <2> QED
    BY <2>1, <2>2 DEF Next
<1> QED
  BY <1>1, <1>2

\* The map shows what was asked of it, whatever is filtered, searched or answered: what a request
\* brought stays drawn, a lens the map moved by itself is owned to, an offer on a blank map draws
\* something, the cards stand where their own graph puts them and a click is a press that
\* moved nothing.
THEOREM TheMapIsTrue == Spec => []TheMapShowsWhatWasAsked
<1>1. Init => ReviewInvariant
  BY ReviewsStayTrue
<1>2. ReviewInvariant /\ [Next]_vars => ReviewInvariant'
  BY ReviewsStayTrue
<1>3. ReviewInvariant => TheMapShowsWhatWasAsked
  BY TheMapTells
<1> QED
  BY <1>1, <1>2, <1>3, PTL DEF Spec

\* Answers are what was said: the record of a round is what its rows said when it was sent, a
\* page that may be left without a word has all its answers in it, and the answer last asked
\* for is on screen until the reader turns to another thread.
THEOREM AnswersHold == Spec => []AnswersAreWhatWasSaid
<1>1. Init => ReviewInvariant
  BY ReviewsStayTrue
<1>2. ReviewInvariant /\ [Next]_vars => ReviewInvariant'
  BY ReviewsStayTrue
<1>3. ReviewInvariant => AnswersAreWhatWasSaid
  BY TheAnswersTell
<1> QED
  BY <1>1, <1>2, <1>3, PTL DEF Spec

\* What is read off a record of a review is so, whichever of its records is read and whatever
\* became of the review since: the footnote under a hinge, the rows that differ from the review
\* before, the lines of a finding's closed panel.
THEOREM RecordsAreReadTruly == Spec => []RecordsReadTrue
<1>1. Init => ReviewInvariant
  BY ReviewsStayTrue
<1>2. ReviewInvariant /\ [Next]_vars => ReviewInvariant'
  BY ReviewsStayTrue
<1>3. ReviewInvariant => RecordsReadTrue
  BY TheRecordsTell
<1> QED
  BY <1>1, <1>2, <1>3, PTL DEF Spec

\* A row of the docket that the page has no reason to be unsure of, with no decision on it on its
\* way, is listed as the server has it: with any number of decisions in flight at once, one on a row
\* or on many, recorded, refused or with their answers lost, and with readings of the list that fail,
\* come late or are cancelled by the next decision. Docket names when a row is unsure.
THEOREM SureRowsAreTheServers == Spec => []DocketTellsTheTruth
<1>1. Init => ReviewInvariant
  BY ReviewsStayTrue
<1>2. ReviewInvariant /\ [Next]_vars => ReviewInvariant'
  BY ReviewsStayTrue
<1>3. ReviewInvariant => DocketTellsTheTruth
  BY TheDocketTells
<1> QED
  BY <1>1, <1>2, <1>3, PTL DEF Spec

\* Work goes on to what is left: a decision, one taken back or one that another list settles moves
\* the docket's cursor to a row that wants a person or says that none does, and an answer or a skip
\* moves the form to a question that is open.
THEOREM WorkMoves == Spec => WorkMovesToWhatIsLeft
<1> DEFINE WorkMoved == /\ page = "Dk" => Dk!AdvanceFindsWhatIsLeft
                        /\ page = "Rf" => Rf!TheRoundMovesToWhatIsLeft
<1>1. Init => ReviewInvariant
  BY ReviewsStayTrue
<1>2. ReviewInvariant /\ [Next]_vars => ReviewInvariant'
  BY ReviewsStayTrue
<1>3. ReviewInvariant /\ [Next]_vars => [WorkMoved]_vars
  <2> SUFFICES ASSUME ReviewInvariant, Next
               PROVE  WorkMoved
    OBVIOUS
  <2>1. CASE ReviewNext
    BY <2>1, WorkIsHandedOn
  <2>2. CASE RunNext \/ WorkspaceNext
    BY <2>2, OtherPagesThanReviewsStayOpen
  <2> QED
    BY <2>1, <2>2 DEF Next
<1> QED
  BY <1>1, <1>2, <1>3, PTL DEF Spec, WorkMovesToWhatIsLeft

\* Nothing that arrives takes from the reader what they are at: the atlas they opened, the frame
\* they set, the draft they are writing; a step that changes any of them is their own.
THEOREM NothingMoves == Spec => NothingMovesUnderTheReader
<1> DEFINE Stands == /\ page = "Re" => Re!TheOpenAtlasStays
                     /\ page = "Ac" => Ac!TheReadersFrameIsKept
                     /\ page = "Po" => Po!KnownDraftsAreAskedAbout
<1>1. Init => WorkspaceInvariant /\ ReviewInvariant
  BY WorkspaceStaysTrue, ReviewsStayTrue
<1>2. WorkspaceInvariant /\ ReviewInvariant /\ [Next]_vars => (WorkspaceInvariant /\ ReviewInvariant)'
  BY WorkspaceStaysTrue, ReviewsStayTrue
<1>3. WorkspaceInvariant /\ ReviewInvariant /\ [Next]_vars => [Stands]_vars
  <2> SUFFICES ASSUME WorkspaceInvariant, ReviewInvariant, Next
               PROVE  Stands
    OBVIOUS
  <2>1. CASE WorkspaceNext
    BY <2>1, WorkspaceStands, OtherPagesThanReviewsStayOpen
  <2>2. CASE ReviewNext
    BY <2>2, ReviewStands, OtherPagesStayOpen
  <2>3. CASE RunNext
    BY <2>3, OtherPagesStayOpen, OtherPagesThanReviewsStayOpen
  <2> QED
    BY <2>1, <2>2, <2>3 DEF Next
<1> QED
  BY <1>1, <1>2, <1>3, PTL DEF Spec, NothingMovesUnderTheReader

(***************************************************************************)
(* The types of the policies                                               *)
(***************************************************************************)
\* What was read, or is on its way, is of the documents; what is asked for is a policy or a new
\* one, and a folder named is one of those that may be registered.
PoliciesTypes ==
    /\ Po!TypeOK
    /\ DOMAIN v4 = Po!Corpora /\ DOMAIN v5 = Po!Corpora
    /\ \A r \in Po!Corpora : v5[r] \in {None, Asked} \/ v5[r] \subseteq Po!Documents
    /\ v13 # None => v13.next \in PoAuthored \cup {None, "new"}
    /\ v16 \in [path : PoSources \cup {None}, asked : PoSources \cup {None}, drop : PoSources \cup {None}]

\* What the server answers is of the documents.
LEMMA CorpusIsOfDocuments ==
    ASSUME Po!PoliciesAssumption, Po!TypeOK, NEW r \in Po!Corpora
    PROVE  Po!Corpus(r) \subseteq Po!Documents
<1>1. v1 \subseteq Po!Documents
  BY DEF Po!TypeOK, Po!Documents
<1>2. \A x \in PoRoots \cup PoSources : PoRead[x] \subseteq Po!Documents
  BY DEF Po!PoliciesAssumption, Po!Documents
<1>3. (IF r = None THEN {} ELSE PoRead[r]) \subseteq Po!Documents
  BY <1>2 DEF Po!Corpora
<1>4. UNION {PoRead[s] : s \in v2} \subseteq Po!Documents
  <2> SUFFICES ASSUME NEW s \in v2
               PROVE  PoRead[s] \subseteq Po!Documents
    OBVIOUS
  <2> QED
    BY <1>2 DEF Po!TypeOK
<1> QED
  BY <1>1, <1>3, <1>4 DEF Po!Corpus

\* A page opens on nothing typed and a corpus that is read, if any.
LEMMA PoliciesTypedInitially == ASSUME Po!PoliciesAssumption, Po!Init PROVE PoliciesTypes
<1>1. v12 = FALSE /\ v18 = FALSE
  BY DEF Po!Init
<1>2. 0 \in 0 .. PoMaxActs
  BY DEF Po!PoliciesAssumption
<1>3. Po!TypeOK
  BY <1>1, <1>2 DEF Po!Init, Po!TypeOK, Po!Corpora
<1>4. v16 \in [path : PoSources \cup {None}, asked : PoSources \cup {None}, drop : PoSources \cup {None}]
  BY DEF Po!Init
<1> QED
  BY <1>3, <1>4 DEF Po!Init, PoliciesTypes

\* The types of the editor's own, which most steps leave alone.
EditorTypes ==
    /\ v10 \in PoAuthored \cup {None, "new"} /\ v12 \in BOOLEAN /\ v18 \in BOOLEAN
    /\ v13 # None => v13.next \in PoAuthored \cup {None, "new"}

\* A panel in place of the page, or a page in place of the panel, leaves them so.
LEMMA PanelsAreTyped ==
    ASSUME EditorTypes, NEW r, NEW c, NEW f, Po!Panels(r, c, f)
    PROVE  EditorTypes'
<1>1. v10' = v10 /\ v13' = v13
  BY DEF Po!Panels
<1>2. v12' = v12 \/ v12' = FALSE
  BY DEF Po!Panels
<1>3. v18' \in BOOLEAN
  BY DEF Po!Panels
<1> QED
  BY <1>1, <1>2, <1>3 DEF EditorTypes

\* So does what is asked of the editor.
LEMMA RequestsAreTyped ==
    ASSUME EditorTypes, NEW next \in PoAuthored \cup {None, "new"}, Po!Request(next)
    PROVE  EditorTypes'
<1>1. CASE v10 # None /\ v12 /\ (next = None \/ next # v10)
  <2>1. v13' = [next |-> next] /\ v10' = v10 /\ v12' = v12 /\ v18' = v18
    BY <1>1 DEF Po!Request
  <2> QED
    BY <2>1 DEF EditorTypes
<1>2. CASE ~ (v10 # None /\ v12 /\ (next = None \/ next # v10))
  <2>1. v13' = None /\ v12' = FALSE /\ v10' = next
    BY <1>2 DEF Po!Request
  <2>2. v18' = (v18 \/ (v11 # None /\ v11' # v11 /\ v11.text # "clean"))
    BY <1>2 DEF Po!Request
  <2>3. v18' \in BOOLEAN
    BY <2>2
  <2> QED
    BY <2>1, <2>3 DEF EditorTypes
<1> QED
  BY <1>1, <1>2

\* And every other step of the editor.
LEMMA FormsAreTyped ==
    ASSUME EditorTypes, Po!Discard \/ Po!KeepWriting \/ Po!Save \/ (\E t : Po!Type(t)) \/ (\E s : Po!SaveSettles(s))
    PROVE  EditorTypes'
<1>1. CASE Po!Discard
  <2>1. v13 # None /\ v13' = None /\ v12' = FALSE /\ v10' = v13.next /\ v18' = v18
    BY <1>1 DEF Po!Discard
  <2> QED
    BY <2>1 DEF EditorTypes
<1>2. CASE Po!KeepWriting
  <2>1. v13' = None /\ v12' = v12 /\ v10' = v10 /\ v18' = v18
    BY <1>2 DEF Po!KeepWriting
  <2> QED
    BY <2>1 DEF EditorTypes
<1>3. CASE Po!Save
  <2>1. v13' = v13 /\ v12' = v12 /\ v10' = v10 /\ v18' = v18
    BY <1>3 DEF Po!Save
  <2> QED
    BY <2>1 DEF EditorTypes
<1>4. ASSUME NEW t, Po!Type(t)
      PROVE  EditorTypes'
  <2>1. v13' = v13 /\ v10' = v10 /\ v18' = v18
    BY <1>4 DEF Po!Type
  <2>2. v12' \in {v12, t # "clean"}
    BY <1>4 DEF Po!Type
  <2>3. v12' \in BOOLEAN
    <3>1. v12 \in BOOLEAN /\ (t # "clean") \in BOOLEAN
      BY DEF EditorTypes
    <3> QED
      BY <2>2, <3>1
  <2> QED
    BY <2>1, <2>3 DEF EditorTypes
<1>5. ASSUME NEW s, Po!SaveSettles(s)
      PROVE  EditorTypes'
  <2>1. v13' = v13 /\ v12' = FALSE /\ v10' = None
    BY <1>5 DEF Po!SaveSettles
  <2>2. v18' \in BOOLEAN
    BY <1>5 DEF Po!SaveSettles
  <2> QED
    BY <2>1, <2>2 DEF EditorTypes
<1> QED
  BY <1>1, <1>2, <1>3, <1>4, <1>5

\* The types of what is read and sent.
PageTypes ==
    /\ v1 \subseteq PoAuthored /\ v2 \subseteq PoSources /\ v3 \in Po!Corpora
    /\ DOMAIN v4 = Po!Corpora /\ \A r \in Po!Corpora : v4[r] = None \/ v4[r] \subseteq Po!Documents
    /\ DOMAIN v5 = Po!Corpora
    /\ \A r \in Po!Corpora : v5[r] \in {None, Asked} \/ v5[r] \subseteq Po!Documents
    /\ v6 \subseteq Po!Corpora /\ v9 \subseteq PoAuthored
    /\ v16 \in [path : PoSources \cup {None}, asked : PoSources \cup {None}, drop : PoSources \cup {None}]
    /\ v17 \in 0 .. PoMaxActs

\* The readings leave them so.
LEMMA ReadingsAreTyped ==
    ASSUME Po!PoliciesAssumption, PageTypes, NEW r \in Po!Corpora,
           Po!Corpus(r) \subseteq Po!Documents,
           Po!ChooseRoot(r) \/ Po!ServerReads(r) \/ Po!CorpusArrives(r) \/ Po!ReadFails(r)
    PROVE  PageTypes'
<1> USE DEF PageTypes
<1>0. PoMaxActs \in Nat
  BY DEF Po!PoliciesAssumption
<1>1. CASE Po!ChooseRoot(r)
  <2>1. v3' = r /\ v17' \in 0 .. PoMaxActs /\ UNCHANGED <<v1, v2, v4, v16>>
    <3>1. v3' = r /\ Po!Acts /\ UNCHANGED <<v1, v2, v4, v16>>
      BY <1>1 DEF Po!ChooseRoot, Po!server, Po!requests
    <3> QED
      BY <1>0, <3>1 DEF Po!Acts
  <2>2. v5' = v5 \/ v5' = [v5 EXCEPT ![r] = Asked]
    BY <1>1 DEF Po!ChooseRoot
  <2>3. v6' \subseteq v6
    BY <1>1 DEF Po!ChooseRoot
  <2>4. v9' \subseteq v9
    BY <1>1 DEF Po!ChooseRoot, Po!CardsOf
  <2>5. Po!Corpora' = Po!Corpora /\ Po!Documents' = Po!Documents
    BY DEF Po!Corpora, Po!Documents
  <2> QED
    BY <1>0, <2>1, <2>2, <2>3, <2>4, <2>5
<1>2. CASE Po!ServerReads(r)
  <2>1. v5' = [v5 EXCEPT ![r] = Po!Corpus(r)] /\ UNCHANGED <<v1, v2, v3, v4, v6, v9, v16, v17>>
    BY <1>2 DEF Po!ServerReads, Po!server, Po!card, Po!requests
  <2>2. Po!Corpora' = Po!Corpora /\ Po!Documents' = Po!Documents
    BY DEF Po!Corpora, Po!Documents
  <2> QED
    BY <2>1, <2>2
<1>3. CASE Po!CorpusArrives(r)
  <2>1. /\ v5[r] \notin {None, Asked} /\ v4' = [v4 EXCEPT ![r] = v5[r]] /\ v5' = [v5 EXCEPT ![r] = None]
        /\ v6' \subseteq v6 /\ UNCHANGED <<v1, v2, v3, v16, v17>>
    BY <1>3 DEF Po!CorpusArrives, Po!server, Po!requests
  <2>2. v9' \subseteq v9
    BY <1>3 DEF Po!CorpusArrives, Po!CardsOf
  <2>3. Po!Corpora' = Po!Corpora /\ Po!Documents' = Po!Documents
    BY DEF Po!Corpora, Po!Documents
  <2> QED
    BY <2>1, <2>2, <2>3
<1>4. CASE Po!ReadFails(r)
  <2>1. v5' = [v5 EXCEPT ![r] = None] /\ v6' = v6 \cup {r} /\ UNCHANGED <<v1, v2, v3, v4, v16, v17>>
    BY <1>4 DEF Po!ReadFails, Po!server, Po!requests
  <2>2. v9' \subseteq v9
    BY <1>4 DEF Po!ReadFails
  <2>3. Po!Corpora' = Po!Corpora /\ Po!Documents' = Po!Documents
    BY DEF Po!Corpora, Po!Documents
  <2> QED
    BY <2>1, <2>2, <2>3
<1> QED
  BY <1>1, <1>2, <1>3, <1>4

\* A step that leaves the readings' places leaves them so, if what it changes is typed.
LEMMA PageStaysTyped ==
    ASSUME PageTypes, v1' \subseteq PoAuthored, v2' \subseteq PoSources, v3' = v3, v4' = v4,
           v5' = v5 \/ v5' = Po!Invalidated, v6' \subseteq v6,
           v9' \subseteq PoAuthored,
           v16' \in [path : PoSources \cup {None}, asked : PoSources \cup {None}, drop : PoSources \cup {None}],
           v17' \in 0 .. PoMaxActs
    PROVE  PageTypes'
<1>1. Po!Corpora' = Po!Corpora /\ Po!Documents' = Po!Documents
  BY DEF Po!Corpora, Po!Documents
<1>2. DOMAIN v5' = Po!Corpora
  BY DEF PageTypes, Po!Invalidated
<1>3. \A r \in Po!Corpora : v5'[r] = v5[r] \/ v5'[r] = Asked
  BY DEF PageTypes, Po!Invalidated
<1> QED
  BY <1>1, <1>2, <1>3 DEF PageTypes

\* Every step of the reader, the page and the server leaves every part with its type.
LEMMA PoliciesTyped ==
    ASSUME Po!PoliciesAssumption, PoliciesTypes, Po!IInv, Po!Next \/ UNCHANGED Po!vars
    PROVE  PoliciesTypes'
<1> DEFINE S == PoSources \cup {None}
<1>0. PoMaxActs \in Nat
  BY DEF Po!PoliciesAssumption
<1>1. PageTypes /\ EditorTypes
  BY DEF PoliciesTypes, Po!TypeOK, PageTypes, EditorTypes
<1>2. PageTypes' /\ EditorTypes' => PoliciesTypes'
  <2>1. v11' # None => v10' # None
    BY DraftsKept DEF Po!IInv, Po!DraftsAreInTheEditor
  <2> QED
    BY <2>1 DEF PoliciesTypes, Po!TypeOK, PageTypes, EditorTypes
<1>3. UNCHANGED <<v10, v12, v13, v18>> => EditorTypes'
  BY <1>1 DEF EditorTypes
<1>4. v17 \in 0 .. PoMaxActs /\ (Po!Acts => v17' \in 0 .. PoMaxActs)
  BY <1>0, <1>1 DEF Po!Acts, PageTypes
<1>5. /\ v1 \subseteq PoAuthored /\ v2 \subseteq PoSources /\ v9 \subseteq PoAuthored
      /\ v16 \in [path : S, asked : S, drop : S]
  BY <1>1 DEF PageTypes
<1>6. ASSUME UNCHANGED <<v1, v2, v16>>, v3' = v3, v4' = v4, v5' = v5, v6' \subseteq v6, v9' \subseteq PoAuthored,
             Po!Acts \/ v17' = v17
      PROVE  PageTypes'
  <2>1. v17' \in 0 .. PoMaxActs
    BY <1>4, <1>6
  <2> QED
    BY <1>1, <1>5, <1>6, <2>1, PageStaysTyped
<1>7. ASSUME NEW r \in Po!Corpora, Po!ChooseRoot(r) \/ Po!ServerReads(r) \/ Po!CorpusArrives(r) \/ Po!ReadFails(r)
      PROVE  PoliciesTypes'
  <2>1. Po!Corpus(r) \subseteq Po!Documents
    BY CorpusIsOfDocuments DEF PoliciesTypes
  <2>2. PageTypes'
    BY <1>1, <1>7, <2>1, ReadingsAreTyped
  <2>3. EditorTypes'
    BY <1>1, <1>3, <1>7, PanelsAreTyped DEF Po!ChooseRoot, Po!ServerReads, Po!CorpusArrives, Po!ReadFails, Po!editor
  <2> QED
    BY <1>2, <2>2, <2>3
<1>8. ASSUME NEW f, Po!Filters(f)
      PROVE  PoliciesTypes'
  <2>1. v9' \subseteq v9 /\ Po!Acts /\ UNCHANGED <<Po!server, Po!query, Po!editor, Po!requests>>
    BY <1>8 DEF Po!Filters, Po!CardsOf
  <2> QED
    BY <1>2, <1>3, <1>5, <1>6, <2>1 DEF Po!server, Po!query, Po!editor, Po!requests
<1>9. ASSUME NEW p \in Po!Documents, Po!Edit(p) \/ Po!Toggle(p) \/ Po!AskToDelete(p) \/ Po!Keep(p) \/ Po!Delete(p)
      PROVE  PoliciesTypes'
  <2>1. Po!Acts /\ UNCHANGED <<Po!server, Po!query, v16>>
    BY <1>9 DEF Po!Edit, Po!Toggle, Po!AskToDelete, Po!Keep, Po!Delete, Po!requests
  <2>2. v9' \subseteq PoAuthored
    BY <1>5, <1>9 DEF Po!Edit, Po!Toggle, Po!AskToDelete, Po!Keep, Po!Delete, Po!card, Po!Asking
  <2>3. EditorTypes'
    <3>1. CASE Po!Edit(p)
      <4>1. p \in PoAuthored /\ Po!Request(p)
        BY <3>1 DEF Po!Edit
      <4> QED
        BY <1>1, <4>1, RequestsAreTyped
    <3>2. CASE ~Po!Edit(p)
      BY <1>3, <1>9, <3>2 DEF Po!Toggle, Po!AskToDelete, Po!Keep, Po!Delete, Po!editor
    <3> QED
      BY <3>1, <3>2
  <2> QED
    BY <1>2, <1>6, <2>1, <2>2, <2>3 DEF Po!server, Po!query
<1>10. ASSUME Po!OpenOrClose
       PROVE  PoliciesTypes'
  <2>1. Po!Acts /\ UNCHANGED <<Po!server, Po!query, Po!card, v16>>
    BY <1>10 DEF Po!OpenOrClose, Po!requests
  <2>2. Po!Request("new") \/ Po!Request(None)
    BY <1>10 DEF Po!OpenOrClose
  <2>3. EditorTypes'
    BY <1>1, <2>2, RequestsAreTyped
  <2> QED
    BY <1>2, <1>5, <1>6, <2>1, <2>3 DEF Po!server, Po!query, Po!card
<1>11. ASSUME Po!Discard \/ Po!KeepWriting \/ Po!Save \/ (\E t : Po!Type(t)) \/ (\E s : Po!SaveSettles(s))
       PROVE  PoliciesTypes'
  <2>1. (Po!Acts \/ v17' = v17) /\ UNCHANGED <<Po!server, Po!query, Po!card, v16>>
    BY <1>11 DEF Po!Discard, Po!KeepWriting, Po!Save, Po!Type, Po!SaveSettles, Po!requests
  <2>2. EditorTypes'
    BY <1>1, <1>11, FormsAreTyped
  <2> QED
    BY <1>2, <1>5, <1>6, <2>1, <2>2 DEF Po!server, Po!query, Po!card
<1>12. ASSUME NEW s, Po!Saved(s) \/ Po!SaveFails(s)
       PROVE  PoliciesTypes'
  <2>1. v1' \subseteq PoAuthored /\ (v5' = v5 \/ v5' = Po!Invalidated)
    BY <1>5, <1>12 DEF Po!Saved, Po!SaveFails, Po!server, Po!query
  <2>2. UNCHANGED <<v2, v3, v4, v6, v9, v10, v12, v13, v16, v17, v18>>
    BY <1>12 DEF Po!Saved, Po!SaveFails, Po!server, Po!query, Po!card, Po!editor
  <2>3. PageTypes'
    BY <1>1, <1>4, <1>5, <2>1, <2>2, PageStaysTyped
  <2> QED
    BY <1>2, <1>3, <2>2, <2>3
<1>13. ASSUME Po!TryAgain
       PROVE  PoliciesTypes'
  <2>1. /\ v5' = [v5 EXCEPT ![v3] = Asked] /\ v6' \subseteq v6 /\ Po!Acts
        /\ UNCHANGED <<v1, v2, v3, v4, v9, v10, v12, v13, v16, v18>>
    BY <1>13 DEF Po!TryAgain, Po!server, Po!card, Po!editor, Po!requests
  <2>2. PageTypes'
    <3>1. Po!Corpora' = Po!Corpora /\ Po!Documents' = Po!Documents
      BY DEF Po!Corpora, Po!Documents
    <3> QED
      BY <1>1, <1>4, <2>1, <3>1 DEF PageTypes
  <2> QED
    BY <1>2, <1>3, <2>1, <2>2
<1>14. ASSUME Po!Deleted \/ Po!DeleteEnds
       PROVE  PoliciesTypes'
  <2>1. v1' \subseteq v1 /\ (v5' = v5 \/ v5' = Po!Invalidated)
    BY <1>14 DEF Po!Deleted, Po!DeleteEnds, Po!server, Po!query
  <2>2. UNCHANGED <<v2, v3, v4, v6, v9, v10, v12, v13, v16, v17, v18>>
    BY <1>14 DEF Po!Deleted, Po!DeleteEnds, Po!server, Po!query, Po!card, Po!editor
  <2>3. PageTypes'
    BY <1>1, <1>4, <1>5, <2>1, <2>2, PageStaysTyped
  <2> QED
    BY <1>2, <1>3, <2>2, <2>3
<1>15. ASSUME Po!Register \/ Po!Registered \/ Po!Dropped \/ Po!SourceFails
              \/ \E s \in PoSources : Po!TypeSource(s) \/ Po!Drop(s)
       PROVE  PoliciesTypes'
  <2>1. v16' \in [path : S, asked : S, drop : S]
    <3>1. CASE Po!Register \/ Po!Registered \/ Po!Dropped \/ Po!SourceFails
      BY <1>5, <3>1 DEF Po!Register, Po!Registered, Po!Dropped, Po!SourceFails
    <3>2. ASSUME NEW s \in PoSources, Po!TypeSource(s) \/ Po!Drop(s)
          PROVE  v16' \in [path : S, asked : S, drop : S]
      BY <1>5, <3>2 DEF Po!TypeSource, Po!Drop
    <3> QED
      BY <1>15, <3>1, <3>2
  <2>2. v2' \subseteq PoSources
    BY <1>5, <1>15 DEF Po!Register, Po!Registered, Po!Dropped, Po!SourceFails, Po!TypeSource, Po!Drop, Po!server
  <2>3. v5' = v5 \/ v5' = Po!Invalidated
    BY <1>15 DEF Po!Register, Po!Registered, Po!Dropped, Po!SourceFails, Po!TypeSource, Po!Drop, Po!query
  <2>4. UNCHANGED <<v1, v3, v4, v6, v9, v10, v12, v13, v18>> /\ (Po!Acts \/ v17' = v17)
    BY <1>15 DEF Po!Register, Po!Registered, Po!Dropped, Po!SourceFails, Po!TypeSource, Po!Drop,
                 Po!server, Po!query, Po!card, Po!editor
  <2>5. v17' \in 0 .. PoMaxActs
    BY <1>4, <2>4
  <2>6. PageTypes'
    BY <1>1, <1>5, <2>1, <2>2, <2>3, <2>4, <2>5, PageStaysTyped
  <2> QED
    BY <1>2, <1>3, <2>4, <2>6
<1>16. ASSUME UNCHANGED Po!vars
       PROVE  PoliciesTypes'
  BY <1>2, <1>3, <1>5, <1>6, <1>16 DEF Po!vars, Po!server, Po!query, Po!card, Po!editor, Po!requests
<1>17. CASE Po!Next
  <2> DEFINE Reads == \E r \in Po!Corpora : Po!ChooseRoot(r) \/ Po!ServerReads(r) \/ Po!CorpusArrives(r) \/ Po!ReadFails(r)
             Chips == \E s \in {"all", "required", "preferred", "guidance"}, c \in {"all"} \cup {PoScope[p] : p \in Po!Documents} :
                          \E a \in BOOLEAN : Po!Filters([strength |-> s, scope |-> c, authored |-> a])
             Cards == \E p \in Po!Documents : Po!Edit(p) \/ Po!Toggle(p) \/ Po!AskToDelete(p) \/ Po!Keep(p) \/ Po!Delete(p)
             Types == \E t \in Po!Texts : Po!Type(t)
             Saves == \E s \in v14 : Po!Saved(s) \/ Po!SaveFails(s) \/ Po!SaveSettles(s)
             Folders == \E s \in PoSources : Po!TypeSource(s) \/ Po!Drop(s)
  <2>1. Reads => PoliciesTypes'
    BY <1>7
  <2>2. Chips => PoliciesTypes'
    BY <1>8
  <2>3. Cards => PoliciesTypes'
    BY <1>9
  <2>4. Types => PoliciesTypes'
    BY <1>11
  <2>5. Saves => PoliciesTypes'
    BY <1>11, <1>12
  <2>6. Folders => PoliciesTypes'
    BY <1>15
  <2>7. Po!Discard \/ Po!KeepWriting \/ Po!Save => PoliciesTypes'
    BY <1>11
  <2>8. Po!Register \/ Po!Registered \/ Po!Dropped \/ Po!SourceFails => PoliciesTypes'
    BY <1>15
  <2>9. \/ Reads \/ Chips \/ Cards \/ Types \/ Saves \/ Folders
        \/ Po!TryAgain \/ Po!OpenOrClose \/ Po!Discard \/ Po!KeepWriting \/ Po!Save
        \/ Po!Deleted \/ Po!DeleteEnds \/ Po!Register \/ Po!Registered \/ Po!Dropped \/ Po!SourceFails
    BY <1>17 DEF Po!Next
  <2> HIDE DEF Reads, Chips, Cards, Types, Saves, Folders
  <2> QED
    BY <1>10, <1>13, <1>14, <2>1, <2>2, <2>3, <2>4, <2>5, <2>6, <2>7, <2>8, <2>9
<1> QED
  BY <1>16, <1>17

(***************************************************************************)
(* The types of the repositories                                           *)
(***************************************************************************)
\* What the cards, the address and the presses hold, beside the lists.
CardsTypes ==
    /\ v7 \in BOOLEAN /\ v8 \in [ReRepos -> Re!Commits \cup {None}]
    /\ v9 \in ReRepos \cup {None} /\ v11 \subseteq ReRepos
    /\ DOMAIN v12 = ReRepos /\ DOMAIN v13 = ReRepos
    /\ v14 # None => v14.root \in ReRepos /\ DOMAIN v14 = {"root", "done"}
    /\ v15 \in [ReRepos -> Re!Commits \cup {None}]
    /\ v17 \in 0 .. ReMaxActs

\* With the lists they are what has a type.
LEMMA CardsAndLists ==
    ASSUME Re!IInv, CardsTypes
    PROVE  Re!TypeOK
<1>1. /\ v1 \in [ReRepos -> Re!Commits] /\ v2 \in [ReRepos -> Re!Commits] /\ v4 \in [ReRepos -> Re!Commits]
      /\ v3 \in Seq(ReRepos) /\ v5 \in {None} \cup Seq(Re!Answers) /\ v6 \in {None, Asked} \cup Seq(Re!Answers)
  BY DEF Re!IInv, Re!ListsAreOfWhatIsIndexed
<1>2. ASSUME NEW A, NEW s \in Seq(A)
      PROVE  Re!ToSet(s) \subseteq A
  BY <1>2, ElementsOf DEF Re!ToSet
<1>3. Re!ToSet(v3) \subseteq ReRepos /\ Re!ToSet(Re!Rows(v5)) \subseteq Re!Answers
  BY <1>1, <1>2, RootsListed
<1>4. v6 \in {None, Asked} \/ Re!ToSet(v6) \subseteq Re!Answers
  BY <1>1, <1>2
<1>5. v10 \in ReRepos \cup {None}
  <2>1. v10 = Re!Open
    BY DEF Re!IInv, Re!OpenIsHeld
  <2>2. Re!Open \in Re!Roots(v5) \cup {None} /\ Re!Roots(v5) \subseteq ReRepos
    BY <1>1, SelectedIsListed, RootsListed DEF Re!Open
  <2> QED
    BY <2>1, <2>2
<1> QED
  BY <1>1, <1>3, <1>4, <1>5 DEF Re!TypeOK, CardsTypes

\* Nothing is pressed to begin with.
LEMMA CardsTypedInitially ==
    ASSUME Re!RepositoriesAssumption, Re!Init
    PROVE  CardsTypes
<1>1. 0 \in 0 .. ReMaxActs
  BY DEF Re!RepositoriesAssumption
<1>2. v7 \in BOOLEAN
  BY DEF Re!Init
<1> QED
  BY <1>1, <1>2 DEF Re!Init, CardsTypes

\* A card is drawn at a commit of its root.
LEMMA CardsAreDrawn ==
    ASSUME CardsTypes, NEW l \in {None} \cup Seq(Re!Answers), NEW u, NEW f, Re!Draws(l, u, f)
    PROVE  v8' \in [ReRepos -> Re!Commits \cup {None}]
<1>1. v8' = [r \in ReRepos |-> IF r \in Re!Roots(l) \cap f THEN Re!CommitOf(l, r) ELSE v8[r]]
  BY DEF Re!Draws
<1>2. ASSUME NEW r \in Re!Roots(l)
      PROVE  Re!CommitOf(l, r) \in Re!Commits
  <2>1. PICK row \in Re!ToSet(Re!Rows(l)) : row.root = r
    BY <1>2 DEF Re!Roots
  <2> DEFINE c == CHOOSE x \in Re!ToSet(Re!Rows(l)) : x.root = r
  <2>2. c \in Re!ToSet(Re!Rows(l))
    BY <2>1
  <2>3. Re!ToSet(Re!Rows(l)) \subseteq Re!Answers
    BY RootsListed, ElementsOf DEF Re!ToSet
  <2>4. c.commit \in Re!Commits
    BY <2>2, <2>3 DEF Re!Answers
  <2> QED
    BY <2>4 DEF Re!CommitOf
<1> QED
  BY <1>1, <1>2 DEF CardsTypes

\* Every step of the reader, the page and the server leaves them with their type.
LEMMA CardsTyped ==
    ASSUME Re!RepositoriesAssumption, Re!IInv, CardsTypes, Re!Next \/ UNCHANGED Re!vars
    PROVE  CardsTypes'
<1> USE DEF CardsTypes
<1>0. ReMaxActs \in Nat /\ Re!Commits' = Re!Commits
  BY DEF Re!RepositoriesAssumption, Re!Commits
<1>1. v4 \in [ReRepos -> Re!Commits] /\ v5 \in {None} \cup Seq(Re!Answers)
      /\ v6 \in {None, Asked} \cup Seq(Re!Answers)
  BY DEF Re!IInv, Re!ListsAreOfWhatIsIndexed
<1>2. Re!Roots(v5) \subseteq ReRepos
  BY <1>1, RootsListed
<1>3. Re!Acts => v17' \in 0 .. ReMaxActs
  BY <1>0 DEF Re!Acts
<1>4. CASE Re!ServerLists \/ Re!ListFails \/ Re!TryAgain \/ UNCHANGED Re!vars
  <2>1. UNCHANGED <<v8, v9, v11, v12, v13, v14, v15>> /\ (v7' = v7 \/ v7' \in BOOLEAN) /\ (Re!Acts \/ v17' = v17)
    BY <1>4 DEF Re!ServerLists, Re!ListFails, Re!TryAgain, Re!vars, Re!disks, Re!view
  <2> QED
    BY <1>0, <1>3, <2>1
<1>5. CASE Re!ListArrives
  <2>1. UNCHANGED <<v9, v11, v12, v13, v14, v15, v17>> /\ v7' = FALSE /\ Re!Draws(v6, v9, v11) /\ v6 \notin {None, Asked}
    BY <1>5 DEF Re!ListArrives
  <2>2. v8' \in [ReRepos -> Re!Commits \cup {None}]
    BY <1>1, <2>1, CardsAreDrawn
  <2> QED
    BY <1>0, <2>1, <2>2
<1>6. ASSUME NEW r \in ReRepos, Re!Select(r)
      PROVE  CardsTypes'
  <2>1. UNCHANGED <<v7, v11, v12, v13, v14, v15>> /\ v9' = r /\ Re!Acts /\ Re!Draws(v5, r, v11)
    BY <1>6 DEF Re!Select
  <2>2. v8' \in [ReRepos -> Re!Commits \cup {None}]
    BY <1>1, <2>1, CardsAreDrawn
  <2> QED
    BY <1>0, <1>3, <2>1, <2>2
<1>7. ASSUME NEW f \in SUBSET ReRepos, Re!Search(f)
      PROVE  CardsTypes'
  <2>1. UNCHANGED <<v7, v9, v12, v13, v14, v15>> /\ v11' = f /\ Re!Acts /\ Re!Draws(v5, v9, f)
    BY <1>7 DEF Re!Search
  <2>2. v8' \in [ReRepos -> Re!Commits \cup {None}]
    BY <1>1, <2>1, CardsAreDrawn
  <2> QED
    BY <1>0, <1>3, <2>1, <2>2
<1>8. ASSUME NEW r \in ReRepos, Re!ReadSpots(r)
      PROVE  CardsTypes'
  BY <1>0, <1>1, <1>8 DEF Re!ReadSpots, Re!view
<1>9. ASSUME NEW r \in ReRepos,
             \/ Re!Reindex(r) \/ Re!ServerIndexes(r) \/ Re!Reindexed(r) \/ Re!Fetch(r) \/ Re!ServerFetches(r)
             \/ Re!Fetched(r) \/ Re!Clone(r) \/ Re!RemoteMoves(r) \/ Re!ReviewStarts(r)
      PROVE  CardsTypes'
  <2>1. UNCHANGED <<v7, v8, v9, v11, v15>>
    BY <1>9 DEF Re!Reindex, Re!ServerIndexes, Re!Reindexed, Re!Fetch, Re!ServerFetches, Re!Fetched, Re!Clone,
                Re!RemoteMoves, Re!ReviewStarts, Re!view
  <2>2. DOMAIN v12' = DOMAIN v12 /\ DOMAIN v13' = DOMAIN v13
    BY <1>9 DEF Re!Reindex, Re!ServerIndexes, Re!Reindexed, Re!Fetch, Re!ServerFetches, Re!Fetched, Re!Clone,
                Re!RemoteMoves, Re!ReviewStarts
  <2>3. v14' = v14 \/ v14' = [root |-> r, done |-> FALSE]
    BY <1>9 DEF Re!Reindex, Re!ServerIndexes, Re!Reindexed, Re!Fetch, Re!ServerFetches, Re!Fetched, Re!Clone,
                Re!RemoteMoves, Re!ReviewStarts
  <2>4. Re!Acts \/ v17' = v17
    BY <1>9 DEF Re!Reindex, Re!ServerIndexes, Re!Reindexed, Re!Fetch, Re!ServerFetches, Re!Fetched, Re!Clone,
                Re!RemoteMoves, Re!ReviewStarts
  <2> QED
    BY <1>0, <1>3, <2>1, <2>2, <2>3, <2>4
<1>10. CASE Re!ServerClones \/ Re!CloneFails
  <2>1. UNCHANGED <<v7, v8, v9, v11, v12, v13, v15, v17>> /\ v14 # None
        /\ (v14' = None \/ v14' = [v14 EXCEPT !.done = TRUE])
    BY <1>10 DEF Re!ServerClones, Re!CloneFails, Re!view
  <2> QED
    BY <1>0, <2>1
<1>11. CASE Re!Cloned
  <2>1. UNCHANGED <<v7, v11, v12, v13, v15, v17>> /\ v14 # None /\ v9' = v14.root /\ v14' = None
        /\ Re!Draws(v5, v14.root, v11)
    BY <1>11 DEF Re!Cloned
  <2>2. v8' \in [ReRepos -> Re!Commits \cup {None}]
    BY <1>1, <2>1, CardsAreDrawn
  <2> QED
    BY <1>0, <2>1, <2>2
<1> QED
  BY <1>4, <1>5, <1>6, <1>7, <1>8, <1>9, <1>10, <1>11 DEF Re!Next

(***************************************************************************)
(* The types of the pages together                                         *)
(***************************************************************************)
\* What is of its type on each page, beside what its invariant keeps so.
WorkspaceTypes ==
    /\ page = "Po" => PoliciesTypes
    /\ page = "Re" => CardsTypes
    /\ page = "Ca" => CasesTypes
    /\ page = "As" => OverlaysTypes

RunTypes ==
    /\ page = "Rp" => PickerTypes
    /\ page = "Rh" => Rh!TypeOK

\* A page of the workspace opens with every part of its type.
LEMMA WorkspaceTypedInitially ==
    ASSUME WorkspaceInit
    PROVE  WorkspaceTypes
<1>1. /\ page = "Po" => Po!Init
      /\ page = "Re" => Re!Init
      /\ page = "Ca" => Ca!Init
      /\ page = "As" => As!Init
  BY DEF WorkspaceInit
<1> QED
  BY <1>1, WorkspaceAssumption, PoliciesTypedInitially, CardsTypedInitially, CasesTypedInitially,
     OverlaysTypedInitially DEF WorkspaceAssumption, WorkspaceTypes

\* So does a page of the runs.
LEMMA RunTypedInitially ==
    ASSUME RunInit
    PROVE  RunTypes
<1>1. /\ page = "Rp" => Rp!Init
      /\ page = "Rh" => Rh!Init
  BY DEF RunInit
<1> QED
  BY <1>1, RunAssumption, PickerTypedInitially, HistoryTypedInitially DEF RunAssumption, RunTypes

\* Every step of a page of the workspace leaves every part with its type.
LEMMA WorkspaceStaysTyped ==
    ASSUME WorkspaceInvariant, WorkspaceTypes, WorkspaceNext \/ UNCHANGED vars
    PROVE  WorkspaceTypes'
<1>1. /\ page' = page
      /\ page = "Po" => Po!Next \/ UNCHANGED Po!vars
      /\ page = "Re" => Re!Next \/ UNCHANGED Re!vars
      /\ page = "Ca" => Ca!Next \/ UNCHANGED Ca!vars
      /\ page = "As" => As!Next \/ UNCHANGED As!vars
  BY WorkspaceSteps, WorkspaceStutters
<1>2. page = "Po" => PoliciesTypes'
  BY <1>1, WorkspaceAssumption, PoliciesTyped DEF WorkspaceAssumption, WorkspaceInvariant, WorkspaceTypes
<1>3. page = "Re" => CardsTypes'
  BY <1>1, WorkspaceAssumption, CardsTyped DEF WorkspaceAssumption, WorkspaceInvariant, WorkspaceTypes
<1>4. page = "Ca" => CasesTypes'
  BY <1>1, WorkspaceAssumption, CasesTyped DEF WorkspaceAssumption, WorkspaceInvariant, WorkspaceTypes
<1>5. page = "As" => OverlaysTypes'
  BY <1>1, WorkspaceAssumption, OverlaysTyped DEF WorkspaceAssumption, WorkspaceInvariant, WorkspaceTypes
<1> QED
  BY <1>1, <1>2, <1>3, <1>4, <1>5 DEF WorkspaceTypes

\* So does every step of a page of the runs.
LEMMA RunStaysTyped ==
    ASSUME RunTypes, RunNext \/ UNCHANGED vars
    PROVE  RunTypes'
<1>1. /\ page' = page
      /\ page = "Rp" => Rp!Next \/ UNCHANGED Rp!vars
      /\ page = "Rh" => Rh!Next \/ UNCHANGED Rh!vars
  BY RunSteps, RunStutters
<1>2. page = "Rp" => PickerTypes'
  BY <1>1, RunAssumption, PickerTyped DEF RunAssumption, RunTypes
<1>3. page = "Rh" => Rh!TypeOK'
  BY <1>1, RunAssumption, HistoryTyped DEF RunAssumption, RunTypes
<1> QED
  BY <1>1, <1>2, <1>3 DEF RunTypes

\* With the invariants they are the types of the workspace.
LEMMA WorkspaceIsTyped ==
    ASSUME WorkspaceInvariant, WorkspaceTypes
    PROVE  WorkspaceTypeOK
<1>1. /\ page = "Ms" => Ms!TypeOK
      /\ page = "Gw" => Gw!TypeOK
      /\ page = "To" => To!TypeOK
      /\ page = "Th" => Th!TypeOK
  BY DEF WorkspaceInvariant, Ms!IInv, Gw!IInv, To!IInv, Th!IInv
<1>2. /\ page = "Po" => Po!TypeOK
      /\ page = "Ca" => Ca!TypeOK
  BY DEF WorkspaceTypes, PoliciesTypes, CasesTypes
<1>3. page = "Re" => Re!TypeOK
  BY CardsAndLists DEF WorkspaceInvariant, WorkspaceTypes
<1>4. page = "As" => As!TypeOK
  BY WorkspaceAssumption, ShellIsTyped DEF WorkspaceAssumption, WorkspaceInvariant, WorkspaceTypes
<1> QED
  BY <1>1, <1>2, <1>3, <1>4 DEF WorkspaceTypeOK

\* And those of the runs.
LEMMA RunIsTyped ==
    ASSUME RunInvariant, RunTypes
    PROVE  RunTypeOK
<1>1. /\ page = "Sr" => Sr!TypeOK
      /\ page = "Rw" => Rw!TypeOK
      /\ page = "Rn" => Rn!TypeOK
  BY DEF RunInvariant, Sr!IInv, Rw!IInv, Rn!IInv
<1>2. /\ page = "Rp" => Rp!TypeOK
      /\ page = "Rh" => Rh!TypeOK
  BY DEF RunTypes, PickerTypes
<1> QED
  BY <1>1, <1>2 DEF RunTypeOK

\* What is of its type on the pages stays so, whichever of them is open.
PagesTypes == WorkspaceTypes /\ RunTypes /\ ReviewTypes

\* At first every part of every page has its type, and every step leaves it with it.
LEMMA PagesStayTyped ==
    /\ Init => PagesTypes
    /\ PagesTypes /\ WorkspaceInvariant /\ RunInvariant /\ ReviewInvariant /\ [Next]_vars => PagesTypes'
<1>1. Init => WorkspaceTypes
  BY WorkspaceTypedInitially, OtherPagesStayOpen DEF Init, WorkspaceTypes
<1>2. Init => RunTypes
  BY RunTypedInitially, OtherPagesThanRunsStayOpen DEF Init, RunTypes
<1>3. Init => ReviewTypes
  BY ReviewTypedInitially, OtherPagesThanReviewsStayOpen DEF Init, ReviewTypes
<1>4. ASSUME PagesTypes, WorkspaceInvariant, RunInvariant, ReviewInvariant, [Next]_vars
      PROVE  PagesTypes'
  <2>1. WorkspaceTypes'
    <3>1. CASE ReviewNext \/ RunNext
      BY <3>1, OtherPagesStayOpen DEF WorkspaceTypes
    <3>2. CASE WorkspaceNext \/ UNCHANGED vars
      BY <1>4, <3>2, WorkspaceStaysTyped DEF PagesTypes
    <3> QED
      BY <1>4, <3>1, <3>2 DEF Next
  <2>2. RunTypes'
    <3>1. CASE ReviewNext \/ WorkspaceNext
      BY <3>1, OtherPagesThanRunsStayOpen DEF RunTypes
    <3>2. CASE RunNext \/ UNCHANGED vars
      BY <1>4, <3>2, RunStaysTyped DEF PagesTypes
    <3> QED
      BY <1>4, <3>1, <3>2 DEF Next
  <2>3. ReviewTypes'
    <3>1. CASE RunNext \/ WorkspaceNext
      BY <3>1, OtherPagesThanReviewsStayOpen DEF ReviewTypes
    <3>2. CASE ReviewNext \/ UNCHANGED vars
      BY <1>4, <3>2, ReviewStaysTyped DEF PagesTypes
    <3> QED
      BY <1>4, <3>1, <3>2 DEF Next
  <2> QED
    BY <2>1, <2>2, <2>3 DEF PagesTypes
<1> QED
  BY <1>1, <1>2, <1>3, <1>4 DEF PagesTypes

\* Every page's state is of its type, whatever is read, refused or pressed and in whichever
\* order: what the page shows is always among what it can draw.
THEOREM TypesHold == Spec => []TypeOK
<1> DEFINE Together == PagesTypes /\ WorkspaceInvariant /\ RunInvariant /\ ReviewInvariant
<1>1. Init => Together
  BY PagesStayTyped, WorkspaceStaysTrue, RunsStayTrue, ReviewsStayTrue
<1>2. Together /\ [Next]_vars => Together'
  BY PagesStayTyped, WorkspaceStaysTrue, RunsStayTrue, ReviewsStayTrue
<1>3. Together => TypeOK
  BY WorkspaceIsTyped, RunIsTyped, ReviewIsTyped DEF PagesTypes, TypeOK
<1> QED
  BY <1>1, <1>2, <1>3, PTL DEF Spec
=============================================================================

----------------------------- MODULE RunPages -----------------------------
(***************************************************************************)
(* The pages a run is started from, watched on and found again.            *)
(* A constant of a page has the page's two letters before the name it has  *)
(* in the page's module.                                                   *)
(***************************************************************************)
EXTENDS PageState

CONSTANTS RpPaths, RpIndexed, RpRemotes, RpPublished, RpBranches, RpMaxActs,
          SrRoots, SrTree, SrParent, SrFiles, SrUsual, SrMaxActs, SrMaxPresses,
          RwRuns, RwMaxTotal, RwMaxActs,
          RnRuns, RnMaxActs,
          RhReviews, RhRuns, RhBranches, RhWords, RhStatuses, RhMaxActs

Rp == INSTANCE RepositoryPicker WITH Paths <- RpPaths, Indexed <- RpIndexed, Remotes <- RpRemotes,
    Published <- RpPublished, Branches <- RpBranches, MaxActs <- RpMaxActs, value <- v1, tab <- v2, draft <- v3,
    timer <- v4, url <- v5, probing <- v6, probed <- v7, known <- v8, branch <- v9, naming <- v10, clone <- v11,
    load <- v12, adrift <- v13, here <- v14, acts <- v15, wanted <- v16, typed <- v17
Sr == INSTANCE StartReview WITH Roots <- SrRoots, Tree <- SrTree, Parent <- SrParent, Files <- SrFiles,
    Usual <- SrUsual, MaxActs <- SrMaxActs, MaxPresses <- SrMaxPresses, at <- v1, form <- v2, remembered <- v3,
    mount <- v4, phase <- v5, failure <- v6, models <- v7, tree <- v8, presses <- v9, scope <- v10, acts <- v11
Rw == INSTANCE RunWatch WITH Runs <- RwRuns, MaxTotal <- RwMaxTotal, MaxActs <- RwMaxActs, run <- v1,
    page <- v2, read <- v3, poll <- v4, lost <- v5, confirming <- v6, stopping <- v7, armed <- v8, fired <- v9,
    told <- v10, promised <- v11, asked <- v12, ended <- v13, acts <- v14
Rn == INSTANCE RunNotices WITH Runs <- RnRuns, MaxActs <- RnMaxActs, running <- v1, listed <- v2, open <- v3,
    armed <- v4, asking <- v5, watching <- v6, told <- v7, promised <- v8, acts <- v9
Rh == INSTANCE ReviewHistory WITH Reviews <- RhReviews, Runs <- RhRuns, Branches <- RhBranches,
    Words <- RhWords, Statuses <- RhStatuses, MaxActs <- RhMaxActs, filed <- v1, running <- v2, reviews <- v3,
    runs <- v4, decided <- v5, query <- v6, status <- v7, expanded <- v8, confirming <- v9, deleting <- v10,
    pending <- v11, acts <- v12

ASSUME RunAssumption ==
    /\ Rp!PickerAssumption
    /\ Sr!StartAssumption
    /\ Rw!WatchAssumption
    /\ Rn!NoticesAssumption
    /\ Rh!HistoryAssumption

RunInit ==
    \/ page = "Rp" /\ Rp!Init /\ Free18
    \/ page = "Sr" /\ Sr!Init /\ Free12
    \/ page = "Rw" /\ Rw!Init /\ Free15
    \/ page = "Rn" /\ Rn!Init /\ Free10
    \/ page = "Rh" /\ Rh!Init /\ Free13

RunNext ==
    \/ At("Rp") /\ Rp!Next /\ Kept18
    \/ At("Sr") /\ Sr!Next /\ Kept12
    \/ At("Rw") /\ Rw!Next /\ Kept15
    \/ At("Rn") /\ Rn!Next /\ Kept10
    \/ At("Rh") /\ Rh!Next /\ Kept13

-----------------------------------------------------------------------------
\* Each page's state is of its type, and its parts fit together.
RunTypeOK ==
    /\ page = "Rp" => Rp!TypeOK
    /\ page = "Sr" => Sr!TypeOK
    /\ page = "Rw" => Rw!TypeOK
    /\ page = "Rn" => Rn!TypeOK
    /\ page = "Rh" => Rh!TypeOK

\* What a run is started with is what the reader chose last: the repository, its branch, and
\* the folders left out, which are that repository's (start-page.tsx, repository-picker.tsx).
ChoicesHoldTogether ==
    /\ page = "Rp" => Rp!TheLastWordIsTheChoice /\ Rp!ClonesAreOfThatRemote
    /\ page = "Sr" => Sr!ScopeIsOfTheRepository /\ Sr!OnePressAtATime

\* What is said of a run is so: its phases, the reader told of it when it ended and not before,
\* its place among the reviews (run-page.tsx, run-progress.tsx, reviews-page.tsx).
RunsAreReportedTruly ==
    /\ page = "Rw" => Rw!PhasesTellTheTruth /\ Rw!PromisesAreSpent /\ Rw!NobodyIsToldEarly
    /\ page = "Rn" => Rn!PromiseOutranksTheView
    /\ page = "Rh" => Rh!RunsAreDrawnOnce /\ Rh!OpenWorkIsSaidOnce

\* What the proofs of the two rest on, which is each page's own.
RunInvariant ==
    /\ page = "Rp" => Rp!IInv
    /\ page = "Sr" => Sr!IInv
    /\ page = "Rw" => Rw!IInv
    /\ page = "Rn" => Rn!IInv
    /\ page = "Rh" => Rh!RunsAreOfBranches
=============================================================================

---------------------------- MODULE ReviewPages ----------------------------
(***************************************************************************)
(* The pages of one review: the docket, the round of questions and the     *)
(* conversations about it, what is read off the records, and the map.      *)
(* A constant of a page has the page's two letters before the name it has  *)
(* in the page's module.                                                   *)
(***************************************************************************)
EXTENDS PageState

CONSTANTS DkCandidates, DkVerdict, DkMoved, DkFound, DkDispositions, DkEarlier, DkHasPrevious, DkWaiting,
          DkMaxActs, DkMaxCalls, DkFaults,
          RfQuestions, RfOptions, RfMaxEdits, RfMaxPosts,
          CvMaxThreads, CvMaxAsks,
          RrCandidates, RrEarlier,
          RdLineage, RdCandidates, RdVerdicts, RdDrawn,
          FpCandidates, FpMaxSearches,
          AeElements, AeTests, AePrivate, AeJudged, AeEdges, AeRequests, AeOp, AeOn, AeTo, AeFound,
          AeRound, AeRemembered, AeMaxActs,
          AcGraphs, AcCards, AcPointers, AcMaxActs

Dk == INSTANCE Docket WITH Candidates <- DkCandidates, Verdict <- DkVerdict, Moved <- DkMoved,
    Found <- DkFound, Dispositions <- DkDispositions, Earlier <- DkEarlier, HasPrevious <- DkHasPrevious,
    Waiting <- DkWaiting, MaxActs <- DkMaxActs, MaxCalls <- DkMaxCalls, Faults <- DkFaults, recorded <- v1,
    listed <- v2, loaded <- v3, ready <- v4, fresh <- v5, fetch <- v6, calls <- v7, acts <- v8, open <- v9, filter <- v10,
    kept <- v11, selected <- v12, find <- v13, bar <- v14, mine <- v15, surface <- v16, batches <- v17, unsure <- v18
Rf == INSTANCE RoundForm WITH Questions <- RfQuestions, Options <- RfOptions, MaxEdits <- RfMaxEdits,
    MaxPosts <- RfMaxPosts, values <- v1, skipped <- v2, own <- v3, drafts <- v4, asking <- v5, filed <- v6,
    opened <- v7, card <- v8, resume <- v9, posts <- v10, answerable <- v11, record <- v12, said <- v13, edits <- v14,
    sends <- v15
Cv == INSTANCE Conversations WITH MaxThreads <- CvMaxThreads, MaxAsks <- CvMaxAsks, panel <- v1,
    threads <- v2, made <- v3, listed <- v4, reading <- v5, chosen <- v6, ask <- v7, again <- v8, box <- v9,
    opening <- v10, confirming <- v11, discarding <- v12, asks <- v13, answered <- v14, followed <- v15
Rr == INSTANCE ReviewRecords WITH Candidates <- RrCandidates, Earlier <- RrEarlier, stage <- v1,
    round <- v2, answers <- v3, revision <- v4, opened <- v5, had <- v6, hinge <- v7, filed <- v8, status <- v9,
    gone <- v10
Rd == INSTANCE ReviewDelta WITH Lineage <- RdLineage, Candidates <- RdCandidates, Verdicts <- RdVerdicts,
    Drawn <- RdDrawn, verdicts <- v1, causes <- v2, at <- v3, earlier <- v4, filter <- v5, lineage <- v6
Fp == INSTANCE FindingPanel WITH Candidates <- FpCandidates, MaxSearches <- FpMaxSearches, bore <- v1,
    retrieval <- v2, investigation <- v3, open <- v4, drawer <- v5, tab <- v6, query <- v7, search <- v8, flights <- v9,
    sent <- v10
Ae == INSTANCE AtlasExplorer WITH Elements <- AeElements, Tests <- AeTests, Private <- AePrivate,
    Judged <- AeJudged, Edges <- AeEdges, Requests <- AeRequests, Op <- AeOp, On <- AeOn, To <- AeTo,
    Found <- AeFound, Round <- AeRound, Remembered <- AeRemembered, MaxActs <- AeMaxActs, answer <- v1,
    explored <- v2, selected <- v3, start <- v4, lens <- v5, hidden <- v6, tests <- v7, public <- v8, term <- v9,
    queried <- v10, matches <- v11, traced <- v12, forced <- v13, settled <- v14, acts <- v15
Ac == INSTANCE AtlasCamera WITH Graphs <- AcGraphs, Cards <- AcCards, Pointers <- AcPointers,
    MaxActs <- AcMaxActs, graph <- v1, placed <- v2, stalled <- v3, kernel <- v4, selected <- v5, frame <- v6,
    moved <- v7, clicked <- v8, close <- v9, full <- v10, native <- v11, framing <- v12, down <- v13, drag <- v14,
    pinch <- v15, press <- v16, suppress <- v17, acts <- v18, clicks <- v19

ASSUME ReviewAssumption ==
    /\ Dk!DocketAssumption
    /\ Rf!RoundFormAssumption
    /\ Cv!ConversationsAssumption
    /\ Rr!RecordsAssumption
    /\ Rd!DeltaAssumption
    /\ Fp!PanelAssumption
    /\ Ae!ExplorerAssumption
    /\ Ac!CameraAssumption

ReviewInit ==
    \/ page = "Dk" /\ Dk!Init /\ Free19
    \/ page = "Rf" /\ Rf!Init /\ Free16
    \/ page = "Cv" /\ Cv!Init /\ Free16
    \/ page = "Rr" /\ Rr!Init /\ Free11
    \/ page = "Rd" /\ Rd!Init /\ Free7
    \/ page = "Fp" /\ Fp!Init /\ Free11
    \/ page = "Ae" /\ Ae!Init /\ Free16
    \/ page = "Ac" /\ Ac!Init

ReviewNext ==
    \/ At("Dk") /\ Dk!Next /\ Kept19
    \/ At("Rf") /\ Rf!Next /\ Kept16
    \/ At("Cv") /\ Cv!Next /\ Kept16
    \/ At("Rr") /\ Rr!Next /\ Kept11
    \/ At("Rd") /\ Rd!Next /\ Kept7
    \/ At("Fp") /\ Fp!Next /\ Kept11
    \/ At("Ae") /\ Ae!Next /\ Kept16
    \/ At("Ac") /\ Ac!Next

-----------------------------------------------------------------------------
\* Each page's state is of its type, and its parts fit together.
ReviewTypeOK ==
    /\ page = "Dk" => Dk!TypeOK
    /\ page = "Rf" => Rf!TypeOK
    /\ page = "Cv" => Cv!TypeOK
    /\ page = "Rr" => Rr!TypeOK
    /\ page = "Rd" => Rd!TypeOK
    /\ page = "Fp" => Fp!TypeOK
    /\ page = "Ae" => Ae!TypeOK
    /\ page = "Ac" => Ac!TypeOK

\* The docket, while decisions overlap, fail and come late: every row nothing has made unsure is
\* listed as the server has it (decision-bar.tsx 130-183).
DocketTellsTheTruth == page = "Dk" => Dk!SureRowsTellTheTruth

\* A round of questions and the conversations about it: the server records what the rows said
\* when they were sent, the page may be left without a word only where it has, and the answer
\* to a question that was asked is on screen (clarification.tsx, conversation-thread.tsx).
AnswersAreWhatWasSaid ==
    /\ page = "Rf" => Rf!RecordIsWhatTheRowsSaid /\ Rf!UnguardedAnswersAreRecorded
    /\ page = "Cv" => Cv!TheAnswerIsOnScreen

\* What is read off the records of a branch is true of them: the footnotes, the panel of a
\* finding, the rows that differ from the review before (surfaces.tsx, finding-detail.tsx).
RecordsReadTrue ==
    /\ page = "Rr" => Rr!FootnotesTellTheTruth
    /\ page = "Rd" => Rd!RowsReadInFull /\ Rd!PlaceholderHoldsTheRoom
    /\ page = "Fp" => Fp!StructureIsOfTheCandidate /\ Fp!ClosedLinesAreTrue

\* The map draws what was asked for, offers what would draw, stands where its own graph puts
\* it, and hears the clicks that were clicks (explorer.tsx, placement.ts, viewport.ts).
TheMapShowsWhatWasAsked ==
    /\ page = "Ae" => Ae!NothingAskedForIsHidden /\ Ae!TheMovedLensIsOwnedTo /\ Ae!OffersDraw
    /\ page = "Ac" => Ac!SettledMapIsOfItsGraph /\ Ac!ClicksFollowTheirPress

\* What the proofs of them rest on, which is each page's own.
ReviewInvariant ==
    /\ page = "Dk" => Dk!IInv
    /\ page = "Rf" => Rf!IInv
    /\ page = "Cv" => Cv!IInv
    /\ page = "Rr" => Rr!IInv
    /\ page = "Rd" => Rd!IInv
    /\ page = "Fp" => Fp!IInv
    /\ page = "Ae" => Ae!IInv
    /\ page = "Ac" => Ac!IInv
=============================================================================

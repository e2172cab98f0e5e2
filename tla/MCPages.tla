------------------------------- MODULE MCPages -------------------------------
(***************************************************************************)
(* The pages, for TLC: what of their constants a configuration cannot say. *)
(***************************************************************************)
EXTENDS Pages, TLC

\* Two rows, the second of which was decided by an earlier review, against a verdict it no longer has.
Verdicts == <<"material", "held">>
DecidedEarlier == <<None, [disp |-> "accept", against |-> "material"]>>

\* A question with an answer to choose and one with none.
DetectedInOrder == <<1, 2>>

AnswersOffered == <<{"a"}, {}>>

\* The tab has two threads and a question is asked; the panel has one and two are.
ThreadsMade == (FALSE :> 2) @@ (TRUE :> 1)
AsksMade == (FALSE :> 1) @@ (TRUE :> 2)

\* A remote with a branch and one that publishes none.
Branching == ("r" :> {"main"}) @@ ("s" :> {})

\* A repository with folders inside folders, and one of a single folder.
Folders == ("p" :> {"src", "src/a", "tests"}) @@ ("q" :> {"lib"})
Parents == ("src" :> None) @@ ("src/a" :> "src") @@ ("tests" :> None) @@ ("lib" :> None)
FileCounts == ("src" :> 1) @@ ("src/a" :> 1) @@ ("tests" :> 2) @@ ("lib" :> 1)

\* A policy of the reader's, one of a repository's and one of a source's.
Strengths == ("a" :> "required") @@ ("s" :> "required") @@ ("t" :> "preferred")
ScopesOf == ("a" :> "general") @@ ("s" :> "general") @@ ("t" :> "organisation")
ReadOf == ("r" :> {"s"}) @@ ("f" :> {"t"})

\* A module that holds what is judged, which is in a cycle with a helper and called by a test; one
\* request of each kind, and what each is answered.
Edge(f, t, k) == [from |-> f, to |-> t, kind |-> k]
Cycle == {Edge("j", "h", "imports"), Edge("h", "j", "imports")}
EdgesDrawn == Cycle \cup {Edge("m", "j", "contains"), Edge("t", "j", "calls")}
Operation == ("near" :> "near") @@ ("find" :> "search") @@ ("path" :> "path") @@ ("cycles" :> "cycles")
RequestsMade == DOMAIN Operation
NothingRemembered == <<>>
AskedOn == ("near" :> "j") @@ ("find" :> "t") @@ ("path" :> "j") @@ ("cycles" :> "")
AskedTo == ("near" :> "") @@ ("find" :> "") @@ ("path" :> "h") @@ ("cycles" :> "")
Answered == ("near" :> {"t"}) @@ ("find" :> {"t", "h"}) @@ ("path" :> {"j", "h"})
                @@ ("cycles" :> {"j", "h"}) @@ (Context :> {"m"})
EdgesAnswered == ("near" :> {Edge("t", "j", "calls")}) @@ ("find" :> {})
                @@ ("path" :> {Edge("j", "h", "imports")}) @@ ("cycles" :> Cycle)
                @@ (Context :> {})

\* Two graphs that share a card, and an empty one.
CardsOf == ("g" :> {"m", "n"}) @@ ("k" :> {"n"}) @@ ("e" :> {})

\* Two builds that share a chunk and one that shares none; a route of the document itself and
\* two of a chunk each.
EmitsOf == ("u" :> {"a", "b"}) @@ ("v" :> {"a", "c"}) @@ ("w" :> {"d", "e"})
ChunkOf == ("u" :> ("/" :> None @@ "/p" :> "a" @@ "/r" :> "b")) @@ ("v" :> ("/" :> None @@ "/p" :> "a" @@ "/r" :> "c"))
              @@ ("w" :> ("/" :> None @@ "/p" :> "d" @@ "/r" :> "e"))

\* Two reviews on one screen, a page without a drawer and the one without a shell; a section,
\* a review and a repository that are entries, and what is typed to find them.
ScreensOf == ("/" :> "landing") @@ ("/start" :> "start") @@ ("/reviews/1" :> "review") @@ ("/reviews/2" :> "review")
Paths == DOMAIN ScreensOf
Sections == <<"start">>
ReviewsListed == <<"r2", "r1">>
RepositoriesListed == <<"p1">>
PlacesOf == ("start" :> "/start") @@ ("r1" :> "/reviews/1") @@ ("r2" :> "/reviews/2") @@ ("p1" :> "/start")
MatchesOf == ("r" :> {"r1", "r2", "start"}) @@ ("p" :> {"p1"})

\* A model of each of two providers.
Models == ("x" :> "m1") @@ ("y" :> "m2")
Providers == ("x" :> "p") @@ ("y" :> "q")
=============================================================================

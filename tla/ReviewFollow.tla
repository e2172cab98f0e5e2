---------------------------- MODULE ReviewFollow ----------------------------
(***************************************************************************)
(* A review page that stays open while its review moves on (review-page.tsx*)
(* and lib/runs.ts): the record on screen is immutable, so what the server *)
(* now says of it - whether it may be answered, which record replaced it - *)
(* is cached for ever and read again only when something invalidates it.   *)
(* The page polls the list of runs; a run that leaves the list became a    *)
(* record, and a rejudgement watched from its own record is followed.      *)
(*                                                                         *)
(* A record is <<review, n>>, the n-th filed of a review of one lineage.   *)
(***************************************************************************)
EXTENDS Integers, Sequences, FiniteSets, FiniteSetsExt

CONSTANTS Reviews,    \* reviews of one branch and case, numbered as they were started
          MaxRecords, \* bound on the records of each review
          MaxActs,    \* bound on what the reader does
          Nothing, Asked  \* model values

ASSUME FollowAssumption == IsFiniteSet(Reviews) /\ Reviews \subseteq Nat /\ MaxActs \in Nat /\ MaxRecords \in Nat \ {0}

Record == Reviews \X (1 .. MaxRecords)

VARIABLES last, stage,  \* server: records filed of each review, and what it does now
          asked,        \* server: the records that hold open questions
          known,        \* cached answers of the server about each record
          invalid,      \* the cached ones marked to be read again
          fetch,        \* reads of a record: Nothing, Asked, or what the server answered
          runs, poll,   \* the cached list of runs, and a read of it
          at, visited,  \* the record on screen, and those the back button reaches
          watched, ended, \* the rejudgement this page waits for, and whether it left the list
          post,         \* an answer or a cancellation on its way
          acts          \* what the reader did

server == <<last, stage, asked>>
vars == <<last, stage, asked, known, invalid, fetch, runs, poll, at, visited, watched, ended, post, acts>>

Running == {s \in Reviews : stage[s] = "running"}

FaultyView(r) == [answerable |-> r[2] = last[r[1]] /\ stage[r[1]] = "waiting",
                  next |-> IF r[2] < last[r[1]] \/ stage[r[1]] = "running" THEN <<r[1], last[r[1]] + 1>> ELSE Nothing,
                  questions |-> r \in asked]

\* What the server says of a record: is it the one its review waits on, and what replaced it.
View(r) == [answerable |-> r[2] = last[r[1]] /\ stage[r[1]] = "waiting",
            next |-> IF r[2] < last[r[1]] THEN <<r[1], last[r[1]]>> ELSE Nothing,
            questions |-> r \in asked]

Init ==
    /\ last = [s \in Reviews |-> 1]
    /\ stage = [s \in Reviews |-> "waiting"]
    /\ asked = {<<s, 1>> : s \in Reviews}
    /\ known = [r \in Record |-> Nothing]
    /\ invalid = {}
    /\ \E s \in Reviews : at = <<s, 1>>
    /\ fetch = [r \in Record |-> IF r = at THEN Asked ELSE Nothing]
    /\ runs = Nothing
    /\ poll = Asked
    /\ visited = {at}
    /\ watched = Nothing
    /\ ended = FALSE
    /\ post = Nothing
    /\ acts = 0

(***************************************************************************)
(* The server                                                              *)
(***************************************************************************)
\* A record is filed before its run leaves the list.
Files(s, next) ==
    /\ last[s] < MaxRecords
    /\ last' = [last EXCEPT ![s] = last[s] + 1]
    /\ stage' = [stage EXCEPT ![s] = next]
    /\ asked' = IF next = "waiting" THEN asked \cup {<<s, last[s] + 1>>} ELSE asked

client == <<known, invalid, fetch, runs, poll, at, visited, watched, ended>>

RunEnds(s) ==
    /\ stage[s] = "running"
    /\ \/ Files(s, "ended")
       \/ last[s] + 1 < MaxRecords /\ Files(s, "waiting")
    /\ UNCHANGED <<client, post, acts>>

\* Another tab answers the round, or stops the review.
AnotherTab(s) ==
    /\ stage[s] = "waiting"
    /\ \/ stage' = [stage EXCEPT ![s] = "running"] /\ last[s] < MaxRecords /\ UNCHANGED <<last, asked>>
       \/ Files(s, "ended")
    /\ UNCHANGED <<client, post, acts>>

(***************************************************************************)
(* One render of the page with a list of runs rs, a cache kn and the       *)
(* record a on screen, and the effects that follow it                      *)
(***************************************************************************)
Listed(rs) == IF rs = Nothing THEN {} ELSE rs

\* The newest run of this lineage, where it is judging this very review again.
Rejudging(rs, kn, a) ==
    kn[a] # Nothing /\ kn[a].questions /\ Listed(rs) # {} /\ a[1] = Max(Listed(rs))

FaultyBecameReviews(rs) == FALSE

\* A run that was listed and is not any more: every cached record is marked.
BecameReviews(rs) == Listed(runs) \ Listed(rs) # {}

Watches(rs, kn, a) == IF Rejudging(rs, kn, a) THEN a[1] ELSE watched

Ends(rs, kn, a) ==
    /\ ~Rejudging(rs, kn, a)
    /\ \/ ended
       \/ watched # Nothing /\ rs # Nothing /\ watched \notin Listed(rs)

\* The record to go to: only what replaced this one, once the run it waited for has left.
ToFollow(rs, kn, a) ==
    IF /\ Ends(rs, kn, a) /\ Watches(rs, kn, a) # Nothing
       /\ kn[a] # Nothing /\ kn[a].next \notin {Nothing, a}
    THEN kn[a].next ELSE a

Render(rs, kn, inv, fe, a) ==
    LET b == ToFollow(rs, kn, a)
        marked == IF BecameReviews(rs) THEN {r \in Record : kn[r] # Nothing} ELSE inv
        restarts == BecameReviews(rs) /\ kn[b] # Nothing
    IN /\ runs' = rs
       /\ known' = kn
       /\ invalid' = marked
       /\ watched' = Watches(rs, kn, a)
       /\ ended' = Ends(rs, kn, a)
       /\ at' = b
       /\ visited' = IF b = a THEN visited \cup {a} ELSE (visited \ {a}) \cup {b}
       /\ fetch' = IF \/ restarts
                      \/ fe[b] = Nothing /\ (kn[b] = Nothing \/ b \in marked)
                   THEN [fe EXCEPT ![b] = Asked] ELSE fe

(***************************************************************************)
(* Reads                                                                   *)
(***************************************************************************)
PollAsks ==
    /\ poll = Nothing
    /\ poll' = Asked
    /\ UNCHANGED <<server, known, invalid, fetch, runs, at, visited, watched, ended, post, acts>>

PollReads ==
    /\ poll = Asked
    /\ poll' = Running
    /\ UNCHANGED <<server, known, invalid, fetch, runs, at, visited, watched, ended, post, acts>>

PollArrives ==
    /\ poll \notin {Nothing, Asked}
    /\ poll' = Nothing
    /\ Render(poll, known, invalid, fetch, at)
    /\ UNCHANGED <<server, post, acts>>

FetchReads(r) ==
    /\ fetch[r] = Asked
    /\ fetch' = [fetch EXCEPT ![r] = View(r)]
    /\ UNCHANGED <<server, known, invalid, runs, poll, at, visited, watched, ended, post, acts>>

FetchArrives(r) ==
    /\ fetch[r] \notin {Nothing, Asked}
    /\ Render(runs, [known EXCEPT ![r] = fetch[r]], invalid \ {r},
              [fetch EXCEPT ![r] = Nothing], at)
    /\ UNCHANGED <<server, poll, post, acts>>

(***************************************************************************)
(* What the reader does                                                    *)
(***************************************************************************)
Acts == acts < MaxActs /\ acts' = acts + 1

\* The rail lists the newest record of each review; the back button, those passed through.
Walk(r) ==
    /\ r # at
    /\ r[2] = last[r[1]] \/ r \in visited
    /\ Acts
    /\ Render(runs, known, invalid, fetch, r)
    /\ UNCHANGED <<server, poll, post>>

\* Answers are offered where the cached record says it may be answered, a cancellation too.
Submit(kind) ==
    /\ known[at] # Nothing /\ known[at].answerable
    /\ post = Nothing
    /\ Acts
    /\ post' = [kind |-> kind, of |-> at, result |-> "sent"]
    /\ UNCHANGED <<server, client>>

\* The server takes neither for a record that its review is not waiting on.
Takes ==
    /\ post # Nothing /\ post.result = "sent"
    /\ LET s == post.of[1]
           open == View(post.of).answerable /\ last[s] < MaxRecords
       IN /\ IF ~open THEN UNCHANGED server
             ELSE IF post.kind = "cancel" THEN Files(s, "ended")
             ELSE stage' = [stage EXCEPT ![s] = "running"] /\ UNCHANGED <<last, asked>>
          /\ post' = [post EXCEPT !.result = IF open THEN "taken" ELSE "refused"]
    /\ UNCHANGED <<client, acts>>

\* An answered round reads its record and the list of runs again, and stays where it is.
Answered ==
    /\ post # Nothing /\ post.result = "taken" /\ post.kind = "answer"
    /\ post' = Nothing
    /\ poll' = Asked
    /\ invalid' = invalid \cup {post.of}
    /\ fetch' = IF at = post.of THEN [fetch EXCEPT ![at] = Asked] ELSE fetch
    /\ UNCHANGED <<server, known, runs, at, visited, watched, ended, acts>>

\* A cancelled review marks every cached record and goes to the one that says so.
Cancelled ==
    /\ post # Nothing /\ post.result = "taken" /\ post.kind = "cancel"
    /\ post' = Nothing
    /\ Render(runs, known, {r \in Record : known[r] # Nothing}, fetch, <<post.of[1], last[post.of[1]]>>)
    /\ UNCHANGED <<server, poll, acts>>

Refused ==
    /\ post # Nothing /\ post.result = "refused"
    /\ post' = Nothing
    /\ UNCHANGED <<server, client, acts>>

Next ==
    \/ \E s \in Reviews : RunEnds(s) \/ AnotherTab(s)
    \/ PollAsks \/ PollReads \/ PollArrives
    \/ \E r \in Record : FetchReads(r) \/ FetchArrives(r) \/ Walk(r)
    \/ \E kind \in {"answer", "cancel"} : Submit(kind)
    \/ Takes \/ Answered \/ Cancelled \/ Refused

\* The server finishes its runs, the page's timers fire and its reads are answered: none of
\* them waits for a person.
Fairness ==
    /\ \A s \in Reviews : WF_vars(RunEnds(s))
    /\ WF_vars(PollAsks) /\ WF_vars(PollReads) /\ WF_vars(PollArrives)
    /\ \A r \in Record : WF_vars(FetchReads(r)) /\ WF_vars(FetchArrives(r))

Spec == Init /\ [][Next]_vars /\ Fairness

(***************************************************************************)
(* Properties                                                              *)
(***************************************************************************)
FollowTypeOK ==
    /\ \A s \in Reviews : last[s] \in 1 .. MaxRecords
    /\ stage \in [Reviews -> {"waiting", "running", "ended"}]
    /\ at \in Record /\ visited \subseteq Record /\ asked \subseteq Record
    /\ \A r \in Record : known[r] # Nothing => known[r].next \in Record \cup {Nothing}
    /\ watched \in Reviews \cup {Nothing} /\ ended \in BOOLEAN

\* A reader on a record whose rejudgement the page shows is taken to what it produced, unless
\* they walk away themselves (runs.ts 69-122: "The revision they asked for was one click away
\* and nothing took them to it").
\* The list must be of the run that runs: a run that comes and goes between two polls is not seen.
Shows(r) ==
    /\ at = r /\ Rejudging(runs, known, r)
    /\ stage[r[1]] = "running"
    /\ poll \in {Nothing, Asked} \/ r[1] \in poll

WatchedWorkIsFollowed ==
    \A r \in Record : Shows(r) ~> (at # r)

\* A reader on an old record is never carried off it by work that was not watched from it
\* (runs.ts 81-84: "which means a reader who opened an old record from the rail is never
\* carried off it").
\* Not run: the code does otherwise (README, disagreements that are not run).
NeverCarriedOff ==
    [][\A r \in Record : at = r /\ at' # r /\ visited' = (visited \ {r}) \cup {at'} /\ r \in visited \ visited'
          => watched = r[1] \/ watched' = r[1]]_vars
=============================================================================

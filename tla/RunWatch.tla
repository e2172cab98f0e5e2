------------------------------ MODULE RunWatch ------------------------------
(***************************************************************************)
(* Watching a run (features/start/run-page.tsx, run-progress.tsx): what    *)
(* the page reads of it while it runs, the phases it draws from that, the  *)
(* stop that asks first, the notification a reader may ask for, and the    *)
(* move to the review once there is one.                                   *)
(***************************************************************************)
EXTENDS Integers, FiniteSets, Sequences, SequencesExt

CONSTANTS Runs, None, Asked, \* model values None and Asked
          MaxTotal, MaxActs  \* bounds on candidates and on what the reader does

\* What is assumed of the constants.
WatchAssumption ==
    /\ None \notin Runs /\ Asked # None /\ MaxTotal \in Nat /\ MaxActs \in Nat

Phases == <<"Repository", "Candidates", "Policies", "Judgement", "Clarification", "Review">>
Ended == {"completed", "awaiting_answers", "failed", "cancelled"}

VARIABLES run,     \* what the workspace says of each
          page,    \* the run whose page is open, or None
          read,    \* what the page last read of each: as run, or None
          poll,    \* a read under way: the run's state as it was answered, or None
          lost,    \* whether the last read failed
          confirming, stopping, \* the question before a stop, and the stop under way
          armed, fired, \* the notification asked for, and whether it was given
          told, promised, \* the runs a notification was given for, and is promised for
          asked,   \* the runs whose page was asked to stop them
          ended,   \* the runs that have ended at least once
          acts

server == <<run, ended>>
notice == <<armed, fired, told, promised>>
question == <<confirming, stopping, asked>>
vars == <<server, page, read, poll, lost, question, notice, acts>>

States == [status : {"running"} \cup Ended, phase : 1 .. Len(Phases), heard : BOOLEAN,
           total : 0 .. MaxTotal, retrieved : 0 .. MaxTotal, judged : 0 .. MaxTotal, review : BOOLEAN]

Begun == [status |-> "running", phase |-> 1, heard |-> TRUE,
          total |-> 0, retrieved |-> 0, judged |-> 0, review |-> FALSE]

Init ==
    /\ run = [r \in Runs |-> Begun]
    /\ page = None /\ read = [r \in Runs |-> None] /\ poll = None /\ lost = FALSE
    /\ confirming = FALSE /\ stopping = FALSE /\ asked = {}
    /\ armed = FALSE /\ fired = FALSE /\ told = {} /\ promised = {}
    /\ ended = {} /\ acts = 0

-----------------------------------------------------------------------------
(* The workspace.                                                          *)
Untouched == UNCHANGED <<page, read, poll, lost, question, notice, acts>>

\* The phases in order, the candidates counted as they are chosen, retrieved for and judged.
Moves(r) ==
    /\ run[r].status = "running"
    /\ \/ /\ run[r].phase # 4 /\ run[r].phase < Len(Phases)
          /\ \E n \in 0 .. MaxTotal :
                run' = [run EXCEPT ![r].phase = @ + 1,
                                   ![r].total = IF run[r].phase = 2 THEN n ELSE @]
       \/ /\ run[r].phase = 4
          /\ LET s == run[r]
             IN  run' = [run EXCEPT ![r] =
                    IF s.retrieved < s.total /\ s.retrieved = s.judged
                    THEN [s EXCEPT !.retrieved = s.retrieved + 1]
                    ELSE IF s.judged < s.total THEN [s EXCEPT !.judged = s.judged + 1]
                    ELSE [s EXCEPT !.phase = 5]]
    /\ UNCHANGED ended /\ Untouched

\* A failed run may leave a record of what it had, and a run never leaves one half done.
Ends(r) ==
    /\ run[r].status = "running"
    /\ \/ /\ run[r].phase = Len(Phases)
          /\ \E s \in {"completed", "awaiting_answers"} :
                run' = [run EXCEPT ![r].status = s, ![r].review = TRUE]
       \/ \E kept \in BOOLEAN : run' = [run EXCEPT ![r].status = "failed", ![r].review = kept]
    /\ ended' = ended \cup {r}
    /\ Untouched

\* A second round re-enters judgement with its counts begun again.
Resumes(r) ==
    /\ run[r].status = "awaiting_answers"
    /\ \E n \in 0 .. MaxTotal :
          run' = [run EXCEPT ![r] = [Begun EXCEPT !.phase = 4, !.total = n]]
    /\ UNCHANGED ended /\ Untouched

\* After a restart the workspace remembers how a run ended and none of its stages.
Restarts(r) ==
    /\ run[r].heard
    /\ run' = [run EXCEPT ![r].heard = FALSE, ![r].phase = 1, ![r].total = 0, ![r].retrieved = 0,
                          ![r].judged = 0, ![r].status = IF @ = "running" THEN "failed" ELSE @]
    /\ ended' = ended \cup {r}
    /\ Untouched

-----------------------------------------------------------------------------
(* What is drawn.                                                          *)
Settled(s) == s.status # "running"

\* The stages a run came through are those before its phase; where none were heard, the first.
CurrentPhase(s) == IF s.heard THEN s.phase ELSE 1

\* A phase is done once a run is behind it: one that broke in it is not.
Done(s, i) ==
    \/ s.status = "completed"
    \/ i < CurrentPhase(s)
    \/ i = CurrentPhase(s) /\ s.status = "awaiting_answers"

PhaseMark(s, i) ==
    CASE Done(s, i) -> "done"
      [] ~Done(s, i) /\ i # CurrentPhase(s) -> "not started"
      [] OTHER -> IF s.status = "failed" THEN "failed here"
                  ELSE IF s.status = "cancelled" THEN "stopped here" ELSE "in progress"

\* How far a round is through its candidates: retrieval is the wait before the first verdict.
JudgingLabel(s) ==
    CASE Done(s, 4) -> IF s.total > 0 THEN <<"Judged", s.total>> ELSE None
      [] ~Done(s, 4) /\ s.total = 0 -> <<"Judging", 0>>
      [] ~Done(s, 4) /\ s.total > 0 /\ (s.judged > 0 \/ s.retrieved = 0) ->
            <<"Judging", IF s.judged < s.total THEN s.judged + 1 ELSE s.total>>
      [] OTHER -> <<"Retrieving", s.retrieved>>

\* An estimate takes two verdicts and something left to judge.
EstimateLeft(s) == ~Settled(s) /\ s.judged >= 2 /\ s.total > s.judged

TabTitle(s) ==
    CASE s.status = "failed" -> "did not finish"
      [] s.status = "cancelled" -> "stopped"
      [] s.status \in {"completed", "awaiting_answers"} -> "ready"
      [] s.status = "running" /\ s.total > 0 -> "judging"
      [] OTHER -> "in progress"

-----------------------------------------------------------------------------
(* The page.                                                               *)
Seen(p, r) == p # None /\ r[p] # None
SeenDone(p, r) == Seen(p, r) /\ Settled(r[p])

\* What a render does with the page p, what is read r, and what the page holds: it forgets
\* what its parts held where there is nothing to draw, tells once of a run that is done, and
\* leaves for the review where there is one.
Renders(p, r, a, f, c) ==
    LET tells == SeenDone(p, r) /\ a /\ ~f
        over  == SeenDone(p, r) /\ r[p].review
        stays == Seen(p, r) /\ ~over
    IN  /\ read' = r
        /\ page' = IF over THEN None ELSE p
        /\ armed' = (a /\ stays)
        /\ fired' = ((f \/ tells) /\ stays)
        /\ confirming' = (c /\ stays)
        /\ told' = IF tells THEN told \cup {p} ELSE told
        /\ promised' = IF ~stays THEN {} ELSE IF a /\ ~SeenDone(p, r) THEN {p} ELSE promised \cap {p}

Acts == acts < MaxActs /\ acts' = acts + 1

\* Opening a run's page; from another run's page it is the same page with another address.
Open(r) ==
    /\ Acts /\ page # r
    /\ poll' = None /\ lost' = FALSE
    /\ IF page = None
       THEN Renders(r, read, FALSE, FALSE, FALSE)
       ELSE Renders(r, read, armed, fired, confirming)
    /\ stopping' = (stopping /\ page # None)
    /\ UNCHANGED <<server, asked>>

Leave ==
    /\ Acts /\ page # None /\ ~stopping
    /\ poll' = None /\ lost' = FALSE
    /\ Renders(None, read, FALSE, FALSE, FALSE)
    /\ UNCHANGED <<server, stopping, asked>>

\* The first read, one asked for again, and one every moment while the run is running.
MustPoll == page # None /\ poll = None /\ (Seen(page, read) => ~Settled(read[page]))

PollLeaves ==
    /\ MustPoll
    /\ poll' = run[page]
    /\ UNCHANGED <<server, page, read, lost, question, notice, acts>>

PollArrives ==
    /\ poll # None
    /\ poll' = None /\ lost' = FALSE
    /\ Renders(page, [read EXCEPT ![page] = poll], armed, fired, confirming)
    /\ UNCHANGED <<server, stopping, asked, acts>>

\* The page goes on showing the last it read.
PollFails ==
    /\ Acts /\ poll # None
    /\ poll' = None /\ lost' = TRUE
    /\ UNCHANGED <<server, page, read, question, notice>>

Live == Seen(page, read) /\ ~Settled(read[page])

AskToStop ==
    /\ Acts /\ Live /\ ~confirming
    /\ confirming' = TRUE /\ asked' = asked \cup {page}
    /\ UNCHANGED <<server, page, read, poll, lost, stopping, notice>>

KeepRunning ==
    /\ Acts /\ Live /\ confirming /\ ~stopping
    /\ confirming' = FALSE /\ asked' = asked \ {page}
    /\ UNCHANGED <<server, page, read, poll, lost, stopping, notice>>

ConfirmStop ==
    /\ Acts /\ Live /\ confirming /\ ~stopping
    /\ stopping' = TRUE
    /\ UNCHANGED <<server, page, read, poll, lost, confirming, asked, notice>>

\* The workspace ends a run that runs and refuses to stop one that does not.
StopAnswers ==
    /\ stopping /\ page # None
    /\ stopping' = FALSE
    /\ \/ /\ run[page].status = "running"
          /\ run' = [run EXCEPT ![page].status = "cancelled"]
          /\ ended' = ended \cup {page}
          /\ Renders(page, [read EXCEPT ![page] = run'[page]], armed, fired, confirming)
       \/ UNCHANGED <<server, page, read, confirming, notice>>
    /\ UNCHANGED <<poll, lost, asked, acts>>

Arm ==
    /\ Acts /\ ~armed /\ Live
    /\ Renders(page, read, TRUE, fired, confirming)
    /\ UNCHANGED <<server, poll, lost, stopping, asked>>

Next ==
    \/ \E r \in Runs : Moves(r) \/ Ends(r) \/ Resumes(r) \/ Restarts(r) \/ Open(r)
    \/ Leave \/ PollLeaves \/ PollArrives \/ PollFails
    \/ AskToStop \/ KeepRunning \/ ConfirmStop \/ StopAnswers \/ Arm

Spec == Init /\ [][Next]_vars

-----------------------------------------------------------------------------
TypeOK ==
    /\ run \in [Runs -> States] /\ page \in Runs \cup {None}
    /\ \A r \in Runs : read[r] = None \/ read[r] \in States
    /\ lost \in BOOLEAN /\ confirming \in BOOLEAN /\ stopping \in BOOLEAN /\ asked \subseteq Runs
    /\ armed \in BOOLEAN /\ fired \in BOOLEAN
    /\ told \subseteq Runs /\ promised \subseteq Runs

\* A run that is drawn as over has no phase in progress and names the one it broke in; a run
\* drawn as under way has exactly one in progress and none is ticked after it (RunProgress).
PhasesTellTheTruth ==
    Seen(page, read) =>
        LET s == read[page]
            In(m) == {i \in DOMAIN Phases : PhaseMark(s, i) = m}
        IN  /\ (In("in progress") # {}) = ~Settled(s)
            /\ s.status = "failed" => Cardinality(In("failed here")) = 1
            /\ \A i \in In("done"), j \in DOMAIN Phases : j < i => j \in In("done")

\* "You will be told when it is done": of a run the page promised it of and sees done, the
\* reader has been told, unless the one notification a page gives was of another (NotifyWhenDone).
PromisesAreSpent ==
    \A r \in promised : page = r /\ SeenDone(page, read) => r \in told \/ (fired /\ told \ {r} # {})

\* Not run: the code does otherwise (README, disagreements that are not run).
PromisesAreKept == \A r \in promised : page = r /\ SeenDone(page, read) => r \in told

\* Nobody is told of a run that has not ended.
NobodyIsToldEarly == told \subseteq ended

\* "Stopping asks first": no run is stopped from a page that did not ask about it.
\* Not run: the code does otherwise (README, disagreements that are not run).
StoppingAsksFirst == [][stopping' /\ ~stopping => page \in asked]_vars

\* What the proofs rest on: a page promises of its own run, and gives its notification once;
\* what was read or answered of a run that is over is of one that had ended.
PollsAreOfAPage == poll # None => page # None /\ poll \in States
PromisesAreOfThePage == \A r \in promised : page = r
NotificationsAreGiven == fired => told # {}
PromisesStand ==
    \A r \in promised : (armed /\ ~fired) \/ r \in told \/ (fired /\ told \ {r} # {})
WhatIsOverHasEnded ==
    /\ \A r \in Runs : Settled(run[r]) => r \in ended
    /\ \A r \in Runs : read[r] # None /\ Settled(read[r]) => r \in ended
    /\ poll # None /\ Settled(poll) => page \in ended
NothingIsOwed == armed /\ ~fired => ~SeenDone(page, read)
RunningHasNoReview == \A r \in Runs : run[r].status = "running" => ~run[r].review
IInv ==
    /\ RunningHasNoReview
    /\ TypeOK /\ read = [r \in Runs |-> read[r]] /\ PollsAreOfAPage /\ PromisesAreOfThePage
    /\ NotificationsAreGiven /\ NothingIsOwed /\ PromisesStand
    /\ WhatIsOverHasEnded /\ NobodyIsToldEarly
=============================================================================

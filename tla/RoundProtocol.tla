--------------------------- MODULE RoundProtocol ---------------------------
(***************************************************************************)
(* What one review promises whoever watches it, with the graph that does   *)
(* the work left out: it judges, it may stop and wait for a person at most *)
(* LastRound - 1 times, every answer opens the next round, and it ends, at *)
(* the latest where somebody stops it.                                     *)
(* ReviewGraph is shown to implement this.                                 *)
(***************************************************************************)
EXTENDS Naturals

CONSTANT LastRound      \* the round that seals whatever is still in question

VARIABLES
    phase,              \* what the review is doing
    round               \* which clarification round it is in

vars == <<phase, round>>

TypeOK ==
    /\ phase \in {"judging", "waiting", "answered", "ended"}
    /\ round \in 1..LastRound

Init ==
    /\ phase = "judging"
    /\ round = 1

\* The review files a snapshot with questions on it and stops.
Ask ==
    /\ phase = "judging"
    /\ round < LastRound
    /\ phase' = "waiting"
    /\ UNCHANGED round

\* Somebody answers the round.
Answer ==
    /\ phase = "waiting"
    /\ phase' = "answered"
    /\ UNCHANGED round

\* The answers are taken: the review goes on, one round later.
NextRound ==
    /\ phase = "answered"
    /\ phase' = "judging"
    /\ round' = round + 1

\* The review completes, fails, has nothing to review or is stopped at work.
End ==
    /\ phase \in {"judging", "answered"}
    /\ phase' = "ended"
    /\ UNCHANGED round

\* Somebody stops it instead of answering.
Stop ==
    /\ phase = "waiting"
    /\ phase' = "ended"
    /\ UNCHANGED round

Next == Ask \/ Answer \/ NextRound \/ End \/ Stop

(***************************************************************************)
(* The review never sits in "judging" or "answered" for ever. Nothing is   *)
(* promised of the person a waiting review waits for.                      *)
(***************************************************************************)
Spec == Init /\ [][Next]_vars /\ WF_vars(Ask \/ NextRound \/ End)

=============================================================================

------------------------------- MODULE Toasts -------------------------------
(***************************************************************************)
(* The notices in the corner of every page (ui/toast.tsx) and the failures *)
(* of requests that are reported there (main.tsx). A receipt goes after    *)
(* six seconds; a failure stays; and no more than three are shown.         *)
(***************************************************************************)
EXTENDS Lists

CONSTANT MaxNotices

\* What is assumed of the constants.
ToastsAssumption == MaxNotices \in Nat

VARIABLES toasts, \* what is shown, oldest first: [id, tone]
          timers, \* the notices that have a timer running, the ones pushed out included
          failures, \* the failures that were reported and the reader did not dismiss
          next

vars == <<toasts, timers, failures, next>>

Init == toasts = <<>> /\ timers = {} /\ failures = {} /\ next = 0

Tones == {"notice", "working"}

Shown == {toasts[i].id : i \in DOMAIN toasts}

\* The last two, which the one that arrives makes three.
Kept == SubSeq(toasts, IF Len(toasts) > 2 THEN Len(toasts) - 1 ELSE 1, Len(toasts))

Push(tone) ==
    /\ next < MaxNotices /\ next' = next + 1
    /\ toasts' = Append(Kept, [id |-> next', tone |-> tone])
    /\ timers' = IF tone = "notice" THEN timers \cup {next'} ELSE timers
    /\ failures' = IF tone = "working" THEN failures \cup {next'} ELSE failures

\* Something worked.
Say == Push("notice")

\* Something did not, by a page's own account.
Warn == Push("working")

\* A request failed; the page that sent it may answer for that in its own place.
MutationFails(handled) == IF handled THEN UNCHANGED vars ELSE Push("working")

Without(id) ==
    /\ toasts' = Within(toasts, [id : Nat \ {id}, tone : Tones])
    /\ timers' = timers \ {id}

Dismiss(id) ==
    /\ id \in Shown /\ Without(id)
    /\ failures' = failures \ {id}
    /\ UNCHANGED next

\* The timer of a notice that was pushed out finds nothing to take away.
TimesOut(id) ==
    /\ id \in timers /\ Without(id)
    /\ UNCHANGED <<failures, next>>

Next ==
    \/ Say \/ Warn
    \/ \E handled \in BOOLEAN : MutationFails(handled)
    \/ \E id \in 1 .. next : Dismiss(id) \/ TimesOut(id)

Spec == Init /\ [][Next]_vars

-----------------------------------------------------------------------------
Notices == [id : 1 .. next, tone : Tones]

TypeOK ==
    /\ toasts \in Seq(Notices) /\ Len(toasts) \in 0 .. 3
    /\ timers \cup failures \subseteq 1 .. next
    /\ next \in 0 .. MaxNotices

\* A receipt on screen is on its way out, and no timer takes a failure: one the reader did not
\* dismiss is still shown unless three notices came after it (toast.tsx 46-54, 80-97).
FailuresOutlastTheirMoment ==
    /\ \A i \in DOMAIN toasts : (toasts[i].tone = "notice") = (toasts[i].id \in timers)
    /\ \A id \in failures : id \in Shown \/ next >= id + 3

\* What the proof of it rests on: the notices are shown in the order they came, and a timer that
\* outlives its notice is not a failure's.
InTheirOrder == \A i, j \in 1 .. Len(toasts) : i < j => toasts[i].id < toasts[j].id
TimersAreOfReceipts == timers \cap failures = {}
IInv == TypeOK /\ InTheirOrder /\ TimersAreOfReceipts /\ FailuresOutlastTheirMoment

\* A failure stays put until it is dismissed. Not run: the code does otherwise.
FailuresStayUntilDismissed == failures \subseteq Shown
=============================================================================

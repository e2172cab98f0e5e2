--------------------------- MODULE Conversations ---------------------------
(***************************************************************************)
(* Questions asked about a review (features/review: conversation-thread.tsx,*)
(* question-help.tsx and the Ask tab of surfaces.tsx): the threads of one  *)
(* family, the page's copy of them, which one is on screen, the question   *)
(* on its way and the box it is typed in.  A clarification question's      *)
(* panel has a box, a thread and nothing else; the Ask tab can also open,  *)
(* choose and discard threads.                                             *)
(***************************************************************************)
EXTENDS Integers, Sequences, SequencesExt, Lists

CONSTANTS None, Asked, \* model values
          MaxThreads,  \* bound on the threads ever made, for the panel and for the tab
          MaxAsks      \* bound on the questions asked

\* What is assumed of the constants.
ConversationsAssumption ==
    /\ MaxThreads \in [BOOLEAN -> Nat] /\ MaxAsks \in [BOOLEAN -> Nat]
    /\ None \notin Seq([id : Nat, asked : Nat])

VARIABLES panel,      \* whether this is a question's panel or the Ask tab
          threads,    \* server: the threads, oldest first: [id, asked]
          made,       \* how many it ever made
          listed,     \* the page's copy of them, or None
          reading,    \* a read of them: None, Asked or what the server answered
          chosen,     \* the thread the reader or a post chose, or 0
          ask,        \* the last question sent, or None
          again,      \* whether its sentence can be sent again
          box,        \* whether words are in the box
          opening,    \* a new thread on its way: idle, sent, made or failed
          confirming, \* the thread the reader was asked about discarding, or 0
          discarding, \* that request: idle, sent, gone or failed
          asks,
          answered,   \* the thread of the last question's answer, or 0
          followed    \* whether the reader has chosen no thread since they sent it

vars == <<panel, threads, made, listed, reading, chosen, ask, again, box, opening, confirming, discarding,
          asks, answered, followed>>

Ids(s) == {s[i].id : i \in DOMAIN s}
Known == IF listed = None THEN <<>> ELSE listed

\* The thread chosen, else the newest.
Thread(s, id) ==
    IF id \in Ids(s) THEN id ELSE IF s = <<>> THEN 0 ELSE Last(s).id

Current == Thread(Known, chosen)

Length(s, id) == IF id \in Ids(s) THEN s[SelectInSeq(s, LAMBDA t : t.id = id)].asked ELSE 0

FaultyForgets(s, id) == id

\* A choice that the list does not hold is forgotten by the render that finds it so.
Forgets(s, id) == IF id \in Ids(s) THEN id ELSE 0

Pending == ask # None /\ ask.state \in {"creating", "asking", "answered", "unanswered"}

\* What the panel holds: exchanges, or a sentence that says what may be asked.
Exchanges == Length(Known, Current)
Opener == Exchanges = 0 /\ ~Pending

Init ==
    /\ panel \in BOOLEAN
    /\ \E n \in 0 .. MaxThreads[panel] : threads = [i \in 1 .. n |-> [id |-> i, asked |-> IF i = n THEN 0 ELSE 1]]
    /\ made = Len(threads)
    /\ listed = None
    /\ reading = Asked
    /\ chosen = 0
    /\ ask = None /\ again = FALSE
    /\ box = FALSE
    /\ opening = "idle"
    /\ confirming = 0 /\ discarding = "idle"
    /\ asks = 0
    /\ answered = 0 /\ followed = TRUE

(***************************************************************************)
(* The list                                                                *)
(***************************************************************************)
\* A read asked for again: a first one on its way is not restarted.
Rereads == IF reading # None /\ listed = None THEN reading ELSE Asked

ListRead ==
    /\ reading = Asked
    /\ reading' = threads
    /\ UNCHANGED <<threads, made, listed, chosen, ask, again, box, opening, confirming, discarding, asks, answered, followed>>

\* What waited for this read is over with it.
AfterRead ==
    /\ reading' = None
    /\ ask' = IF ask # None /\ ask.state = "landed" THEN None ELSE ask
    /\ opening' = IF opening = "made" THEN "idle" ELSE opening
    /\ discarding' = IF discarding = "gone" THEN "idle" ELSE discarding
    /\ UNCHANGED <<threads, made, again, box, confirming, asks, answered, followed>>

ListArrives ==
    /\ reading \notin {None, Asked}
    /\ listed' = reading
    /\ chosen' = Forgets(reading, chosen)
    /\ AfterRead

ListFails ==
    /\ reading = Asked
    /\ UNCHANGED <<listed, chosen>>
    /\ AfterRead

\* The button beside the error, or the window coming back to the front.
ReadAgain ==
    /\ reading = None
    /\ reading' = Asked
    /\ UNCHANGED <<threads, made, listed, chosen, ask, again, box, opening, confirming, discarding, asks, answered, followed>>

(***************************************************************************)
(* Asking                                                                  *)
(***************************************************************************)
TypeWords ==
    /\ ~box
    /\ box' = TRUE
    /\ UNCHANGED <<threads, made, listed, reading, chosen, ask, again, opening, confirming, discarding, asks, answered, followed>>

\* The first question of a family opens its thread; the choice of it is lost to the list.
Sends ==
    /\ ~Pending
    /\ asks < MaxAsks[panel]
    /\ asks' = asks + 1
    /\ again' = TRUE
    /\ answered' = 0 /\ followed' = TRUE
    /\ IF Current = 0 THEN ask' = [thread |-> 0, state |-> "creating"] /\ UNCHANGED chosen
                      ELSE ask' = [thread |-> Current, state |-> "asking"] /\ chosen' = Current
    /\ UNCHANGED <<threads, made, listed, reading, opening, confirming, discarding>>

\* The tab's box is emptied as it is sent, the panel's once the answer is there.
Send == box /\ Sends /\ box' = panel

AskAgain == ask # None /\ ask.state = "failed" /\ again /\ Sends /\ UNCHANGED box

Created ==
    /\ ask # None /\ ask.state = "creating"
    /\ made < MaxThreads[panel]
    /\ made' = made + 1
    /\ threads' = Append(threads, [id |-> made', asked |-> 0])
    /\ ask' = [thread |-> made', state |-> "asking"]
    /\ chosen' = Forgets(Known, made')
    /\ UNCHANGED <<listed, reading, again, box, opening, confirming, discarding, asks, answered, followed>>

\* The server's half: an answer is filed under the thread it was asked in, if that is still there.
ServerAnswers ==
    /\ ask # None /\ ask.state = "asking"
    /\ IF ask.thread \in Ids(threads)
       THEN /\ threads' = [i \in DOMAIN threads |->
                  IF threads[i].id = ask.thread THEN [threads[i] EXCEPT !.asked = @ + 1] ELSE threads[i]]
            /\ ask' = [ask EXCEPT !.state = "answered"]
       ELSE ask' = [ask EXCEPT !.state = "unanswered"] /\ UNCHANGED threads
    /\ UNCHANGED <<made, listed, reading, chosen, again, box, opening, confirming, discarding, asks, answered, followed>>

AskSucceeds ==
    /\ ask # None /\ ask.state = "answered"
    /\ ask' = [ask EXCEPT !.state = "landed"]
    /\ reading' = Rereads
    /\ box' = IF panel THEN FALSE ELSE box
    /\ answered' = ask.thread
    /\ UNCHANGED <<threads, made, listed, chosen, again, opening, confirming, discarding, asks, followed>>

\* The words stay in the panel's box; the sentence can be sent again either way.
AskFails ==
    /\ Pending /\ ask.state # "answered"
    /\ ask' = [ask EXCEPT !.state = "failed"]
    /\ UNCHANGED <<threads, made, listed, reading, chosen, again, box, opening, confirming, discarding, asks, answered, followed>>

(***************************************************************************)
(* The Ask tab's threads                                                   *)
(***************************************************************************)
Chooses(id) == chosen' = Forgets(Known, id) /\ followed' = FALSE

\* The strip of threads is there for more than one.
Pick(i) ==
    /\ ~panel /\ Len(Known) > 1
    /\ Chooses(Known[i].id)
    /\ UNCHANGED <<threads, made, listed, reading, ask, again, box, opening, confirming, discarding, asks, answered>>

\* The arrow keys walk it round.
StepTab(step) ==
    LET at == SelectInSeq(Known, LAMBDA t : t.id = Current)
    IN /\ ~panel /\ Len(Known) > 1
       /\ Chooses(Known[((at - 1 + step) % Len(Known)) + 1].id)
       /\ UNCHANGED <<threads, made, listed, reading, ask, again, box, opening, confirming, discarding, asks, answered>>

\* There is never a reason to have two empty threads: the button goes to the one there is.
Empty == SelectInSeq(Known, LAMBDA t : t.asked = 0)

OpenNew ==
    /\ ~panel
    /\ opening \notin {"sent", "made"}
    /\ IF Empty # 0 THEN Chooses(Known[Empty].id) /\ UNCHANGED opening
                    ELSE opening' = "sent" /\ UNCHANGED <<chosen, followed>>
    /\ UNCHANGED <<threads, made, listed, reading, ask, again, box, confirming, discarding, asks, answered>>

Opened ==
    /\ opening = "sent"
    /\ made < MaxThreads[panel]
    /\ made' = made + 1
    /\ threads' = Append(threads, [id |-> made', asked |-> 0])
    /\ opening' = "made"
    /\ Chooses(made')
    /\ box' = FALSE
    /\ reading' = Rereads
    /\ UNCHANGED <<listed, ask, again, confirming, discarding, asks, answered>>

OpenFails ==
    /\ opening = "sent"
    /\ opening' = "failed"
    /\ UNCHANGED <<threads, made, listed, reading, chosen, ask, again, box, confirming, discarding, asks, answered, followed>>

Confirm ==
    /\ ~panel /\ Current # 0 /\ confirming # Current
    /\ confirming' = Current
    /\ UNCHANGED <<threads, made, listed, reading, chosen, ask, again, box, opening, discarding, asks, answered, followed>>

Keep ==
    /\ confirming # 0 /\ confirming = Current
    /\ confirming' = 0
    /\ UNCHANGED <<threads, made, listed, reading, chosen, ask, again, box, opening, discarding, asks, answered, followed>>

Discard ==
    /\ confirming # 0 /\ confirming = Current
    /\ discarding \notin {"sent", "gone"}
    /\ discarding' = "sent"
    /\ threads' = Within(threads, {t \in ToSet(threads) : t.id # confirming})
    /\ UNCHANGED <<made, listed, reading, chosen, ask, again, box, opening, confirming, asks, answered, followed>>

Discarded ==
    /\ discarding = "sent"
    /\ discarding' = "gone"
    /\ confirming' = 0
    /\ chosen' = 0 /\ followed' = FALSE
    /\ reading' = Rereads
    /\ UNCHANGED <<threads, made, listed, ask, again, box, opening, asks, answered>>

DiscardFails ==
    /\ discarding = "sent"
    /\ discarding' = "failed"
    /\ UNCHANGED <<threads, made, listed, reading, chosen, ask, again, box, opening, confirming, asks, answered, followed>>

\* What the reader and the server do.
Steps ==
    \/ ListRead \/ ListArrives \/ ListFails \/ ReadAgain
    \/ TypeWords \/ Send \/ AskAgain \/ Created \/ ServerAnswers \/ AskSucceeds \/ AskFails
    \/ \E i \in DOMAIN Known : Pick(i)
    \/ \E step \in {-1, 1} : StepTab(step)
    \/ OpenNew \/ Opened \/ OpenFails \/ Confirm \/ Keep \/ Discard \/ Discarded \/ DiscardFails

\* A question's panel stays one, and the tab the tab.
Next == Steps /\ UNCHANGED panel

Spec == Init /\ [][Next]_vars

(***************************************************************************)
(* Properties                                                              *)
(***************************************************************************)
TypeOK ==
    /\ \A i, j \in DOMAIN threads : i < j => threads[i].id < threads[j].id
    /\ panel \in BOOLEAN /\ made <= MaxThreads[panel] /\ asks <= MaxAsks[panel]
    /\ chosen \in {0} \cup Ids(Known)
    /\ ask # None => ask.thread \in 0 .. made
    /\ opening \in {"idle", "sent", "made", "failed"}
    /\ discarding \in {"idle", "sent", "gone", "failed"}

\* Once the list is read again after an answer, the thread that holds the answer is the one on
\* screen, unless the reader has chosen another or discarded it since (conversation-thread.tsx
\* 317-356: the choice of a thread just made is lost, because the list does not hold it yet).
TheAnswerIsOnScreen ==
    followed /\ answered # 0 /\ ask = None /\ reading = None /\ listed = threads =>
        Current = answered \/ answered \notin Ids(threads)

\* What its proof rests on.  The thread the reader's last question is in, as far as it is known.
Asking == IF Pending THEN ask.thread ELSE answered

\* What a read brings holds every thread the list has that is still there.
ReadsAreNewer == reading \notin {None, Asked} => Ids(Known) \cap Ids(threads) \subseteq Ids(reading)

\* That thread is chosen, or none is and it is the newest.
TheThreadIsFollowed ==
    followed /\ Asking \in Ids(threads) =>
        chosen = Asking \/ (chosen = 0 /\ Asking = Last(threads).id)

IInv ==
    /\ made \in Nat /\ threads \in Seq([id : 1 .. made, asked : Nat])
    /\ listed # None => listed \in Seq([id : 1 .. made, asked : Nat])
    /\ reading \notin {None, Asked} => reading \in Seq([id : 1 .. made, asked : Nat])
    /\ ask # None => ask \in [thread : 0 .. made,
                              state : {"creating", "asking", "answered", "unanswered", "landed", "failed"}]
    /\ chosen \in {0} \cup Ids(Known)
    /\ Pending => answered = 0
    /\ ReadsAreNewer /\ TheThreadIsFollowed
=============================================================================

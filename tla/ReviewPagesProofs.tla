-------------------------- MODULE ReviewPagesProofs --------------------------
(***************************************************************************)
(* The pages of ReviewPages whose promises rest on an invariant of their   *)
(* own keep it: the docket, the map and its camera, the conversations      *)
(* about a review, the form of a round of questions, what is read off its  *)
(* records.                                                                *)
(***************************************************************************)
EXTENDS ReviewPages, ListsProofs, FiniteSetTheorems

(***************************************************************************)
(* The conversations about a review                                        *)
(***************************************************************************)
\* Threads that were numbered are numbered when more are.
LEMMA MoreThreads ==
    ASSUME NEW N, NEW M, N \subseteq M, NEW s \in Seq([id : N, asked : Nat])
    PROVE  s \in Seq([id : M, asked : Nat])
<1> DEFINE A == [id : N, asked : Nat]
           B == [id : M, asked : Nat]
<1>1. A \subseteq B /\ s \in Seq(A)
  OBVIOUS
<1> HIDE DEF A, B
<1>2. s \in Seq(B)
  BY <1>1, ListOfMore
<1> QED
  BY <1>2 DEF B

\* A list as long as another is one of whatever its elements are.
LEMMA ListAsLong ==
    ASSUME NEW A, NEW s \in Seq(A), NEW w, w = [i \in DOMAIN s |-> w[i]], \A i \in DOMAIN s : w[i] \in A
    PROVE  w \in Seq(A) /\ Len(w) = Len(s) /\ DOMAIN w = DOMAIN s
OBVIOUS

\* A number of a thread is one that was given.
LEMMA IdsGiven ==
    ASSUME NEW m \in Nat, NEW s \in Seq([id : 1 .. m, asked : Nat])
    PROVE  Cv!Ids(s) \subseteq 1 .. m /\ 0 \notin Cv!Ids(s) /\ m + 1 \notin Cv!Ids(s)
<1>1. \A i \in DOMAIN s : s[i].id \in 1 .. m
  <2>1. \A i \in DOMAIN s : s[i] \in [id : 1 .. m, asked : Nat]
    BY ElementsOf
  <2> QED
    BY <2>1
<1>2. Cv!Ids(s) \subseteq 1 .. m
  BY <1>1 DEF Cv!Ids
<1> QED
  BY <1>2

\* At first nothing has been asked, and no thread is numbered 0.
LEMMA ConversationsInitially ==
    ASSUME Cv!ConversationsAssumption, Cv!Init
    PROVE  Cv!IInv
<1>1. PICK n \in 0 .. CvMaxThreads[v1] : v2 = [i \in 1 .. n |-> [id |-> i, asked |-> IF i = n THEN 0 ELSE 1]]
  BY DEF Cv!Init
<1>2. n \in Nat
  BY DEF Cv!Init, Cv!ConversationsAssumption
<1>3. v3 = n /\ v2 \in Seq([id : 1 .. v3, asked : Nat])
  <2>1. v2 \in Seq([id : 1 .. n, asked : Nat]) /\ Len(v2) = n
    BY <1>1, <1>2
  <2> QED
    BY <2>1 DEF Cv!Init
<1>4. v4 = None /\ v5 = Asked /\ v6 = 0 /\ v7 = None /\ v14 = 0
  BY DEF Cv!Init
<1>5. 0 \notin Cv!Ids(v2)
  BY <1>2, <1>3, IdsGiven
<1> QED
  BY <1>2, <1>3, <1>4, <1>5 DEF Cv!IInv, Cv!Pending, Cv!ReadsAreNewer, Cv!TheThreadIsFollowed, Cv!Asking

\* The page's list of threads is one, and what is on screen is in it or nothing is.
LEMMA KnownThreads ==
    ASSUME Cv!IInv
    PROVE  /\ Cv!Known \in Seq([id : 1 .. v3, asked : Nat]) /\ Cv!Ids(Cv!Known) \subseteq 1 .. v3
           /\ Cv!Current \in {0} \cup Cv!Ids(Cv!Known)
<1>1. Cv!Known \in Seq([id : 1 .. v3, asked : Nat])
  BY DEF Cv!IInv, Cv!Known
<1>2. Cv!Known # <<>> => Len(Cv!Known) \in DOMAIN Cv!Known
  BY <1>1
<1>3. Cv!Known # <<>> => Cv!Last(Cv!Known).id \in Cv!Ids(Cv!Known)
  BY <1>2 DEF Cv!Ids, Cv!Last
<1> QED
  BY <1>1, <1>3, IdsGiven DEF Cv!IInv, Cv!Current, Cv!Thread

\* What a step that leaves the list of threads and the choice alone has to show.
LEMMA ThreadsStay ==
    ASSUME Cv!IInv, UNCHANGED <<v2, v3, v4>>, v5' = v5 \/ v5' = Asked \/ v5' = v2, v6' \in {0} \cup Cv!Ids(Cv!Known),
           v7' # None => v7' \in [thread : 0 .. v3, state : {"creating", "asking", "answered", "unanswered", "landed", "failed"}],
           Cv!Pending' => v14' = 0,
           v15' /\ Cv!Asking' \in Cv!Ids(v2) => v6' = Cv!Asking' \/ (v6' = 0 /\ Cv!Asking' = Cv!Last(v2).id)
    PROVE  Cv!IInv'
<1>1. Cv!Known' = Cv!Known
  BY DEF Cv!Known
<1>2. Cv!ReadsAreNewer'
  BY <1>1 DEF Cv!IInv, Cv!ReadsAreNewer
<1>3. Cv!TheThreadIsFollowed'
  BY DEF Cv!TheThreadIsFollowed
<1> QED
  BY <1>1, <1>2, <1>3 DEF Cv!IInv

\* A question that is on its way is on its way, whatever else moves.
LEMMA AskStays ==
    ASSUME UNCHANGED <<v7, v14>>
    PROVE  Cv!Pending' = Cv!Pending /\ Cv!Asking' = Cv!Asking
  BY DEF Cv!Pending, Cv!Asking

\* A step that moves nothing but the read, the choice of the reader and what is typed.
LEMMA ReaderMoves ==
    ASSUME Cv!IInv, UNCHANGED <<v2, v3, v4, v7, v14>>, v5' = v5 \/ v5' = Asked \/ v5' = v2,
           UNCHANGED <<v6, v15>> \/ (v6' \in {0} \cup Cv!Ids(Cv!Known) /\ ~v15')
    PROVE  Cv!IInv'
  BY AskStays, ThreadsStay DEF Cv!IInv, Cv!TheThreadIsFollowed

\* A read that ends leaves the page's list as it was, or as the server had it.
LEMMA AfterReadKeeps ==
    ASSUME Cv!IInv, Cv!AfterRead,
           \/ UNCHANGED <<v4, v6>>
           \/ v5 \notin {None, Asked} /\ v4' = v5 /\ v6' = Cv!Forgets(v5, v6)
    PROVE  Cv!IInv'
<1>1. UNCHANGED <<v2, v3, v14, v15>> /\ v5' = None /\ (v7' = v7 \/ (v7' = None /\ v7 # None /\ v7.state = "landed"))
  BY DEF Cv!AfterRead
<1>2. Cv!Pending' = Cv!Pending /\ Cv!Asking' = Cv!Asking
  BY <1>1 DEF Cv!Pending, Cv!Asking
<1>3. v7' # None => v7' = v7
  BY <1>1
<1>4. CASE UNCHANGED <<v4, v6>>
  BY <1>1, <1>2, <1>3, <1>4 DEF Cv!IInv, Cv!Known, Cv!ReadsAreNewer, Cv!TheThreadIsFollowed
<1>5. CASE v5 \notin {None, Asked} /\ v4' = v5 /\ v6' = Cv!Forgets(v5, v6)
  <2>1. Cv!Known' = v5
    BY <1>5 DEF Cv!Known
  <2>2. v6' \in {0} \cup Cv!Ids(v5) /\ (v6 \in Cv!Ids(v5) => v6' = v6) /\ (v6 = 0 => v6' = 0)
    BY <1>5 DEF Cv!Forgets
  <2>3. v6 # 0 /\ v6 \in Cv!Ids(v2) => v6 \in Cv!Ids(v5)
    BY <1>5 DEF Cv!IInv, Cv!ReadsAreNewer
  <2>4. 0 \notin Cv!Ids(v2)
    BY IdsGiven DEF Cv!IInv
  <2>5. Cv!TheThreadIsFollowed'
    BY <1>1, <1>2, <2>2, <2>3, <2>4 DEF Cv!IInv, Cv!TheThreadIsFollowed
  <2> QED
    BY <1>1, <1>2, <1>3, <1>5, <2>1, <2>2, <2>5 DEF Cv!IInv, Cv!ReadsAreNewer
<1> QED
  BY <1>4, <1>5

\* A question that is sent is in the thread on screen, or in one that is still to be made.
LEMMA SendsKeeps ==
    ASSUME Cv!IInv, Cv!Sends
    PROVE  Cv!IInv'
<1>1. UNCHANGED <<v2, v3, v4, v5>> /\ v14' = 0 /\ v3 \in Nat /\ v6 \in {0} \cup Cv!Ids(Cv!Known)
  BY DEF Cv!Sends, Cv!IInv
<1>2. 0 \notin Cv!Ids(v2)
  BY IdsGiven DEF Cv!IInv
<1>3. CASE Cv!Current = 0 /\ v7' = [thread |-> 0, state |-> "creating"] /\ v6' = v6
  <2>1. Cv!Asking' = 0
    BY <1>1, <1>3 DEF Cv!Asking
  <2> QED
    BY <1>1, <1>2, <1>3, <2>1, ThreadsStay
<1>4. CASE v7' = [thread |-> Cv!Current, state |-> "asking"] /\ v6' = Cv!Current
  <2>1. Cv!Current \in {0} \cup Cv!Ids(Cv!Known) /\ Cv!Current \in 0 .. v3
    BY <1>1, KnownThreads
  <2>2. Cv!Asking' \in {0, Cv!Current}
    BY <1>1, <1>4 DEF Cv!Asking
  <2> QED
    BY <1>1, <1>2, <1>4, <2>1, <2>2, ThreadsStay
<1> QED
  BY <1>3, <1>4 DEF Cv!Sends

\* A thread that is made is the newest, and in no list the page has.
LEMMA ThreadMade ==
    ASSUME Cv!IInv, v3' = v3 + 1, v2' = Append(v2, [id |-> v3', asked |-> 0])
    PROVE  /\ v3' \in Nat /\ 1 .. v3 \subseteq 1 .. v3' /\ v2' \in Seq([id : 1 .. v3', asked : Nat])
           /\ Cv!Ids(v2') = Cv!Ids(v2) \cup {v3'} /\ Cv!Last(v2').id = v3'
           /\ v3' \notin Cv!Ids(Cv!Known) /\ Cv!Forgets(Cv!Known, v3') = 0
<1>1. v3 \in Nat /\ v2 \in Seq([id : 1 .. v3, asked : Nat])
  BY DEF Cv!IInv
<1>2. v3' \in Nat /\ 1 .. v3 \subseteq 1 .. v3' /\ v3' \in 1 .. v3'
  BY <1>1
<1>4. v2 \in Seq([id : 1 .. v3', asked : Nat]) /\ [id |-> v3', asked |-> 0] \in [id : 1 .. v3', asked : Nat]
  <2>1. v2 \in Seq([id : 1 .. v3', asked : Nat])
    BY <1>1, <1>2, MoreThreads, Zenon
  <2> QED
    BY <1>2, <2>1
<1>5. /\ v2' \in Seq([id : 1 .. v3', asked : Nat]) /\ Len(v2') = Len(v2) + 1
      /\ v2'[Len(v2) + 1] = [id |-> v3', asked |-> 0] /\ \A i \in 1 .. Len(v2) : v2'[i] = v2[i]
  BY <1>4, Appended
<1>6. Cv!Last(v2').id = v3'
  BY <1>5 DEF Cv!Last
<1>7. /\ DOMAIN v2 = 1 .. Len(v2) /\ DOMAIN v2' = 1 .. (Len(v2) + 1) /\ Len(v2) \in Nat
  BY <1>1, <1>5
<1>8. DOMAIN v2' = DOMAIN v2 \cup {Len(v2) + 1} /\ \A i \in DOMAIN v2 : v2'[i].id = v2[i].id
  BY <1>5, <1>7
<1>9. Cv!Ids(v2') = Cv!Ids(v2) \cup {v3'}
  BY <1>5, <1>8 DEF Cv!Ids
<1>10. v3' \notin Cv!Ids(Cv!Known)
  BY <1>1, KnownThreads
<1> QED
  BY <1>2, <1>5, <1>6, <1>9, <1>10 DEF Cv!Forgets

\* Making one keeps what the page knows, whatever it is made for.
LEMMA MadeKeeps ==
    ASSUME Cv!IInv, v3' = v3 + 1, v2' = Append(v2, [id |-> v3', asked |-> 0]), v4' = v4,
           v5' = v5 \/ v5' = Asked, v6' = 0,
           v7' # None => v7' \in [thread : 0 .. v3', state : {"creating", "asking", "answered", "unanswered", "landed", "failed"}],
           Cv!Pending' => v14' = 0,
           v15' => Cv!Asking' \in {0, v3'}
    PROVE  Cv!IInv'
<1>1. Cv!Known' = Cv!Known /\ v3 \in Nat
  BY DEF Cv!Known, Cv!IInv
<1>2. Cv!ReadsAreNewer'
  BY <1>1, ThreadMade DEF Cv!IInv, Cv!ReadsAreNewer
<1>3. 0 \notin Cv!Ids(v2')
  BY ThreadMade, IdsGiven
<1>4. Cv!TheThreadIsFollowed'
  BY <1>3, ThreadMade DEF Cv!TheThreadIsFollowed
<1>5. \A s \in Seq([id : 1 .. v3, asked : Nat]) : s \in Seq([id : 1 .. v3', asked : Nat])
  <2>1. 1 .. v3 \subseteq 1 .. v3'
    BY ThreadMade
  <2> QED
    BY <2>1, MoreThreads, Zenon
<1> QED
  BY <1>1, <1>2, <1>4, <1>5, ThreadMade DEF Cv!IInv

\* What the server files under a thread leaves the threads there are and their order.
LEMMA AnswerFiledKeeps ==
    ASSUME Cv!IInv, Cv!ServerAnswers
    PROVE  Cv!IInv'
<1>1. UNCHANGED <<v3, v4, v5, v6, v14, v15>> /\ v7 # None /\ v7.state = "asking"
  BY DEF Cv!ServerAnswers
<1>2. v7' = [v7 EXCEPT !.state = "answered"] \/ v7' = [v7 EXCEPT !.state = "unanswered"]
  BY DEF Cv!ServerAnswers
<1>3. v7 \in [thread : 0 .. v3, state : {"creating", "asking", "answered", "unanswered", "landed", "failed"}] /\ Cv!Pending /\ v14 = 0
  BY <1>1 DEF Cv!IInv, Cv!Pending
<1>4. /\ v7' \in [thread : 0 .. v3, state : {"creating", "asking", "answered", "unanswered", "landed", "failed"}]
      /\ v7'.thread = v7.thread
  BY <1>2, <1>3
<1>5. Cv!Asking = v7.thread /\ Cv!Asking' \in {0, v7.thread}
  BY <1>1, <1>3, <1>4 DEF Cv!Asking
<1>6. v2 \in Seq([id : 1 .. v3, asked : Nat])
  BY DEF Cv!IInv
<1>7. /\ v2' \in Seq([id : 1 .. v3, asked : Nat]) /\ DOMAIN v2' = DOMAIN v2 /\ Len(v2') = Len(v2)
      /\ \A i \in DOMAIN v2 : v2'[i].id = v2[i].id
  <2>1. CASE v2' = v2
    BY <1>6, <2>1
  <2>2. CASE v2' = [i \in DOMAIN v2 |-> IF v2[i].id = v7.thread THEN [v2[i] EXCEPT !.asked = @ + 1] ELSE v2[i]]
    <3> DEFINE T == [id : 1 .. v3, asked : Nat]
    <3>1. \A i \in DOMAIN v2 : v2[i] \in T
      <4> HIDE DEF T
      <4> QED
        BY <1>6, ElementsOf DEF T
    <3>2. \A i \in DOMAIN v2 : v2'[i] \in T /\ v2'[i].id = v2[i].id
      BY <2>2, <3>1
    <3>3. v2' = [i \in DOMAIN v2 |-> v2'[i]]
      BY <2>2
    <3>4. v2 \in Seq(T)
      BY <1>6
    <3> HIDE DEF T
    <3>5. v2' \in Seq(T) /\ Len(v2') = Len(v2) /\ DOMAIN v2' = DOMAIN v2
      BY <3>2, <3>3, <3>4, ListAsLong
    <3> QED
      BY <3>2, <3>5 DEF T
  <2> QED
    BY <2>1, <2>2 DEF Cv!ServerAnswers
<1>8. Cv!Ids(v2') = Cv!Ids(v2)
  BY <1>7 DEF Cv!Ids
<1>9. v2 # <<>> => Cv!Last(v2').id = Cv!Last(v2).id
  <2>1. v2 # <<>> => Len(v2) \in DOMAIN v2
    BY <1>6
  <2> QED
    BY <1>7, <2>1 DEF Cv!Last
<1>10. Cv!Ids(v2) # {} => v2 # <<>>
  BY DEF Cv!Ids
<1>11. 0 \notin Cv!Ids(v2)
  BY IdsGiven DEF Cv!IInv
<1>12. Cv!TheThreadIsFollowed'
  BY <1>1, <1>5, <1>8, <1>9, <1>10, <1>11 DEF Cv!IInv, Cv!TheThreadIsFollowed
<1>13. Cv!Known' = Cv!Known
  BY <1>1 DEF Cv!Known
<1> QED
  BY <1>1, <1>3, <1>4, <1>7, <1>8, <1>12, <1>13 DEF Cv!IInv, Cv!ReadsAreNewer

\* A thread that is discarded was the one asked in, or leaves the newest of them the newest.
LEMMA DiscardKeeps ==
    ASSUME Cv!IInv, Cv!Discard
    PROVE  Cv!IInv'
<1> DEFINE T == [id : 1 .. v3, asked : Nat]
           S == {t \in Cv!ToSet(v2) : t.id # v11}
<1>1. UNCHANGED <<v3, v4, v5, v6, v7, v14, v15>> /\ v2' = Within(v2, S) /\ v2 \in Seq(T)
  BY DEF Cv!Discard, Cv!IInv, Cv!Within, Within
<1> HIDE DEF T, S
<1>2. PICK h \in [1 .. Len(v2') -> 1 .. Len(v2)] : \A k \in 1 .. Len(v2') : v2'[k] = v2[h[k]] /\ v2[h[k]] \in S
  <2>1. \E h \in [1 .. Len(Within(v2, S)) -> 1 .. Len(v2)] :
           \A k \in 1 .. Len(Within(v2, S)) : Within(v2, S)[k] = v2[h[k]] /\ v2[h[k]] \in S
    BY <1>1, WithinTheList
  <2> QED
    BY <1>1, <2>1
<1>3. v2' \in Seq(T) /\ DOMAIN v2' = 1 .. Len(v2') /\ DOMAIN v2 = 1 .. Len(v2) /\ Len(v2) \in Nat
  BY <1>1, WithinTheList
<1>4. Cv!Ids(v2') \subseteq Cv!Ids(v2) /\ v11 \notin Cv!Ids(v2')
  BY <1>2, <1>3 DEF Cv!Ids, S
<1>5. ASSUME Cv!Ids(v2) # {}, Cv!Last(v2).id # v11
      PROVE  Cv!Last(v2') = Cv!Last(v2)
  <2>1. Len(v2) > 0 /\ Len(v2) \in DOMAIN v2
    BY <1>3, <1>5 DEF Cv!Ids
  <2>2. v2[Len(v2)] \in S
    BY <1>5, <2>1 DEF Cv!ToSet, Cv!Last, S
  <2> QED
    BY <1>1, <2>1, <2>2, LastKept DEF Cv!Last
<1>6. Cv!Known' = Cv!Known /\ Cv!Pending' = Cv!Pending /\ Cv!Asking' = Cv!Asking
  BY <1>1, AskStays DEF Cv!Known
<1>7. Cv!TheThreadIsFollowed'
  BY <1>1, <1>4, <1>5, <1>6 DEF Cv!IInv, Cv!TheThreadIsFollowed
<1> QED
  BY <1>1, <1>3, <1>4, <1>6, <1>7 DEF Cv!IInv, Cv!ReadsAreNewer, T

\* Every step keeps the thread that was asked in chosen, or the newest, until the reader chooses.
LEMMA ConversationsPreserved ==
    ASSUME Cv!IInv, Cv!Next \/ UNCHANGED Cv!vars
    PROVE  Cv!IInv'
<1>1. CASE Cv!ListRead \/ Cv!ReadAgain
  BY <1>1, ReaderMoves DEF Cv!ListRead, Cv!ReadAgain
<1>2. CASE Cv!ListArrives \/ Cv!ListFails
  BY <1>2, AfterReadKeeps DEF Cv!ListArrives, Cv!ListFails
<1>3. CASE Cv!Send \/ Cv!AskAgain
  BY <1>3, SendsKeeps DEF Cv!Send, Cv!AskAgain
<1>4. CASE Cv!Created
  <2>1. v3' = v3 + 1 /\ v2' = Append(v2, [id |-> v3', asked |-> 0]) /\ UNCHANGED <<v4, v5, v14, v15>>
        /\ v7' = [thread |-> v3', state |-> "asking"] /\ v6' = Cv!Forgets(Cv!Known, v3') /\ v14 = 0
    BY <1>4 DEF Cv!Created, Cv!IInv, Cv!Pending
  <2>2. v3' \in 0 .. v3'
    BY <2>1, ThreadMade
  <2>3. Cv!Asking' \in {0, v3'}
    BY <2>1 DEF Cv!Asking
  <2> QED
    BY <2>1, <2>2, <2>3, ThreadMade, MadeKeeps
<1>5. CASE Cv!ServerAnswers
  BY <1>5, AnswerFiledKeeps
<1>6. CASE Cv!AskSucceeds
  <2>1. /\ UNCHANGED <<v2, v3, v4, v6, v15>> /\ (v5' = v5 \/ v5' = Asked) /\ v7 # None /\ v7.state = "answered"
        /\ v7' = [v7 EXCEPT !.state = "landed"] /\ v14' = v7.thread
    BY <1>6 DEF Cv!AskSucceeds, Cv!Rereads
  <2>2. /\ v7' \in [thread : 0 .. v3, state : {"creating", "asking", "answered", "unanswered", "landed", "failed"}]
        /\ v7'.state = "landed"
    BY <2>1 DEF Cv!IInv
  <2>3. ~Cv!Pending' /\ Cv!Asking' = v7.thread /\ Cv!Asking = v7.thread
    BY <2>1, <2>2 DEF Cv!Pending, Cv!Asking
  <2> QED
    BY <2>1, <2>2, <2>3, ThreadsStay DEF Cv!IInv, Cv!TheThreadIsFollowed
<1>7. CASE Cv!AskFails
  <2>1. UNCHANGED <<v2, v3, v4, v5, v6, v14, v15>> /\ v7 # None /\ v7' = [v7 EXCEPT !.state = "failed"] /\ v14 = 0
    BY <1>7 DEF Cv!AskFails, Cv!Pending, Cv!IInv
  <2>2. /\ v7' \in [thread : 0 .. v3, state : {"creating", "asking", "answered", "unanswered", "landed", "failed"}]
        /\ v7'.state = "failed"
    BY <2>1 DEF Cv!IInv
  <2>3. ~Cv!Pending' /\ Cv!Asking' = 0
    BY <2>1, <2>2 DEF Cv!Pending, Cv!Asking
  <2>4. 0 \notin Cv!Ids(v2)
    BY IdsGiven DEF Cv!IInv
  <2> QED
    BY <2>1, <2>2, <2>3, <2>4, ThreadsStay DEF Cv!IInv
<1>8. ASSUME NEW id, Cv!Chooses(id), UNCHANGED <<v2, v3, v4, v5, v7, v14>>
      PROVE  Cv!IInv'
  BY <1>8, ReaderMoves DEF Cv!Chooses, Cv!Forgets
<1>9. CASE (\E i \in DOMAIN Cv!Known : Cv!Pick(i)) \/ \E step \in {-1, 1} : Cv!StepTab(step)
  BY <1>8, <1>9 DEF Cv!Pick, Cv!StepTab
<1>10. CASE Cv!OpenNew
  <2>1. UNCHANGED <<v2, v3, v4, v5, v7, v14>>
    BY <1>10 DEF Cv!OpenNew
  <2>2. UNCHANGED <<v6, v15>> \/ Cv!Chooses(Cv!Known[Cv!Empty].id)
    BY <1>10 DEF Cv!OpenNew
  <2> QED
    BY <1>8, <2>1, <2>2, ReaderMoves
<1>11. CASE Cv!Opened
  <2>1. v3' = v3 + 1 /\ v2' = Append(v2, [id |-> v3', asked |-> 0]) /\ UNCHANGED <<v4, v7, v14>>
        /\ (v5' = v5 \/ v5' = Asked) /\ v6' = Cv!Forgets(Cv!Known, v3') /\ ~v15'
    BY <1>11 DEF Cv!Opened, Cv!Chooses, Cv!Rereads
  <2>2. v7' # None => v7' \in [thread : 0 .. v3', state : {"creating", "asking", "answered", "unanswered", "landed", "failed"}]
    <3>1. 0 .. v3 \subseteq 0 .. v3'
      BY <2>1 DEF Cv!IInv
    <3> QED
      BY <2>1, <3>1 DEF Cv!IInv
  <2> QED
    BY <2>1, <2>2, ThreadMade, MadeKeeps, AskStays DEF Cv!IInv
<1>12. CASE Cv!TypeWords \/ Cv!OpenFails \/ Cv!Confirm \/ Cv!Keep \/ Cv!DiscardFails \/ UNCHANGED Cv!vars
  BY <1>12, ReaderMoves DEF Cv!TypeWords, Cv!OpenFails, Cv!Confirm, Cv!Keep, Cv!DiscardFails, Cv!vars
<1>13. CASE Cv!Discard
  BY <1>13, DiscardKeeps
<1>14. CASE Cv!Discarded
  BY <1>14, ReaderMoves DEF Cv!Discarded, Cv!Rereads
<1> QED
  BY <1>1, <1>2, <1>3, <1>4, <1>5, <1>6, <1>7, <1>9, <1>10, <1>11, <1>12, <1>13, <1>14 DEF Cv!Next, Cv!Steps

\* With the list read after an answer, the thread followed is the one on screen.
LEMMA TheThreadIsOnScreen ==
    ASSUME Cv!ConversationsAssumption, Cv!IInv
    PROVE  Cv!TheAnswerIsOnScreen
<1> SUFFICES ASSUME v15, v7 = None, v4 = v2, v14 \in Cv!Ids(v2)
             PROVE  Cv!Current = v14
  BY DEF Cv!TheAnswerIsOnScreen
<1>1. Cv!Asking = v14
  BY DEF Cv!Asking, Cv!Pending
<1>2. 0 \notin Cv!Ids(v2) /\ v2 # <<>>
  <2>1. 0 \notin Cv!Ids(v2)
    BY IdsGiven DEF Cv!IInv
  <2> QED
    BY <2>1 DEF Cv!Ids
<1>3. v6 = v14 \/ (v6 = 0 /\ v14 = Cv!Last(v2).id)
  BY <1>1 DEF Cv!IInv, Cv!TheThreadIsFollowed
<1>4. v4 # None
  <2>1. v2 \in Seq([id : Nat, asked : Nat])
    <3>1. 1 .. v3 \subseteq Nat
      OBVIOUS
    <3>2. v2 \in Seq([id : 1 .. v3, asked : Nat])
      BY DEF Cv!IInv
    <3> QED
      BY <3>1, <3>2, MoreThreads, Zenon
  <2> QED
    BY <2>1 DEF Cv!ConversationsAssumption
<1> QED
  BY <1>2, <1>3, <1>4 DEF Cv!Current, Cv!Thread, Cv!Known

(***************************************************************************)
(* What is drawn on the map                                                *)
(***************************************************************************)
\* What the map filters its lists with is the filter of Lists.
LEMMA WithinOfTheMap ==
    ASSUME NEW s, NEW S
    PROVE  Ae!Within(s, S) = Within(s, S)
BY DEF Ae!Within, Within

\* Some of the first numbers have a greatest.
LEMMA GreatestNumber ==
    ASSUME NEW n \in Nat, NEW T, T \subseteq 1 .. n, T # {}
    PROVE  \E m \in T : \A j \in T : j <= m
<1> DEFINE D == {k \in Nat : n - k \in T}
<1>1. D \subseteq Nat /\ D # {}
  <2>1. PICK t \in T : TRUE
    OBVIOUS
  <2>2. n - t \in Nat /\ n - (n - t) = t
    BY <2>1
  <2> QED
    BY <2>1, <2>2
<1>2. PICK m \in D : \A k \in D : m <= k
  BY <1>1, LeastNumber
<1>3. \A j \in T : n - j \in D
  <2>1. \A j \in T : n - j \in Nat /\ n - (n - j) = j
    OBVIOUS
  <2> QED
    BY <2>1
<1>4. n - m \in T /\ m \in Nat
  BY <1>2
<1>5. \A j \in T : j <= n - m
  <2> TAKE j \in T
  <2>1. m <= n - j
    <3>1. n - j \in D
      BY <1>3
    <3> HIDE DEF D
    <3> QED
      BY <1>2, <3>1
  <2>2. j \in Nat
    OBVIOUS
  <2> HIDE DEF D
  <2> QED
    BY <1>4, <2>1, <2>2
<1> QED
  BY <1>4, <1>5

\* Where the trace that was asked for last is.
LEMMA TheTraceIsSomewhere ==
    ASSUME NEW x \in Seq(AeRequests), NEW at, at \subseteq DOMAIN x, at # {}
    PROVE  (CHOOSE i \in at : \A j \in at : j <= i) \in at
<1>1. at \subseteq 1 .. Len(x) /\ Len(x) \in Nat
  OBVIOUS
<1>2. \E m \in at : \A j \in at : j <= m
  BY <1>1, GreatestNumber
<1> QED
  BY <1>2

\* The trace drawn is a path or cycles that were asked for, and answered.
LEMMA TheTraceWasAnswered ==
    ASSUME NEW x \in Seq(AeRequests), NEW a, Ae!Traced(x, a) # None
    PROVE  /\ Ae!Traced(x, a) \in AeRequests /\ Ae!Traced(x, a) \in Ae!ToSet(x)
           /\ AeOp[Ae!Traced(x, a)] \in {"path", "cycles"} /\ a[Ae!Traced(x, a)] = "read"
<1> DEFINE at == {i \in DOMAIN x : AeOp[x[i]] \in {"path", "cycles"}}
           i == CHOOSE i \in at : \A j \in at : j <= i
<1>1. Ae!Traced(x, a) = IF at = {} \/ a[x[i]] # "read" THEN None ELSE x[i]
  BY DEF Ae!Traced
<1>2. at # {} /\ a[x[i]] = "read" /\ Ae!Traced(x, a) = x[i]
  BY <1>1
<1>4. i \in at
  <2>1. at \subseteq DOMAIN x
    OBVIOUS
  <2> HIDE DEF at
  <2> QED
    BY <1>2, <2>1, TheTraceIsSomewhere
<1>5. i \in DOMAIN x /\ AeOp[x[i]] \in {"path", "cycles"}
  BY <1>4
<1> HIDE DEF i, at
<1>6. x[i] \in AeRequests /\ x[i] \in Ae!ToSet(x)
  BY <1>5 DEF Ae!ToSet
<1> QED
  BY <1>2, <1>5, <1>6

\* What was asked for, paths apart, is drawn under every lens and filter.
LEMMA TheAskedIsDrawn ==
    ASSUME NEW x, NEW a, NEW l, NEW f, NEW s,
           NEW r \in Ae!ToSet(x), AeOp[r] # "path", a[r] = "read"
    PROVE  AeFound[r] \subseteq Ae!Visible(x, a, l, f, s).nodes
<1>1. AeFound[r] \subseteq Ae!Nodes(x, a) /\ AeFound[r] \subseteq Ae!Revealed(x, a)
  BY DEF Ae!Nodes, Ae!Results, Ae!Revealed
<1> QED
  BY <1>1 DEF Ae!Visible

\* The map shows no more than was found.
LEMMA OnlyTheFoundIsDrawn ==
    ASSUME NEW x, NEW a, NEW l, NEW f, NEW s
    PROVE  Ae!Visible(x, a, l, f, s).nodes \subseteq Ae!Nodes(x, a)
  BY DEF Ae!Visible

\* Unfiltered, the structure of a map that has something on it draws it, and so do its
\* dependencies.
LEMMA UnfilteredLensesDraw ==
    ASSUME NEW x, NEW a, NEW s, NEW l \in {"structure", "dependencies"}, Ae!Nodes(x, a) # {}
    PROVE  Ae!Visible(x, a, l, Ae!Unfiltered, s).nodes # {}
<1> DEFINE byLens == {e \in Ae!EdgesOf(x, a) :
                         /\ e.from # e.to /\ e.kind \notin {}
                         /\ CASE l = "structure" -> e.kind = "contains"
                              [] l = "dependencies" -> e.kind # "contains"
                              [] OTHER -> {e.from, e.to} \cap AeJudged # {}}
           kept == Ae!Revealed(x, a) \cup ({s} \cap Ae!Nodes(x, a))
           drawn == (UNION {{e.from, e.to} : e \in byLens}) \cup kept \cup (IF l = "judged" THEN AeJudged ELSE {})
           bound == l = "judged" \/ (l = "dependencies" /\ byLens # {})
<1>1. Ae!Visible(x, a, l, Ae!Unfiltered, s).nodes = IF bound THEN Ae!Nodes(x, a) \cap drawn ELSE Ae!Nodes(x, a)
  BY DEF Ae!Visible, Ae!Unfiltered
<1>2. CASE ~bound
  BY <1>1, <1>2
<1>3. CASE bound
  <2>1. PICK e \in byLens : TRUE
    BY <1>3
  <2>2. e.from \in Ae!Nodes(x, a) /\ e.from \in drawn
    BY <2>1 DEF Ae!EdgesOf
  <2> QED
    BY <1>1, <1>3, <2>2
<1> QED
  BY <1>2, <1>3

(***************************************************************************)
(* The lens                                                                *)
(***************************************************************************)
\* The lenses, and the first of those that are left of a list of them.
LEMMA LensesNamed ==
    /\ Ae!ToSet(Ae!Lenses) = {"structure", "dependencies", "judged"}
    /\ Ae!Lenses \in Seq({"structure", "dependencies", "judged"})
  BY DEF Ae!Lenses, Ae!ToSet

\* The first of what is left of a list is one of what was looked for.
LEMMA FirstLeft ==
    ASSUME NEW A, NEW s \in Seq(A), NEW S, Within(s, S) # <<>>
    PROVE  Head(Within(s, S)) \in S /\ Head(Within(s, S)) \in A
<1> DEFINE w == Within(s, S)
<1>1. /\ w \in Seq(A) /\ Len(w) \in Nat
      /\ \E h \in [1 .. Len(w) -> 1 .. Len(s)] : \A k \in 1 .. Len(w) : w[k] = s[h[k]] /\ s[h[k]] \in S
  BY WithinTheList
<1> HIDE DEF w
<1>2. 1 \in 1 .. Len(w) /\ Head(w) = w[1]
  BY <1>1 DEF w
<1> QED
  BY <1>1, <1>2 DEF w
\* Something is left of a list that has what was looked for, the first of it first.
LEMMA SomethingLeft ==
    ASSUME NEW A, NEW s \in Seq(A), NEW S, NEW i \in 1 .. Len(s), s[i] \in S
    PROVE  Within(s, S) # <<>> /\ (i = 1 => Head(Within(s, S)) = s[1])
<1> DEFINE w == Within(s, S)
<1>1. PICK h \in [1 .. Len(w) -> 1 .. Len(s)] :
         /\ \A k \in 1 .. Len(w) : w[k] = s[h[k]] /\ s[h[k]] \in S
         /\ \A j, k \in 1 .. Len(w) : j < k => h[j] < h[k]
         /\ \A j \in 1 .. Len(s) : s[j] \in S => \E k \in 1 .. Len(w) : h[k] = j
  BY WithinTheList
<1>2. w \in Seq(A) /\ Len(w) \in Nat
  BY WithinTheList
<1> HIDE DEF w
<1>3. PICK k \in 1 .. Len(w) : h[k] = i
  BY <1>1
<1>4. w # <<>> /\ Head(w) = w[1] /\ 1 \in 1 .. Len(w)
  BY <1>2, <1>3
<1>5. ASSUME i = 1
      PROVE  w[1] = s[1]
  <2>1. ~ (1 < k)
    <3> SUFFICES ASSUME 1 < k
                 PROVE  FALSE
      OBVIOUS
    <3>1. h[1] < h[k] /\ h[1] \in 1 .. Len(s)
      BY <1>1, <1>4
    <3> QED
      BY <1>3, <1>5, <3>1
  <2>2. k = 1
    BY <1>2, <2>1
  <2> QED
    BY <1>1, <1>3, <1>4, <1>5, <2>2
<1> QED
  BY <1>4, <1>5 DEF w

\* What follows of a render: while no path that was asked for has anything to draw, a lens that
\* was moved draws what it was moved for.
LEMMA RendersOwnTo ==
    ASSUME Ae!ExplorerAssumption, Ae!IInv, NEW x \in Seq(AeRequests), NEW a, NEW q, NEW m, NEW s,
           ~v14 => \A r \in AeRequests : AeOp[r] = "path" /\ a[r] = "read" => AeFound[r] = {},
           Ae!Renders(x, a, v5, q, m, s)
    PROVE  /\ v5' \in Ae!ToSet(Ae!Lenses) /\ v13' \in BOOLEAN /\ v14' \in BOOLEAN
           /\ v12' = Ae!Traced(x, a) /\ (v14' <=> v14 \/ Ae!Nodes(x, a) # {})
           /\ Ae!TheMovedLensIsOwnedTo'
<1> DEFINE t == Ae!Traced(x, a)
           drawing == {z \in Ae!ToSet(Ae!Lenses) : z # v5 /\ Ae!Visible(x, a, z, Ae!Filters, s).nodes # {}}
           others == Ae!Within(<<"dependencies", "structure">>, drawing)
<1>1. /\ v12' = t /\ v13' = Ae!ForcedBy(t, v12, v5, v13) /\ v14' = (v14 \/ Ae!Nodes(x, a) # {})
      /\ v5' = IF ~v14 /\ Ae!Nodes(x, a) # {} /\ Ae!Visible(x, a, v5, Ae!Filters, s).nodes = {} /\ others # <<>>
                THEN Head(others)
                ELSE IF t = v12 THEN v5 ELSE Ae!LensFor(t, v5)
  BY DEF Ae!Renders, Ae!LensAfter
<1>2. others # <<>> => Head(others) \in Ae!ToSet(Ae!Lenses)
  <2>1. <<"dependencies", "structure">> \in Seq({"structure", "dependencies", "judged"})
    OBVIOUS
  <2> HIDE DEF drawing
  <2>2. Within(<<"dependencies", "structure">>, drawing) # <<>>
           => Head(Within(<<"dependencies", "structure">>, drawing)) \in {"structure", "dependencies", "judged"}
    BY <2>1, FirstLeft
  <2> QED
    BY <2>2, WithinOfTheMap, LensesNamed
<1> HIDE DEF others, drawing
<1>3. v5' \in Ae!ToSet(Ae!Lenses)
  BY <1>1, <1>2, LensesNamed DEF Ae!IInv, Ae!LensFor
<1>4. v13' \in BOOLEAN /\ v14' \in BOOLEAN
  BY <1>1 DEF Ae!IInv, Ae!ForcedBy
<1>5. ASSUME v13'
      PROVE  t # None /\ AeRound[t] # {} /\ v5' = "dependencies"
  <2>1. t # None /\ AeRound[t] # {} /\ (t = v12 => v5 = "dependencies" /\ v13)
    BY <1>1, <1>5 DEF Ae!ForcedBy, Ae!IInv, Ae!TheMovedLensIsOwnedTo
  <2>2. t \in AeRequests /\ t \in Ae!ToSet(x) /\ AeOp[t] \in {"path", "cycles"} /\ a[t] = "read"
    BY <2>1, TheTraceWasAnswered
  <2>3. AeFound[t] # {}
    <3>1. PICK e \in AeRound[t] : TRUE
      BY <2>1
    <3>2. {e.from, e.to} \subseteq AeFound[t]
      BY <2>2, <3>1 DEF Ae!ExplorerAssumption
    <3> QED
      BY <3>2
  <2>4. CASE ~v14 /\ AeOp[t] = "path"
    BY <2>2, <2>3, <2>4
  <2>5. CASE AeOp[t] = "cycles"
    <3>1. AeFound[t] \subseteq Ae!Visible(x, a, v5, Ae!Filters, s).nodes
      BY <2>2, <2>5, TheAskedIsDrawn
    <3>2. v5' = IF t = v12 THEN v5 ELSE Ae!LensFor(t, v5)
      BY <1>1, <2>3, <3>1
    <3> QED
      BY <2>1, <3>2 DEF Ae!LensFor
  <2>6. CASE v14
    <3>1. v5' = IF t = v12 THEN v5 ELSE Ae!LensFor(t, v5)
      BY <1>1, <2>6
    <3> QED
      BY <2>1, <3>1 DEF Ae!LensFor
  <2> QED
    BY <2>2, <2>4, <2>5, <2>6
<1>6. Ae!TheMovedLensIsOwnedTo'
  BY <1>1, <1>5 DEF Ae!TheMovedLensIsOwnedTo
<1> QED
  BY <1>1, <1>3, <1>4, <1>6
\* The map and its trace are of what has been read, whatever else is on its way.
LEMMA TheReadDecide ==
    ASSUME NEW x \in Seq(AeRequests), NEW a, NEW b,
           \A r \in AeRequests \cup {Context} : a[r] = "read" <=> b[r] = "read"
    PROVE  Ae!Nodes(x, b) = Ae!Nodes(x, a) /\ Ae!Traced(x, b) = Ae!Traced(x, a)
<1>1. Ae!ToSet(x) \subseteq AeRequests
  BY DEF Ae!ToSet
<1>2. Ae!Results(x, b) = Ae!Results(x, a)
  BY <1>1 DEF Ae!Results
<1> DEFINE at == {i \in DOMAIN x : AeOp[x[i]] \in {"path", "cycles"}}
           i == CHOOSE i \in at : \A j \in at : j <= i
<1>3. at # {} => x[i] \in AeRequests
  <2>1. at \subseteq DOMAIN x
    OBVIOUS
  <2> HIDE DEF at
  <2>2. at # {} => i \in at
    BY <2>1, TheTraceIsSomewhere
  <2> HIDE DEF i
  <2> QED
    BY <2>1, <2>2
<1>4. /\ Ae!Traced(x, a) = IF at = {} \/ a[x[i]] # "read" THEN None ELSE x[i]
      /\ Ae!Traced(x, b) = IF at = {} \/ b[x[i]] # "read" THEN None ELSE x[i]
  BY DEF Ae!Traced
<1> HIDE DEF at, i
<1>5. Ae!Traced(x, b) = Ae!Traced(x, a)
  BY <1>3, <1>4
<1> QED
  BY <1>2, <1>5 DEF Ae!Nodes

\* The map holds x and a after a step that renders them, and no path was read for the first time
\* before anything was drawn.
LEMMA TheMapMoves ==
    ASSUME Ae!ExplorerAssumption, Ae!IInv, NEW q, NEW m, NEW s,
           v1' \in [AeRequests \cup {Context} -> {"unread", "reading", "failed", "read"}],
           v2' \in Seq(AeRequests), v9' \in Ae!Terms \cup {None},
           \A r \in AeRequests : AeOp[r] = "path" => v14 \/ v1'[r] = v1[r],
           Ae!Renders(v2', v1', v5, q, m, s)
    PROVE  Ae!IInv'
<1>1. ~v14 => \A r \in AeRequests : AeOp[r] = "path" /\ v1'[r] = "read" => AeFound[r] = {}
  BY DEF Ae!IInv, Ae!NothingIsDrawnYet
<1>2. /\ v5' \in Ae!ToSet(Ae!Lenses) /\ v13' \in BOOLEAN /\ v14' \in BOOLEAN
      /\ v12' = Ae!Traced(v2', v1') /\ (v14' <=> v14 \/ Ae!Nodes(v2', v1') # {})
      /\ Ae!TheMovedLensIsOwnedTo'
  BY <1>1, RendersOwnTo
<1>3. Ae!NothingIsDrawnYet'
  BY <1>2 DEF Ae!IInv, Ae!NothingIsDrawnYet
<1> QED
  BY <1>2, <1>3 DEF Ae!IInv, Ae!TraceIsTheLast

\* A step that reads nothing new and leaves the trace alone.
LEMMA NothingNewIsRead ==
    ASSUME Ae!IInv,
           v1' \in [AeRequests \cup {Context} -> {"unread", "reading", "failed", "read"}],
           \A r \in AeRequests \cup {Context} :
              v1'[r] = v1[r] \/ {v1[r], v1'[r]} \subseteq {"reading", "failed"},
           UNCHANGED <<v2, v12, v14>>, v9' \in Ae!Terms \cup {None},
           v5' \in Ae!ToSet(Ae!Lenses), v13' \in BOOLEAN, v13' => v13 /\ v5' = v5
    PROVE  Ae!IInv'
<1>1. Ae!Nodes(v2', v1') = Ae!Nodes(v2, v1) /\ Ae!Traced(v2', v1') = Ae!Traced(v2, v1)
  <2>1. \A r \in AeRequests \cup {Context} : v1[r] = "read" <=> v1'[r] = "read"
    OBVIOUS
  <2>2. v2 \in Seq(AeRequests)
    BY DEF Ae!IInv
  <2>3. Ae!Nodes(v2, v1') = Ae!Nodes(v2, v1) /\ Ae!Traced(v2, v1') = Ae!Traced(v2, v1)
    BY <2>1, <2>2, TheReadDecide
  <2> QED
    BY <2>3
<1>2. Ae!TraceIsTheLast' /\ Ae!TheMovedLensIsOwnedTo'
  BY <1>1 DEF Ae!IInv, Ae!TraceIsTheLast, Ae!TheMovedLensIsOwnedTo
<1>3. Ae!NothingIsDrawnYet'
  BY <1>1 DEF Ae!IInv, Ae!NothingIsDrawnYet
<1> QED
  BY <1>2, <1>3 DEF Ae!IInv
\* A blank map on the dependencies lens is blank for its filters, and is offered without them.
LEMMA WhatABlankMapOffers ==
    ASSUME Ae!ExplorerAssumption, Ae!IInv
    PROVE  /\ Ae!Offer \in Ae!ToSet(Ae!Lenses) =>
                  v5 # "dependencies" /\ Ae!Visible(v2, v1, Ae!Offer, Ae!Filters, v3).nodes # {}
           /\ Ae!Offer \notin Ae!ToSet(Ae!Lenses) => Ae!Offer \in {"nothing", "clear"}
           /\ Ae!Nodes(v2, v1) # {} /\ Ae!OnScreen.nodes = {} => Ae!Offer # "nothing"
<1> DEFINE named == Ae!Filters # Ae!Unfiltered
           drawing == {l \in Ae!ToSet(Ae!Lenses) : l # v5 /\ Ae!Visible(v2, v1, l, Ae!Filters, v3).nodes # {}}
           others == Ae!Within(Ae!Lenses, drawing)
           blank == Ae!Nodes(v2, v1) # {} /\ Ae!OnScreen.nodes = {}
           clear == named /\ Ae!Visible(v2, v1, v5, Ae!Unfiltered, v3).nodes # {}
<1>1. Ae!Offer = IF ~blank THEN "nothing"
                 ELSE IF clear THEN "clear"
                 ELSE IF others # <<>> THEN Head(others)
                 ELSE IF named THEN "clear" ELSE "nothing"
  BY DEF Ae!Offer
<1>2. others # <<>> => Head(others) \in drawing
  <2> HIDE DEF drawing
  <2>1. Within(Ae!Lenses, drawing) # <<>> => Head(Within(Ae!Lenses, drawing)) \in drawing
    BY LensesNamed, FirstLeft
  <2> QED
    BY <2>1, WithinOfTheMap
<1>3. blank /\ v5 \in {"structure", "dependencies"} => clear
  <2> SUFFICES ASSUME blank, v5 \in {"structure", "dependencies"}
               PROVE  clear
    OBVIOUS
  <2>1. Ae!Visible(v2, v1, v5, Ae!Unfiltered, v3).nodes # {}
    BY UnfilteredLensesDraw
  <2>2. Ae!OnScreen.nodes = Ae!Visible(v2, v1, v5, Ae!Filters, v3).nodes
    BY DEF Ae!OnScreen
  <2>3. named
    BY <2>1, <2>2
  <2> QED
    BY <2>1, <2>3
<1>4. blank /\ ~named /\ v5 \notin {"structure", "dependencies"} => others # <<>>
  <2> SUFFICES ASSUME blank, ~named, v5 \notin {"structure", "dependencies"}
               PROVE  others # <<>>
    OBVIOUS
  <2>1. "structure" \in drawing
    <3>1. Ae!Visible(v2, v1, "structure", Ae!Unfiltered, v3).nodes # {}
      BY UnfilteredLensesDraw
    <3> QED
      BY <3>1, LensesNamed
  <2>2. Ae!Lenses[1] = "structure" /\ 1 \in 1 .. Len(Ae!Lenses)
    BY DEF Ae!Lenses
  <2> HIDE DEF drawing
  <2>3. Within(Ae!Lenses, drawing) # <<>>
    BY <2>1, <2>2, LensesNamed, SomethingLeft
  <2> QED
    BY <2>3, WithinOfTheMap
<1> HIDE DEF others, clear, named
<1>5. v5 \in {"structure", "dependencies", "judged"}
  BY LensesNamed DEF Ae!IInv
<1>6. ASSUME Ae!Offer \in Ae!ToSet(Ae!Lenses)
      PROVE  v5 # "dependencies" /\ Ae!Visible(v2, v1, Ae!Offer, Ae!Filters, v3).nodes # {}
  <2>1. blank /\ ~clear /\ others # <<>> /\ Ae!Offer = Head(others)
    BY <1>1, <1>6, LensesNamed
  <2>2. Ae!Offer \in drawing
    BY <1>2, <2>1
  <2> QED
    BY <1>3, <2>1, <2>2
<1>7. ASSUME Ae!Offer \notin Ae!ToSet(Ae!Lenses)
      PROVE  Ae!Offer \in {"nothing", "clear"}
  <2>1. drawing \subseteq Ae!ToSet(Ae!Lenses)
    OBVIOUS
  <2> HIDE DEF drawing
  <2> QED
    BY <1>1, <1>2, <1>7, <2>1
<1>8. ASSUME blank
      PROVE  Ae!Offer # "nothing"
  <2>1. drawing \subseteq {"structure", "dependencies", "judged"}
    BY LensesNamed
  <2> HIDE DEF drawing, blank
  <2>2. others # <<>> => Head(others) # "nothing"
    BY <1>2, <2>1
  <2> QED
    BY <1>1, <1>3, <1>4, <1>5, <1>8, <2>2
<1> QED
  BY <1>6, <1>7, <1>8

(***************************************************************************)
(* The steps of the map                                                    *)
(***************************************************************************)
\* A request asked again is at the end, and dropped is off the list.
LEMMA TheListOfRequests ==
    ASSUME Ae!IInv, NEW r \in AeRequests
    PROVE  Ae!Without(r) \in Seq(AeRequests) /\ Ae!Explored(r) \in Seq(AeRequests)
<1>1. Within(v2, AeRequests \ {r}) \in Seq(AeRequests)
  BY WithinTheList DEF Ae!IInv
<1>2. Ae!Without(r) \in Seq(AeRequests)
  BY <1>1, WithinOfTheMap DEF Ae!Without
<1> QED
  BY <1>2 DEF Ae!Explored

\* What is asked is unread or is read again where it failed.
LEMMA TheAnswersAsked ==
    ASSUME Ae!IInv, NEW r \in AeRequests
    PROVE  /\ Ae!AnswerOf(r) \in [AeRequests \cup {Context} -> {"unread", "reading", "failed", "read"}]
           /\ \A q \in AeRequests : q # r => Ae!AnswerOf(r)[q] = v1[q]
  BY DEF Ae!IInv, Ae!AnswerOf

\* Something is on the map once it was looked at.
LEMMA DrawnIsLookedAt ==
    ASSUME Ae!IInv, Ae!Nodes(v2, v1) # {}
    PROVE  v14
  BY DEF Ae!IInv, Ae!NothingIsDrawnYet

\* What was asked on an earlier visit is drawn, and owned to, at once.
LEMMA ExplorerInitially == ASSUME Ae!ExplorerAssumption, Ae!Init PROVE Ae!IInv
<1>1. /\ v1 \in [AeRequests \cup {Context} -> {"unread", "reading", "failed", "read"}]
      /\ \A r \in AeRequests : v1[r] = IF r \in Ae!ToSet(AeRemembered) THEN "read" ELSE "unread"
      /\ v2 = AeRemembered /\ v2 \in Seq(AeRequests) /\ v9 = None
  BY DEF Ae!Init, Ae!ExplorerAssumption
<1>2. v12 = Ae!Traced(v2, v1) /\ v13 = Ae!ForcedBy(v12, None, "judged", FALSE) /\ v14 = (Ae!Nodes(v2, v1) # {})
      /\ v5 = Ae!LensAfter(v2, v1, "judged", Ae!Unfiltered, None, None, FALSE)
  BY DEF Ae!Init
<1> DEFINE drawing == {z \in Ae!ToSet(Ae!Lenses) : z # "judged" /\ Ae!Visible(v2, v1, z, Ae!Unfiltered, None).nodes # {}}
           others == Ae!Within(<<"dependencies", "structure">>, drawing)
<1>3. v5 = IF Ae!Nodes(v2, v1) # {} /\ Ae!Visible(v2, v1, "judged", Ae!Unfiltered, None).nodes = {} /\ others # <<>>
           THEN Head(others) ELSE IF v12 = None THEN "judged" ELSE Ae!LensFor(v12, "judged")
  BY <1>2 DEF Ae!LensAfter
<1>4. others # <<>> => Head(others) \in Ae!ToSet(Ae!Lenses)
  <2>1. <<"dependencies", "structure">> \in Seq({"structure", "dependencies", "judged"})
    OBVIOUS
  <2> HIDE DEF drawing
  <2>2. Within(<<"dependencies", "structure">>, drawing) # <<>>
           => Head(Within(<<"dependencies", "structure">>, drawing)) \in {"structure", "dependencies", "judged"}
    BY <2>1, FirstLeft
  <2> QED
    BY <2>2, WithinOfTheMap, LensesNamed
<1>5. Ae!Nodes(v2, v1) # {} => others # <<>> /\ Head(others) = "dependencies"
  <2> SUFFICES ASSUME Ae!Nodes(v2, v1) # {}
               PROVE  others # <<>> /\ Head(others) = "dependencies"
    OBVIOUS
  <2>1. "dependencies" \in drawing
    <3>1. Ae!Visible(v2, v1, "dependencies", Ae!Unfiltered, None).nodes # {}
      BY UnfilteredLensesDraw
    <3> QED
      BY <3>1, LensesNamed
  <2> DEFINE s == <<"dependencies", "structure">>
  <2>2. s \in Seq({"dependencies", "structure"}) /\ 1 \in 1 .. Len(s) /\ s[1] = "dependencies"
    OBVIOUS
  <2> HIDE DEF drawing
  <2>3. others = Within(s, drawing)
    BY WithinOfTheMap
  <2> HIDE DEF s, others
  <2> QED
    BY <2>1, <2>2, <2>3, SomethingLeft
<1> HIDE DEF others
<1>6. v5 \in Ae!ToSet(Ae!Lenses)
  BY <1>3, <1>4, LensesNamed DEF Ae!LensFor
<1>7. Ae!NothingIsDrawnYet
  <2> SUFFICES ASSUME Ae!Nodes(v2, v1) = {}, NEW r \in AeRequests, v1[r] # "unread"
               PROVE  v1[r] = "read" /\ AeFound[r] = {}
    BY <1>2 DEF Ae!NothingIsDrawnYet
  <2>1. v1[r] = "read" /\ r \in Ae!ToSet(v2)
    BY <1>1
  <2> QED
    BY <2>1 DEF Ae!Nodes, Ae!Results
<1>8. Ae!TheMovedLensIsOwnedTo
  <2> SUFFICES ASSUME v13
               PROVE  v5 = "dependencies" /\ v12 # None /\ AeRound[v12] # {}
    BY DEF Ae!TheMovedLensIsOwnedTo
  <2>1. v12 # None /\ AeRound[v12] # {}
    BY <1>2 DEF Ae!ForcedBy
  <2> QED
    BY <1>3, <1>5, <2>1 DEF Ae!LensFor
<1>9. v13 \in BOOLEAN /\ v14 \in BOOLEAN
  BY <1>2 DEF Ae!ForcedBy
<1> QED
  BY <1>1, <1>2, <1>6, <1>7, <1>8, <1>9 DEF Ae!IInv, Ae!TraceIsTheLast
\* Every step leaves the lens and what it was moved for together.
LEMMA ExplorerPreserved ==
    ASSUME Ae!ExplorerAssumption, Ae!IInv, Ae!Next \/ UNCHANGED Ae!vars
    PROVE  Ae!IInv'
<1>t. /\ v1 \in [AeRequests \cup {Context} -> {"unread", "reading", "failed", "read"}]
      /\ v2 \in Seq(AeRequests) /\ v9 \in Ae!Terms \cup {None} /\ v5 \in Ae!ToSet(Ae!Lenses)
      /\ v13 \in BOOLEAN /\ v14 \in BOOLEAN
  BY DEF Ae!IInv
<1>1. ASSUME NEW r \in AeRequests, Ae!Explore(r)
      PROVE  Ae!IInv'
  <2>1. v2' = Ae!Explored(r) /\ v1' = Ae!AnswerOf(r) /\ v9' = v9 /\ Ae!Renders(v2', v1', v5, v10, v11, v3)
    BY <1>1 DEF Ae!Explore
  <2>2. AeOp[r] = "path" => v14
    <3>1. AeOp[r] = "path" => Ae!Nodes(v2, v1) # {}
      BY <1>1 DEF Ae!Explore
    <3> QED
      BY <3>1, DrawnIsLookedAt
  <2>3. \A q \in AeRequests : AeOp[q] = "path" => v14 \/ v1'[q] = v1[q]
    BY <2>1, <2>2, TheAnswersAsked
  <2>4. v2' \in Seq(AeRequests) /\ v1' \in [AeRequests \cup {Context} -> {"unread", "reading", "failed", "read"}]
    BY <2>1, TheListOfRequests, TheAnswersAsked
  <2> QED
    BY <1>t, <2>1, <2>3, <2>4, TheMapMoves
<1>2. ASSUME NEW r \in AeRequests \cup {Context}, Ae!Answers(r)
      PROVE  Ae!IInv'
  <2>1. v1[r] = "reading" /\ v1' = [v1 EXCEPT ![r] = "read"] /\ v2' = v2 /\ v9' = v9
        /\ Ae!Renders(v2', v1', v5, v10, v11, v3)
    BY <1>2 DEF Ae!Answers
  <2>2. \A q \in AeRequests : AeOp[q] = "path" => v14 \/ v1'[q] = v1[q]
    BY <1>t, <2>1 DEF Ae!IInv, Ae!NothingIsDrawnYet
  <2>3. v1' \in [AeRequests \cup {Context} -> {"unread", "reading", "failed", "read"}]
    BY <1>t, <2>1
  <2> QED
    BY <1>t, <2>1, <2>2, <2>3, TheMapMoves
<1>3. ASSUME NEW r \in AeRequests, Ae!Drop(r)
      PROVE  Ae!IInv'
  <2>1. v2' = Ae!Without(r) /\ v1' = v1 /\ v9' = v9 /\ Ae!Renders(v2', v1', v5, v10, v11, v3)
    BY <1>3 DEF Ae!Drop
  <2>2. v2' \in Seq(AeRequests)
    BY <2>1, TheListOfRequests
  <2> QED
    BY <1>t, <2>1, <2>2, TheMapMoves
<1>4. CASE Ae!ResetMap
  <2>1. v2' = <<>> /\ v1' = v1 /\ v9' = v9 /\ Ae!Renders(v2', v1', v5, v10, v11, None)
    BY <1>4 DEF Ae!ResetMap
  <2>2. v2' \in Seq(AeRequests)
    BY <2>1
  <2> QED
    BY <1>t, <2>1, <2>2, TheMapMoves
<1>5. CASE Ae!Submit
  <2>1. PICK found, r : /\ r = (CHOOSE q \in AeRequests : AeOp[q] = "search" /\ AeOn[q] = v9)
                        /\ v9 # None /\ v9' = v9
                        /\ \/ UNCHANGED <<v1, v2, v5, v12, v13, v14>>
                           \/ /\ v2' = Ae!Explored(r) /\ v1' = Ae!AnswerOf(r)
                              /\ Ae!Renders(v2', v1', v5, v9, [ids |-> <<>>, at |-> 1], v3)
    BY <1>5 DEF Ae!Submit, Ae!asked
  <2>2. CASE UNCHANGED <<v1, v2, v5, v12, v13, v14>>
    BY <1>t, <2>1, <2>2, NothingNewIsRead
  <2>3. CASE /\ v2' = Ae!Explored(r) /\ v1' = Ae!AnswerOf(r)
             /\ Ae!Renders(v2', v1', v5, v9, [ids |-> <<>>, at |-> 1], v3)
    <3>1. r \in AeRequests /\ AeOp[r] = "search"
      <4>1. \E q \in AeRequests : AeOp[q] = "search" /\ AeOn[q] = v9
        BY <1>t, <2>1 DEF Ae!Terms
      <4> QED
        BY <2>1, <4>1
    <3>2. v2' \in Seq(AeRequests) /\ v1' \in [AeRequests \cup {Context} -> {"unread", "reading", "failed", "read"}]
      BY <2>3, <3>1, TheListOfRequests, TheAnswersAsked
    <3>3. \A q \in AeRequests : AeOp[q] = "path" => v14 \/ v1'[q] = v1[q]
      BY <2>3, <3>1, TheAnswersAsked
    <3> QED
      BY <1>t, <2>1, <2>3, <3>2, <3>3, TheMapMoves
  <2> QED
    BY <2>1, <2>2, <2>3
<1>6. CASE \E r \in AeRequests \cup {Context} : Ae!DoesNotAnswer(r) \/ Ae!TryAgain(r)
  <2>1. /\ UNCHANGED <<v2, v12, v14, v9, v5, v13>>
        /\ \E r \in AeRequests \cup {Context} :
              /\ v1[r] \in {"reading", "failed"}
              /\ v1' = [v1 EXCEPT ![r] = "failed"] \/ v1' = [v1 EXCEPT ![r] = "reading"]
    BY <1>6 DEF Ae!DoesNotAnswer, Ae!TryAgain, Ae!search
  <2>2. v1' \in [AeRequests \cup {Context} -> {"unread", "reading", "failed", "read"}]
    BY <1>t, <2>1
  <2>3. \A r \in AeRequests \cup {Context} : v1'[r] = v1[r] \/ {v1[r], v1'[r]} \subseteq {"reading", "failed"}
    BY <1>t, <2>1
  <2> QED
    BY <1>t, <2>1, <2>2, <2>3, NothingNewIsRead
<1>7. CASE \E l \in Ae!ToSet(Ae!Lenses) : Ae!PickLens(l)
  <2>1. UNCHANGED <<v1, v2, v12, v14, v9>> /\ v5' \in Ae!ToSet(Ae!Lenses) /\ v13' = FALSE
    BY <1>7 DEF Ae!PickLens, Ae!asked, Ae!search
  <2> QED
    BY <1>t, <2>1, NothingNewIsRead
<1>8. CASE Ae!TakeOffer
  <2>1. UNCHANGED <<v1, v2, v12, v14, v9, v13>> /\ Ae!Offer # "nothing"
        /\ v5' = IF Ae!Offer = "clear" THEN v5 ELSE Ae!Offer
    BY <1>8 DEF Ae!TakeOffer, Ae!asked, Ae!search
  <2>2. v5' \in Ae!ToSet(Ae!Lenses) /\ (v13' => v5' = v5)
    <3>1. CASE Ae!Offer = "clear"
      BY <1>t, <2>1, <3>1
    <3>2. CASE Ae!Offer # "clear"
      <4>1. Ae!Offer \in Ae!ToSet(Ae!Lenses) /\ v5 # "dependencies"
        BY <2>1, <3>2, WhatABlankMapOffers
      <4>2. ~v13
        BY <4>1 DEF Ae!IInv, Ae!TheMovedLensIsOwnedTo
      <4> QED
        BY <2>1, <3>2, <4>1, <4>2
    <3> QED
      BY <3>1, <3>2
  <2> QED
    BY <1>t, <2>1, <2>2, NothingNewIsRead
<1>9. CASE \E t \in Ae!Terms \cup {None} : Ae!Type(t)
  <2>1. UNCHANGED <<v1, v2, v5, v12, v13, v14>> /\ v9' \in Ae!Terms \cup {None}
    BY <1>9 DEF Ae!Type, Ae!asked
  <2> QED
    BY <1>t, <2>1, NothingNewIsRead
<1>10. CASE \/ \E n \in AeElements : Ae!Select(n)
            \/ \E k \in Ae!Kinds : Ae!ToggleKind(k)
            \/ \E by \in {-1, 1} : Ae!Step(by)
            \/ Ae!Deselect \/ Ae!SetPathStart \/ Ae!HideTests \/ Ae!PublicOnly \/ UNCHANGED Ae!vars
  <2>1. UNCHANGED <<v1, v2, v5, v9, v12, v13, v14>>
    BY <1>10 DEF Ae!Select, Ae!ToggleKind, Ae!Step, Ae!Deselect, Ae!SetPathStart, Ae!HideTests, Ae!PublicOnly,
       Ae!vars, Ae!asked, Ae!search
  <2> QED
    BY <1>t, <2>1, NothingNewIsRead
<1> QED
  BY <1>1, <1>2, <1>3, <1>4, <1>5, <1>6, <1>7, <1>8, <1>9, <1>10 DEF Ae!Next

\* What was asked for is drawn, and what a blank map offers draws.
LEMMA TheMapAnswers ==
    ASSUME Ae!ExplorerAssumption, Ae!IInv
    PROVE  Ae!NothingAskedForIsHidden /\ Ae!TheMovedLensIsOwnedTo /\ Ae!OffersDraw
<1>1. Ae!NothingAskedForIsHidden
  BY TheAskedIsDrawn DEF Ae!NothingAskedForIsHidden, Ae!OnScreen
<1>2. Ae!OffersDraw
  BY WhatABlankMapOffers DEF Ae!OffersDraw
<1> QED
  BY <1>1, <1>2 DEF Ae!IInv

(***************************************************************************)
(* The camera of the map                                                   *)
(***************************************************************************)
\* The kernel is asked first wherever there is something to place, and nothing is pressed.
LEMMA CameraInitially == ASSUME Ac!CameraAssumption, Ac!Init PROVE Ac!IInv
  BY DEF Ac!CameraAssumption, Ac!Init, Ac!IInv, Ac!TheKernelHasAnswered, Ac!ThePressIsRemembered, Ac!ClicksFollowTheirPress

\* One pointer is not two.
LEMMA OnePointer ==
    ASSUME NEW p
    PROVE  Ac!Cardinality({} \cup {p}) # 2
<1>1. Cardinality({p}) = 1 /\ {} \cup {p} = {p}
  BY FS_Singleton
<1>2. Ac!Cardinality({p}) = Cardinality({p})
  BY DEF Ac!Cardinality, Cardinality
<1> QED
  BY <1>1, <1>2

\* A step that places and asks for nothing leaves the kernel where it was.
LEMMA PlaceStays ==
    ASSUME Ac!TheKernelHasAnswered, v1 \in AcGraphs, UNCHANGED Ac!place
    PROVE  Ac!TheKernelHasAnswered' /\ v1' \in AcGraphs
  BY DEF Ac!TheKernelHasAnswered, Ac!place

\* And one that presses nothing leaves the press.
LEMMA PressStays ==
    ASSUME Ac!ThePressIsRemembered, Ac!ClicksFollowTheirPress, UNCHANGED Ac!hand
    PROVE  Ac!ThePressIsRemembered' /\ Ac!ClicksFollowTheirPress'
  BY DEF Ac!ThePressIsRemembered, Ac!ClicksFollowTheirPress, Ac!hand

\* Every step keeps the kernel's answer to the graph, and the press to its click.
LEMMA CameraPreserved ==
    ASSUME Ac!CameraAssumption, Ac!IInv, Ac!Next \/ UNCHANGED Ac!vars
    PROVE  Ac!IInv'
<1> USE DEF Ac!IInv
<1>0. v18' \in Nat
  <2>1. Ac!Acts => v18' \in Nat
    BY DEF Ac!Acts
  <2>2. CASE \E g \in AcGraphs : Ac!Redraw(g) \/ Ac!Placed(g) \/ Ac!Refused(g)
    BY <2>1, <2>2 DEF Ac!Redraw, Ac!Placed, Ac!Refused
  <2>3. CASE \E n \in Ac!Nodes \cup {None} : Ac!Select(n) \/ Ac!Click(n)
    BY <2>1, <2>3 DEF Ac!Select, Ac!Click
  <2>4. CASE \E p \in AcPointers : Ac!PressCard(p) \/ Ac!PressGround(p) \/ Ac!Move(p) \/ Ac!Release(p)
    BY <2>1, <2>4 DEF Ac!PressCard, Ac!PressGround, Ac!Move, Ac!Release
  <2>5. CASE \/ Ac!Zoom \/ Ac!Fit \/ Ac!CentreOn \/ Ac!ToggleFullscreen \/ Ac!BrowserFills \/ Ac!Escape
             \/ Ac!FramesFullscreen \/ Ac!NoClick \/ UNCHANGED Ac!vars
    BY <2>1, <2>5 DEF Ac!Zoom, Ac!Fit, Ac!CentreOn, Ac!ToggleFullscreen, Ac!BrowserFills, Ac!Escape,
       Ac!FramesFullscreen, Ac!NoClick, Ac!vars
  <2> QED
    BY <2>2, <2>3, <2>4, <2>5 DEF Ac!Next
<1>1. CASE \E g \in AcGraphs : Ac!Redraw(g)
  <2>1. v1' \in AcGraphs /\ Ac!TheKernelHasAnswered' /\ UNCHANGED Ac!hand
    BY <1>1 DEF Ac!Redraw, Ac!TheKernelHasAnswered
  <2> QED
    BY <1>0, <2>1, PressStays
<1>2. CASE \E g \in AcGraphs : Ac!Placed(g) \/ Ac!Refused(g)
  <2>1. v1' \in AcGraphs /\ Ac!TheKernelHasAnswered' /\ UNCHANGED Ac!hand
    BY <1>2 DEF Ac!Placed, Ac!Refused, Ac!TheKernelHasAnswered
  <2> QED
    BY <1>0, <2>1, PressStays
<1>3. CASE \E n \in Ac!Nodes \cup {None} : Ac!Select(n)
  <2>1. UNCHANGED Ac!place /\ UNCHANGED Ac!hand
    BY <1>3 DEF Ac!Select
  <2> QED
    BY <1>0, <2>1, PlaceStays, PressStays
<1>4. CASE \E n \in Ac!Nodes \cup {None} : Ac!Click(n)
  <2>1. UNCHANGED Ac!place /\ v16' = [on |-> None, moved |-> FALSE] /\ v17' = FALSE /\ v19' = v19 /\ v13' = v13 /\ v13 = {}
    BY <1>4 DEF Ac!Click, Ac!ThePressIsRemembered
  <2> QED
    BY <1>0, <2>1, PlaceStays DEF Ac!ThePressIsRemembered, Ac!ClicksFollowTheirPress
<1>5. CASE Ac!NoClick
  <2>1. UNCHANGED Ac!place /\ v16' = [on |-> None, moved |-> FALSE] /\ UNCHANGED <<v13, v17, v19>> /\ v13 = {}
    BY <1>5 DEF Ac!NoClick
  <2> QED
    BY <1>0, <2>1, PlaceStays DEF Ac!ThePressIsRemembered, Ac!ClicksFollowTheirPress
<1>6. ASSUME NEW p \in AcPointers, Ac!PressCard(p)
      PROVE  Ac!IInv'
  <2>1. UNCHANGED Ac!place /\ v16' = [on |-> "card", moved |-> FALSE] /\ v17' = FALSE /\ UNCHANGED <<v13, v19>> /\ v13 = {}
    BY <1>6 DEF Ac!PressCard
  <2> QED
    BY <1>0, <2>1, PlaceStays DEF Ac!ThePressIsRemembered, Ac!ClicksFollowTheirPress
<1>7. ASSUME NEW p \in AcPointers, Ac!PressGround(p)
      PROVE  Ac!IInv'
  <2>1. UNCHANGED Ac!place /\ v19' = v19 /\ v13' = v13 \cup {p} /\ v16.on # "card"
    BY <1>7 DEF Ac!PressGround
  <2>2. \/ v17' = TRUE /\ v16' = [v16 EXCEPT !.moved = TRUE] /\ v13 # {}
        \/ v17' = FALSE /\ v16' = [on |-> "ground", moved |-> FALSE]
    <3>1. v13 = {} => Ac!Cardinality(v13 \cup {p}) # 2
      BY OnePointer
    <3> QED
      BY <1>7, <3>1 DEF Ac!PressGround
  <2>3. CASE v17' = TRUE /\ v16' = [v16 EXCEPT !.moved = TRUE] /\ v13 # {}
    BY <1>0, <2>1, <2>3, PlaceStays DEF Ac!ThePressIsRemembered, Ac!ClicksFollowTheirPress
  <2>4. CASE v17' = FALSE /\ v16' = [on |-> "ground", moved |-> FALSE]
    BY <1>0, <2>1, <2>4, PlaceStays DEF Ac!ThePressIsRemembered, Ac!ClicksFollowTheirPress
  <2> QED
    BY <2>2, <2>3, <2>4
<1>8. CASE \E p \in AcPointers : Ac!Move(p)
  <2>1. UNCHANGED Ac!place /\ v17' = TRUE /\ v16' = [v16 EXCEPT !.moved = TRUE] /\ UNCHANGED <<v13, v19>>
    BY <1>8 DEF Ac!Move
  <2> QED
    BY <1>0, <2>1, PlaceStays DEF Ac!ThePressIsRemembered, Ac!ClicksFollowTheirPress
<1>9. CASE \E p \in AcPointers : Ac!Release(p)
  <2>1. UNCHANGED Ac!place /\ UNCHANGED <<v16, v17, v19>> /\ v13' \subseteq v13
    BY <1>9 DEF Ac!Release
  <2> QED
    BY <1>0, <2>1, PlaceStays DEF Ac!ThePressIsRemembered, Ac!ClicksFollowTheirPress
<1>10. CASE \/ Ac!Zoom \/ Ac!Fit \/ Ac!CentreOn \/ Ac!ToggleFullscreen \/ Ac!BrowserFills \/ Ac!Escape
            \/ Ac!FramesFullscreen \/ UNCHANGED Ac!vars
  <2>1. UNCHANGED Ac!place /\ UNCHANGED Ac!hand
    BY <1>10 DEF Ac!Zoom, Ac!Fit, Ac!CentreOn, Ac!ToggleFullscreen, Ac!BrowserFills, Ac!Escape,
       Ac!FramesFullscreen, Ac!vars, Ac!hand
  <2> QED
    BY <1>0, <2>1, PlaceStays, PressStays
<1> QED
  BY <1>1, <1>2, <1>3, <1>4, <1>5, <1>6, <1>7, <1>8, <1>9, <1>10 DEF Ac!Next

\* A camera the reader placed is fitted only to another graph, or with the screen.
LEMMA TheFrameIsKept ==
    ASSUME Ac!IInv, Ac!Next \/ UNCHANGED Ac!vars
    PROVE  Ac!TheReadersFrameIsKept
<1> SUFFICES ASSUME v6 = "reader", v7, v1' = v1, v18' = v18, v5' = v5
             PROVE  v6' # "fit" \/ v12
  BY DEF Ac!TheReadersFrameIsKept
<1>1. ~Ac!Acts
  BY DEF Ac!Acts, Ac!IInv
<1>2. CASE \E g \in AcGraphs : Ac!Redraw(g) \/ Ac!Placed(g) \/ Ac!Refused(g)
  BY <1>1, <1>2 DEF Ac!Redraw, Ac!Placed, Ac!Refused, Ac!Frames
<1>3. CASE \E n \in Ac!Nodes \cup {None} : Ac!Select(n) \/ Ac!Click(n)
  BY <1>1, <1>3 DEF Ac!Select, Ac!Click, Ac!Frames
<1>4. CASE \E p \in AcPointers : Ac!PressCard(p) \/ Ac!PressGround(p) \/ Ac!Move(p) \/ Ac!Release(p)
  BY <1>1, <1>4 DEF Ac!PressCard, Ac!PressGround, Ac!Move, Ac!Release
<1>5. CASE \/ Ac!Zoom \/ Ac!Fit \/ Ac!CentreOn \/ Ac!ToggleFullscreen \/ Ac!BrowserFills \/ Ac!Escape
           \/ Ac!FramesFullscreen \/ Ac!NoClick \/ UNCHANGED Ac!vars
  BY <1>1, <1>5 DEF Ac!Zoom, Ac!Fit, Ac!CentreOn, Ac!ToggleFullscreen, Ac!BrowserFills, Ac!Escape,
     Ac!FramesFullscreen, Ac!NoClick, Ac!vars
<1> QED
  BY <1>2, <1>3, <1>4, <1>5 DEF Ac!Next

\* The cards stand where the graph drawn puts them.
LEMMA TheMapIsSettled ==
    ASSUME Ac!CameraAssumption, Ac!IInv
    PROVE  Ac!SettledMapIsOfItsGraph
  BY DEF Ac!CameraAssumption, Ac!IInv, Ac!TheKernelHasAnswered, Ac!SettledMapIsOfItsGraph, Ac!Placement

(***************************************************************************)
(* The form of a round of questions                                        *)
(***************************************************************************)
\* The parts of the invariant.
LEMMA FormTyped ==
    ASSUME Rf!RoundFormAssumption, Rf!IInv
    PROVE  /\ v1 \in [RfQuestions -> Rf!AllValues] /\ v2 \in SUBSET RfQuestions /\ v5 \in SUBSET RfQuestions
           /\ Rf!Fingerprint \in Rf!Fingerprints /\ None \notin Rf!Fingerprints
           /\ None \notin [RfQuestions -> Rf!Outcomes] /\ None \notin RfQuestions
  BY DEF Rf!IInv, Rf!RoundFormAssumption, Rf!Fingerprint, Rf!Fingerprints

\* What is recorded of rows that were remembered can be on a record.
LEMMA RememberedIsAnOutcome ==
    ASSUME NEW f \in Rf!Fingerprints
    PROVE  [q \in RfQuestions |-> Rf!Remembered(f, q)] \in [RfQuestions -> Rf!Outcomes]
<1>1. f[1] \in [RfQuestions -> Rf!AllValues]
  BY DEF Rf!Fingerprints
<1>2. ASSUME NEW q \in RfQuestions
      PROVE  Rf!Remembered(f, q) \in Rf!Outcomes
  <2>1. f[1][q] \in Rf!AllValues
    BY <1>1
  <2> QED
    BY <2>1 DEF Rf!Remembered, Rf!Outcomes
<1> QED
  BY <1>2

\* The model's name is under a row just where its words are the model's.
LEMMA OutcomeIsOfTheForm ==
    ASSUME Rf!IInv, NEW q \in RfQuestions
    PROVE  Rf!Outcome(q) = Rf!Remembered(Rf!Fingerprint, q)
<1>1. Rf!Fingerprint[1] = v1 /\ Rf!Fingerprint[2] = v2
  BY DEF Rf!Fingerprint
<1>2. v1[q] = "draft" => q \in v4
  BY DEF Rf!IInv, Rf!DraftsAreMarked
<1> QED
  BY <1>1, <1>2 DEF Rf!Outcome, Rf!Remembered

\* And it says what the row does.
LEMMA OutcomeSaysTheSame ==
    ASSUME Rf!IInv, NEW q \in RfQuestions
    PROVE  Rf!SaysTheSame(Rf!Outcome(q), Rf!RoundRow(q))
<1>1. v1[q] = "draft" => q \in v4
  BY DEF Rf!IInv, Rf!DraftsAreMarked
<1>2. CASE q \in v2 \/ v1[q] = ""
  BY <1>2 DEF Rf!Outcome, Rf!RoundRow, Rf!StandingOf, Rf!SaysTheSame
<1>3. CASE q \notin v2 /\ v1[q] # ""
  BY <1>1, <1>3 DEF Rf!Outcome, Rf!RoundRow, Rf!StandingOf, Rf!SaysTheSame
<1> QED
  BY <1>2, <1>3

\* The same post in another state.
LEMMA PostMoved ==
    ASSUME NEW p \in Rf!Posts, NEW s \in {"sent", "taken", "refused", "refetching"}
    PROVE  /\ [p EXCEPT !.state = s] \in Rf!Posts /\ [p EXCEPT !.state = s].state = s
           /\ [p EXCEPT !.state = s].own = p.own /\ [p EXCEPT !.state = s].of = p.of
           /\ [p EXCEPT !.state = s].outcomes = p.outcomes /\ [p EXCEPT !.state = s].rows = p.rows
  BY DEF Rf!Posts

\* And one that is no card's any more.
LEMMA PostLeft ==
    ASSUME NEW p \in Rf!Posts
    PROVE  /\ [p EXCEPT !.own = FALSE] \in Rf!Posts /\ ~[p EXCEPT !.own = FALSE].own
           /\ [p EXCEPT !.own = FALSE].state = p.state /\ [p EXCEPT !.own = FALSE].of = p.of
           /\ [p EXCEPT !.own = FALSE].outcomes = p.outcomes /\ [p EXCEPT !.own = FALSE].rows = p.rows
  BY DEF Rf!Posts

\* Nothing is typed at first, and nothing is on its way.
LEMMA FormInitially ==
    ASSUME Rf!RoundFormAssumption, Rf!Init
    PROVE  Rf!IInv
<1>1. v1 = [q \in RfQuestions |-> ""] /\ v2 = {} /\ v5 = {} /\ v6 = None /\ v10 = {} /\ v12 = None /\ v15 = 0
  BY DEF Rf!Init, Rf!Remembers
<1>2. v1 \in [RfQuestions -> Rf!AllValues] /\ \A q \in RfQuestions : v1[q] \in Rf!Values(q)
  BY <1>1 DEF Rf!AllValues, Rf!Values
<1> QED
  BY <1>1, <1>2 DEF Rf!IInv, Rf!DraftsAreMarked, Rf!PostsAreOfTheirRows, Rf!RecordIsWhatTheRowsSaid

\* What the form itself may change: its rows, while no post of the card is out.
LEMMA FormKeeps ==
    ASSUME Rf!IInv, UNCHANGED <<v6, v9, v10, v12, v13, v15>>,
           ~Rf!Sent \/ UNCHANGED <<v1, v2>>,
           v1' \in [RfQuestions -> Rf!AllValues], \A q \in RfQuestions : v1'[q] \in Rf!Values(q),
           v2' \in SUBSET RfQuestions, v5' \in SUBSET RfQuestions, Rf!DraftsAreMarked'
    PROVE  Rf!IInv'
<1>1. ASSUME NEW p \in v10
      PROVE  Rf!OwnPost(p)'
  <2>1. Rf!OwnPost(p)
    BY DEF Rf!IInv, Rf!PostsAreOfTheirRows
  <2>2. p.own => Rf!Sent
    BY <2>1 DEF Rf!OwnPost, Rf!Sent
  <2> QED
    BY <2>1, <2>2 DEF Rf!OwnPost
<1>2. Rf!PostsAreOfTheirRows'
  BY <1>1 DEF Rf!IInv, Rf!PostsAreOfTheirRows
<1>3. Rf!RecordIsWhatTheRowsSaid'
  BY DEF Rf!IInv, Rf!RecordIsWhatTheRowsSaid
<1> QED
  BY <1>2, <1>3 DEF Rf!IInv

\* A row that is written over, and what marks the wording of the agent.
LEMMA RowWritten ==
    ASSUME Rf!IInv, NEW q \in RfQuestions, NEW w \in Rf!Values(q), v1' = [v1 EXCEPT ![q] = w],
           v4 \subseteq v4', w = "draft" => q \in v4'
    PROVE  /\ v1' \in [RfQuestions -> Rf!AllValues] /\ \A r \in RfQuestions : v1'[r] \in Rf!Values(r)
           /\ Rf!DraftsAreMarked' /\ v1'[q] = w /\ \A r \in RfQuestions \ {q} : v1'[r] = v1[r]
<1>1. v1 \in [RfQuestions -> Rf!AllValues] /\ w \in Rf!AllValues
  BY DEF Rf!IInv, Rf!AllValues
<1>2. v1' \in [RfQuestions -> Rf!AllValues] /\ v1'[q] = w /\ \A r \in RfQuestions \ {q} : v1'[r] = v1[r]
  BY <1>1
<1>3. \A r \in RfQuestions : v1'[r] \in Rf!Values(r)
  BY <1>2 DEF Rf!IInv
<1>4. Rf!DraftsAreMarked'
  BY <1>2 DEF Rf!IInv, Rf!DraftsAreMarked
<1> QED
  BY <1>2, <1>3, <1>4

\* The edits of a row.
LEMMA EditsKeep ==
    ASSUME Rf!RoundFormAssumption, Rf!IInv, NEW q \in RfQuestions,
           \/ \E option \in RfOptions[q] : Rf!Choose(q, option)
           \/ \E text \in {"", "words"} : Rf!Write(q, text)
           \/ Rf!ChooseOwn(q) \/ Rf!UseDraft(q) \/ Rf!ToggleSkip(q) \/ Rf!TypeQuestion(q)
    PROVE  Rf!IInv'
<1> USE DEF Rf!Edits
<1>1. /\ v2 \in SUBSET RfQuestions /\ v5 \in SUBSET RfQuestions
      /\ v1 \in [RfQuestions -> Rf!AllValues] /\ \A r \in RfQuestions : v1[r] \in Rf!Values(r)
      /\ Rf!DraftsAreMarked
  BY DEF Rf!IInv
<1>2. CASE \E option \in RfOptions[q] : Rf!Choose(q, option)
  <2>1. PICK option \in RfOptions[q] : Rf!Choose(q, option)
    BY <1>2
  <2>2. option \in Rf!Values(q) /\ option # "draft"
    BY DEF Rf!Values, Rf!RoundFormAssumption
  <2>3. v1' = [v1 EXCEPT ![q] = option] /\ v4' = v4 /\ UNCHANGED <<v2, v5, v6, v9, v10, v12, v13, v15>> /\ ~Rf!Sent
    BY <2>1 DEF Rf!Choose
  <2> QED
    BY <1>1, <2>2, <2>3, RowWritten, FormKeeps
<1>3. CASE \E text \in {"", "words"} : Rf!Write(q, text)
  <2>1. PICK text \in {"", "words"} : Rf!Write(q, text)
    BY <1>3
  <2>2. text \in Rf!Values(q) /\ text # "draft"
    BY DEF Rf!Values
  <2>3. v1' = [v1 EXCEPT ![q] = text] /\ v4' = v4 /\ UNCHANGED <<v2, v5, v6, v9, v10, v12, v13, v15>> /\ ~Rf!Sent
    BY <2>1 DEF Rf!Write
  <2> QED
    BY <1>1, <2>2, <2>3, RowWritten, FormKeeps
<1>4. CASE Rf!ChooseOwn(q)
  <2>1. "" \in Rf!Values(q)
    BY DEF Rf!Values
  <2>2. v1' = [v1 EXCEPT ![q] = ""] /\ v4' = v4 /\ UNCHANGED <<v2, v5, v6, v9, v10, v12, v13, v15>> /\ ~Rf!Sent
    BY <1>4 DEF Rf!ChooseOwn
  <2> QED
    BY <1>1, <2>1, <2>2, RowWritten, FormKeeps
<1>5. CASE Rf!UseDraft(q)
  <2>1. "draft" \in Rf!Values(q)
    BY DEF Rf!Values
  <2>2. /\ v1' = [v1 EXCEPT ![q] = "draft"] /\ v4' = v4 \cup {q} /\ v2' = v2 \ {q}
        /\ UNCHANGED <<v5, v6, v9, v10, v12, v13, v15>> /\ ~Rf!Sent
    BY <1>5 DEF Rf!UseDraft
  <2> QED
    BY <1>1, <2>1, <2>2, RowWritten, FormKeeps
<1>6. CASE Rf!ToggleSkip(q)
  <2>1. UNCHANGED <<v1, v4, v5, v6, v9, v10, v12, v13, v15>> /\ ~Rf!Sent /\ v2' \in SUBSET RfQuestions
    BY <1>1, <1>6 DEF Rf!ToggleSkip
  <2> QED
    BY <1>1, <2>1, FormKeeps DEF Rf!DraftsAreMarked
<1>7. CASE Rf!TypeQuestion(q)
  <2>1. UNCHANGED <<v1, v2, v4, v6, v9, v10, v12, v13, v15>> /\ v5' \in SUBSET RfQuestions
    BY <1>1, <1>7 DEF Rf!TypeQuestion
  <2> QED
    BY <1>1, <2>1, FormKeeps DEF Rf!DraftsAreMarked
<1> QED
  BY <1>2, <1>3, <1>4, <1>5, <1>6, <1>7

\* What a step that leaves the form alone has to show of the posts and the record.
LEMMA RestOfFormKeeps ==
    ASSUME Rf!IInv, UNCHANGED <<v1, v2, v4, v5>>, v15' \in Nat, v10' \subseteq Rf!Posts, Rf!PostsAreOfTheirRows',
           v6' # None => v6' \in Rf!Fingerprints /\ v12' = [q \in RfQuestions |-> Rf!Remembered(v6', q)],
           Rf!RecordIsWhatTheRowsSaid'
    PROVE  Rf!IInv'
  BY DEF Rf!IInv, Rf!DraftsAreMarked

\* A post that is sent says what the rows do, and is the card's only one.
LEMMA SubmitKeeps ==
    ASSUME Rf!RoundFormAssumption, Rf!IInv, NEW stop \in BOOLEAN, Rf!Submit(stop)
    PROVE  Rf!IInv'
<1> DEFINE o == [q \in RfQuestions |-> Rf!Outcome(q)]
           w == [q \in RfQuestions |-> Rf!RoundRow(q)]
           p == [n |-> v15', stop |-> stop, state |-> "sent", own |-> TRUE,
                 outcomes |-> o, rows |-> w, of |-> Rf!Fingerprint]
<1>1. v10' = v10 \cup {p} /\ v9' = "pending" /\ UNCHANGED <<v1, v2, v4, v5, v6, v12, v13>> /\ ~Rf!Sent /\ v15' = v15 + 1
  BY DEF Rf!Submit, Rf!typed
<1>2. o = [q \in RfQuestions |-> Rf!Remembered(Rf!Fingerprint, q)]
  BY OutcomeIsOfTheForm
<1>3. o \in [RfQuestions -> Rf!Outcomes]
  BY <1>2, FormTyped, RememberedIsAnOutcome
<1>4. \A q \in RfQuestions : Rf!SaysTheSame(o[q], w[q])
  BY OutcomeSaysTheSame
<1>5. w \in [RfQuestions -> [standing : {"skipped", "answered", "open"}, answer : Rf!AllValues \cup {""}]]
  BY FormTyped DEF Rf!RoundRow, Rf!StandingOf
<1>6. v15' \in Nat
  BY <1>1 DEF Rf!IInv
<1> HIDE DEF o, w
<1>7. p \in Rf!Posts
  BY <1>3, <1>5, <1>6, FormTyped DEF Rf!Posts
<1>8. p.own /\ p.state = "sent" /\ p.of = Rf!Fingerprint /\ p.outcomes = o /\ p.rows = w
  OBVIOUS
<1> HIDE DEF p
<1>9. \A r \in v10 : ~r.own
  <2> SUFFICES ASSUME NEW r \in v10, r.own
               PROVE  FALSE
    OBVIOUS
  <2>1. Rf!OwnPost(r)
    BY DEF Rf!IInv, Rf!PostsAreOfTheirRows
  <2> QED
    BY <1>1, <2>1 DEF Rf!OwnPost, Rf!Sent
<1>10. \A r \in v10' : Rf!OwnPost(r)'
  <2>1. Rf!Fingerprint[1] = v1 /\ Rf!Fingerprint[2] = v2
    BY DEF Rf!Fingerprint
  <2> QED
    BY <1>1, <1>8, <1>9, <2>1 DEF Rf!OwnPost
<1>11. Rf!PostsAreOfTheirRows'
  BY <1>1, <1>2, <1>4, <1>8, <1>10 DEF Rf!IInv, Rf!PostsAreOfTheirRows
<1>12. Rf!RecordIsWhatTheRowsSaid'
  BY <1>1 DEF Rf!IInv, Rf!RecordIsWhatTheRowsSaid
<1> QED
  BY <1>1, <1>6, <1>7, <1>11, <1>12, RestOfFormKeeps DEF Rf!IInv

\* A post that moves on, and whatever that does to the record and to what is remembered of it.
LEMMA MovesKeep ==
    ASSUME Rf!IInv, NEW p \in v10, NEW s \in {"taken", "refused", "refetching"},
           v10' = (v10 \ {p}) \cup {[p EXCEPT !.state = s]}, p.state # "refetching",
           UNCHANGED <<v1, v2, v4, v5, v15>>,
           v9' = IF p.own /\ s = "refetching" THEN "done" ELSE v9,
           s \in {"taken", "refetching"} => v12' = p.outcomes,
           \A r \in v10 : r.state \in {"taken", "refetching"} => v12' = r.outcomes,
           v6' # None => v6' \in Rf!Fingerprints /\ v12' = [q \in RfQuestions |-> Rf!Remembered(v6', q)],
           Rf!RecordIsWhatTheRowsSaid'
    PROVE  Rf!IInv'
<1> DEFINE m == [p EXCEPT !.state = s]
<1>1. p \in Rf!Posts /\ Rf!OwnPost(p) /\ \A r \in v10 : Rf!OwnPost(r)
  BY DEF Rf!IInv, Rf!PostsAreOfTheirRows
<1>2. m \in Rf!Posts /\ m.state = s /\ m.own = p.own /\ m.of = p.of /\ m.outcomes = p.outcomes /\ m.rows = p.rows
  <2>1. s \in {"sent", "taken", "refused", "refetching"}
    OBVIOUS
  <2> HIDE DEF m
  <2> QED
    BY <1>1, <2>1, PostMoved, Zenon DEF m
<1> HIDE DEF m
<1>3. Rf!OwnPost(m)'
  BY <1>1, <1>2 DEF Rf!OwnPost, m
<1>4. ASSUME NEW r \in v10 \ {p}
      PROVE  Rf!OwnPost(r)'
  BY <1>1, <1>2, <1>4 DEF Rf!OwnPost, m
<1>5. v10' = (v10 \ {p}) \cup {m}
  BY DEF m
<1>6. Rf!PostsAreOfTheirRows'
  BY <1>2, <1>3, <1>4, <1>5 DEF Rf!IInv, Rf!PostsAreOfTheirRows
<1>7. v10' \subseteq Rf!Posts /\ v15' \in Nat
  BY <1>2, <1>5 DEF Rf!IInv
<1> QED
  BY <1>6, <1>7, RestOfFormKeeps

\* The server takes the first round it is sent.
LEMMA RoundTakenKeeps ==
    ASSUME Rf!RoundFormAssumption, Rf!IInv, NEW p \in v10, Rf!Takes(p)
    PROVE  Rf!IInv'
<1>1. p.state = "sent" /\ UNCHANGED <<v1, v2, v4, v5, v6, v9, v15>>
  BY DEF Rf!Takes, Rf!typed
<1>2. CASE v12 = None /\ v12' = p.outcomes /\ v13' = p.rows /\ Rf!Moves(p, "taken")
  <2>1. \A f \in Rf!Fingerprints : [q \in RfQuestions |-> Rf!Remembered(f, q)] # None
    BY FormTyped, RememberedIsAnOutcome
  <2>2. v6 = None
    BY <1>2, <2>1 DEF Rf!IInv
  <2>3. \A r \in v10 : r \in Rf!Posts /\ r.outcomes # None
    BY FormTyped DEF Rf!IInv, Rf!Posts
  <2>4. \A r \in v10 : r.state \notin {"taken", "refetching"}
    BY <1>2, <2>3 DEF Rf!IInv, Rf!PostsAreOfTheirRows
  <2>5. Rf!RecordIsWhatTheRowsSaid'
    BY <1>2 DEF Rf!IInv, Rf!PostsAreOfTheirRows, Rf!SaysTheSame, Rf!RecordIsWhatTheRowsSaid
  <2> QED
    BY <1>1, <1>2, <2>2, <2>4, <2>5, MovesKeep DEF Rf!Moves
<1>3. CASE Rf!Moves(p, "refused") /\ UNCHANGED <<v12, v13>>
  <2>1. Rf!RecordIsWhatTheRowsSaid'
    BY <1>3 DEF Rf!IInv, Rf!RecordIsWhatTheRowsSaid
  <2>2. \A r \in v10 : r.state \in {"taken", "refetching"} => v12' = r.outcomes
    BY <1>3 DEF Rf!IInv, Rf!PostsAreOfTheirRows
  <2> QED
    BY <1>1, <1>3, <2>1, <2>2, MovesKeep DEF Rf!Moves, Rf!IInv
<1>4. \/ v12 = None /\ v12' = p.outcomes /\ v13' = p.rows /\ Rf!Moves(p, "taken")
      \/ Rf!Moves(p, "refused") /\ UNCHANGED <<v12, v13>>
  BY Zenon DEF Rf!Takes
<1> QED
  BY <1>2, <1>3, <1>4

\* What is remembered as filed is what the server took.
LEMMA PostSucceedsKeeps ==
    ASSUME Rf!RoundFormAssumption, Rf!IInv, NEW p \in v10, Rf!Succeeds(p)
    PROVE  Rf!IInv'
<1>1. /\ p.state = "taken" /\ UNCHANGED <<v1, v2, v4, v5, v12, v13, v15>>
      /\ v6' = (IF p.own THEN Rf!Fingerprint ELSE p.of) /\ v9' = (IF p.own THEN "done" ELSE v9)
      /\ v10' = (v10 \ {p}) \cup {[p EXCEPT !.state = "refetching"]}
  BY DEF Rf!Succeeds, Rf!typed
<1>2. /\ p \in Rf!Posts /\ v12 = p.outcomes /\ p.outcomes = [q \in RfQuestions |-> Rf!Remembered(p.of, q)]
      /\ p.own => p.of[1] = v1 /\ p.of[2] = v2
  BY <1>1 DEF Rf!IInv, Rf!PostsAreOfTheirRows, Rf!OwnPost
<1>3. v6' \in Rf!Fingerprints /\ (v6'[1] = p.of[1] /\ v6'[2] = p.of[2])
  <2>1. CASE p.own
    BY <1>1, <1>2, <2>1, FormTyped DEF Rf!Fingerprint
  <2>2. CASE ~p.own
    BY <1>1, <1>2, <2>2 DEF Rf!Posts
  <2> QED
    BY <2>1, <2>2
<1>4. v12' = [q \in RfQuestions |-> Rf!Remembered(v6', q)]
  BY <1>1, <1>2, <1>3 DEF Rf!Remembered
<1>5. Rf!RecordIsWhatTheRowsSaid'
  BY <1>1 DEF Rf!IInv, Rf!RecordIsWhatTheRowsSaid
<1>6. \A r \in v10 : r.state \in {"taken", "refetching"} => v12' = r.outcomes
  BY <1>1 DEF Rf!IInv, Rf!PostsAreOfTheirRows
<1> QED
  BY <1>1, <1>2, <1>3, <1>4, <1>5, <1>6, MovesKeep

\* A post that is over, or that no card waits for any more.
LEMMA FewerKeep ==
    ASSUME Rf!IInv, UNCHANGED <<v1, v2, v4, v5, v6, v12, v13, v15>>,
           \A r \in v10' : \/ r \in v10 /\ (r.own => v9' = v9)
                           \/ \E p \in v10 : r = [p EXCEPT !.own = FALSE]
    PROVE  Rf!IInv'
<1>1. \A p \in v10 : p \in Rf!Posts /\ Rf!OwnPost(p)
  BY DEF Rf!IInv, Rf!PostsAreOfTheirRows
<1>2. ASSUME NEW r \in v10', r.own
      PROVE  r \in v10 /\ v9' = v9
  BY <1>1, <1>2, PostLeft
<1>3. ASSUME NEW r \in v10'
      PROVE  Rf!OwnPost(r)'
  BY <1>1, <1>2 DEF Rf!OwnPost
<1>4. ASSUME NEW r \in v10'
      PROVE  \E p \in v10 : /\ r \in Rf!Posts /\ r.state = p.state /\ r.of = p.of
                            /\ r.outcomes = p.outcomes /\ r.rows = p.rows
  <2>1. CASE r \in v10
    BY <1>1, <2>1
  <2>2. ASSUME NEW p \in v10, r = [p EXCEPT !.own = FALSE]
        PROVE  r \in Rf!Posts /\ r.state = p.state /\ r.of = p.of /\ r.outcomes = p.outcomes /\ r.rows = p.rows
    BY <1>1, <2>2, PostLeft
  <2> QED
    BY <2>1, <2>2
<1>5. Rf!PostsAreOfTheirRows'
  BY <1>3, <1>4 DEF Rf!IInv, Rf!PostsAreOfTheirRows
<1>6. Rf!RecordIsWhatTheRowsSaid'
  BY DEF Rf!IInv, Rf!RecordIsWhatTheRowsSaid
<1>7. v10' \subseteq Rf!Posts /\ v15' \in Nat
  BY <1>4 DEF Rf!IInv
<1> QED
  BY <1>5, <1>6, <1>7, RestOfFormKeeps DEF Rf!IInv

\* Every step keeps the posts of their rows and the record of what was posted.
LEMMA FormPreserved ==
    ASSUME Rf!RoundFormAssumption, Rf!IInv, Rf!Next \/ UNCHANGED Rf!vars
    PROVE  Rf!IInv'
<1>1. /\ v2 \in SUBSET RfQuestions /\ v5 \in SUBSET RfQuestions
      /\ v1 \in [RfQuestions -> Rf!AllValues] /\ \A r \in RfQuestions : v1[r] \in Rf!Values(r)
      /\ Rf!DraftsAreMarked
  BY DEF Rf!IInv
<1>2. ASSUME NEW q \in RfQuestions, Rf!QuestionAnswered(q) \/ Rf!OpenRow(q)
      PROVE  Rf!IInv'
  <2>1. UNCHANGED <<v1, v2, v4, v6, v9, v10, v12, v13, v15>> /\ v5' \in SUBSET RfQuestions
    BY <1>1, <1>2 DEF Rf!QuestionAnswered, Rf!OpenRow, Rf!typed
  <2> QED
    BY <1>1, <2>1, FormKeeps DEF Rf!DraftsAreMarked
<1>3. ASSUME NEW p \in v10, Rf!Fails(p)
      PROVE  Rf!IInv'
  <2>1. /\ v10' = v10 \ {p} /\ v9' = (IF p.own THEN "failed" ELSE v9)
        /\ UNCHANGED <<v1, v2, v4, v5, v6, v12, v13, v15>>
    BY <1>3 DEF Rf!Fails, Rf!typed
  <2>2. p.own => \A r \in v10' : ~r.own
    BY <2>1 DEF Rf!IInv, Rf!PostsAreOfTheirRows, Rf!OwnPost
  <2> QED
    BY <2>1, <2>2, FewerKeep
<1>4. ASSUME NEW p \in v10, Rf!Refreshes(p)
      PROVE  Rf!IInv'
  <2>1. /\ v10' = {IF r.own THEN [r EXCEPT !.own = FALSE] ELSE r : r \in v10 \ {p}}
        /\ UNCHANGED <<v1, v2, v4, v5, v6, v12, v13, v15>>
    BY <1>4 DEF Rf!Refreshes, Rf!typed
  <2>2. \A r \in v10' : (r \in v10 /\ ~r.own) \/ \E x \in v10 : r = [x EXCEPT !.own = FALSE]
    BY <2>1
  <2> QED
    BY <2>1, <2>2, FewerKeep
<1>5. CASE Rf!Leave
  <2>1. /\ v10' = {[p EXCEPT !.own = FALSE] : p \in v10} /\ UNCHANGED <<v1, v2, v4, v5, v6, v12, v13, v15>>
    BY <1>5 DEF Rf!Leave, Rf!typed
  <2> QED
    BY <2>1, FewerKeep
<1>6. CASE Rf!Return \/ UNCHANGED Rf!vars
  <2>1. UNCHANGED <<v1, v2, v4, v5, v6, v9, v10, v12, v13, v15>>
    BY <1>6 DEF Rf!Return, Rf!typed, Rf!vars
  <2> QED
    BY <1>1, <2>1, FormKeeps DEF Rf!DraftsAreMarked
<1>7. CASE \E q \in RfQuestions :
          \/ \E option \in RfOptions[q] : Rf!Choose(q, option)
          \/ \E text \in {"", "words"} : Rf!Write(q, text)
          \/ Rf!ChooseOwn(q) \/ Rf!UseDraft(q) \/ Rf!ToggleSkip(q) \/ Rf!TypeQuestion(q)
  BY <1>7, EditsKeep
<1>8. CASE \E stop \in BOOLEAN : Rf!Submit(stop)
  BY <1>8, SubmitKeeps
<1>9. ASSUME NEW p \in v10, Rf!Takes(p) \/ Rf!Succeeds(p)
      PROVE  Rf!IInv'
  <2>1. CASE Rf!Takes(p)
    BY <2>1, RoundTakenKeeps
  <2>2. CASE Rf!Succeeds(p)
    BY <2>2, PostSucceedsKeeps
  <2> QED
    BY <1>9, <2>1, <2>2
<1> QED
  BY <1>2, <1>3, <1>4, <1>5, <1>6, <1>7, <1>8, <1>9, Zenon DEF Rf!Next

\* What the page can be left without a word over is on the record.
LEMMA FiledIsRecorded ==
    ASSUME Rf!RoundFormAssumption, Rf!IInv
    PROVE  Rf!UnguardedAnswersAreRecorded
<1> SUFFICES ASSUME Rf!Fingerprint = v6
             PROVE  v12 # None /\ \A q \in RfQuestions : v12[q] = Rf!Outcome(q)
  BY DEF Rf!UnguardedAnswersAreRecorded, Rf!Guarded
<1>1. v6 # None
  BY FormTyped
<1>2. v6 \in Rf!Fingerprints /\ v12 = [q \in RfQuestions |-> Rf!Remembered(v6, q)]
  BY <1>1 DEF Rf!IInv
<1>3. v12 # None
  BY <1>2, FormTyped, RememberedIsAnOutcome
<1> QED
  BY <1>2, <1>3, OutcomeIsOfTheForm

\* The next row that is left is one of those that are.
LEMMA TheNextIsOfThoseLeft ==
    ASSUME Rf!RoundFormAssumption, NEW q, Rf!OpenNextAfter(q)
    PROVE  v7' \in Rf!Unresolved \ {q} \/ Rf!Unresolved \ {q} = {}
<1> DEFINE left == Rf!Unresolved \ {q}
           after == {r \in left : r > q}
<1>1. left \in SUBSET Nat /\ after \in SUBSET left
  <2>1. RfQuestions = 1 .. Cardinality(RfQuestions) /\ IsFiniteSet(RfQuestions)
    BY DEF Rf!RoundFormAssumption, Rf!Cardinality, Cardinality, Rf!IsFiniteSet, IsFiniteSet
  <2>2. Cardinality(RfQuestions) \in Nat
    BY <2>1, FS_CardinalityType
  <2>3. RfQuestions \subseteq Nat
    BY <2>1, <2>2
  <2> QED
    BY <2>3 DEF Rf!Unresolved
<1>2. \A S \in SUBSET left : S # {} => Rf!Min(S) \in S
  <2> HIDE DEF left
  <2>1. ASSUME NEW S \in SUBSET left, S # {}
        PROVE  Rf!Min(S) \in S
    <3>1. S \in SUBSET Nat
      BY <1>1
    <3>2. PICK m \in S : \A n \in S : m <= n
      BY <2>1, <3>1, LeastNumber
    <3> QED
      BY <3>2 DEF Rf!Min
  <2> QED
    BY <2>1
<1>3. v7' = IF after # {} THEN Rf!Min(after) ELSE IF left # {} THEN Rf!Min(left) ELSE q
  BY DEF Rf!OpenNextAfter
<1> HIDE DEF left, after
<1>4. v7' \in left \/ left = {}
  BY <1>1, <1>2, <1>3
<1> QED
  BY <1>4 DEF left

\* Choosing an answer or skipping hands the reader a row that is not settled, while there is one.
LEMMA TheRoundMovesOn ==
    ASSUME Rf!RoundFormAssumption, Rf!IInv, [Rf!Next]_(Rf!vars)
    PROVE  Rf!TheRoundMovesToWhatIsLeft
<1>1. SUFFICES ASSUME NEW q \in RfQuestions,
                      \/ q \in v2' \ v2
                      \/ v1'[q] # v1[q] /\ v1'[q] \in RfOptions[q]
               PROVE  Rf!Open' \in Rf!Unresolved' \/ Rf!Unresolved' = {}
  BY DEF Rf!TheRoundMovesToWhatIsLeft
<1>2. None \notin RfQuestions /\ RfOptions[q] \cap {"", "words", "draft"} = {}
  BY DEF Rf!RoundFormAssumption
<1>3. v1 \in [RfQuestions -> Rf!AllValues]
  BY DEF Rf!IInv
<1>4. CASE \E option \in RfOptions[q] : Rf!Choose(q, option)
  <2>1. PICK option \in RfOptions[q] : Rf!Choose(q, option)
    BY <1>4
  <2>2. v1' = [v1 EXCEPT ![q] = option] /\ v2' = v2 /\ Rf!OpenNextAfter(q) /\ option # ""
    BY <1>2, <2>1 DEF Rf!Choose
  <2>3. Rf!Unresolved' = Rf!Unresolved \ {q}
    BY <1>3, <2>2 DEF Rf!Unresolved, Rf!IsResolved
  <2>4. v7' \in Rf!Unresolved' \/ Rf!Unresolved' = {}
    BY <2>2, <2>3, TheNextIsOfThoseLeft
  <2> QED
    BY <1>2, <2>4 DEF Rf!Open, Rf!Unresolved
<1>5. CASE Rf!ToggleSkip(q) /\ q \notin v2
  <2>1. v2' = v2 \cup {q} /\ v1' = v1 /\ Rf!OpenNextAfter(q)
    BY <1>5 DEF Rf!ToggleSkip
  <2>2. Rf!Unresolved' = Rf!Unresolved \ {q}
    BY <2>1 DEF Rf!Unresolved, Rf!IsResolved
  <2>3. v7' \in Rf!Unresolved' \/ Rf!Unresolved' = {}
    BY <2>1, <2>2, TheNextIsOfThoseLeft
  <2> QED
    BY <1>2, <2>3 DEF Rf!Open, Rf!Unresolved
<1>6. ASSUME NEW r \in RfQuestions,
             \/ \E option \in RfOptions[r] : Rf!Choose(r, option)
             \/ \E text \in {"", "words"} : Rf!Write(r, text)
             \/ Rf!ChooseOwn(r) \/ Rf!UseDraft(r) \/ Rf!ToggleSkip(r) \/ Rf!TypeQuestion(r)
      PROVE  \/ \E option \in RfOptions[q] : Rf!Choose(q, option)
             \/ Rf!ToggleSkip(q) /\ q \notin v2
  <2>1. CASE \E option \in RfOptions[r] : Rf!Choose(r, option)
    <3>1. r = q
      BY <1>1, <1>3, <2>1 DEF Rf!Choose
    <3> QED
      BY <2>1, <3>1
  <2>2. CASE \E text \in {"", "words"} : Rf!Write(r, text)
    BY <1>1, <1>2, <1>3, <2>2 DEF Rf!Write
  <2>3. CASE Rf!ChooseOwn(r)
    BY <1>1, <1>2, <1>3, <2>3 DEF Rf!ChooseOwn
  <2>4. CASE Rf!UseDraft(r)
    BY <1>1, <1>2, <1>3, <2>4 DEF Rf!UseDraft
  <2>5. CASE Rf!ToggleSkip(r)
    <3>1. r = q /\ q \notin v2
      BY <1>1, <2>5 DEF Rf!ToggleSkip
    <3> QED
      BY <2>5, <3>1
  <2>6. CASE Rf!TypeQuestion(r)
    BY <1>1, <2>6 DEF Rf!TypeQuestion
  <2> QED
    BY <1>6, <2>1, <2>2, <2>3, <2>4, <2>5, <2>6
<1>7. CASE \/ UNCHANGED Rf!vars
           \/ \E r \in RfQuestions : Rf!QuestionAnswered(r) \/ Rf!OpenRow(r)
           \/ \E stop \in BOOLEAN : Rf!Submit(stop)
           \/ \E p \in v10 : Rf!Takes(p) \/ Rf!Succeeds(p) \/ Rf!Fails(p) \/ Rf!Refreshes(p)
           \/ Rf!Leave \/ Rf!Return
  <2>1. v1' = v1 /\ v2' = v2
    BY <1>7 DEF Rf!vars, Rf!typed, Rf!QuestionAnswered, Rf!OpenRow, Rf!Submit, Rf!Takes, Rf!Succeeds, Rf!Fails,
                Rf!Refreshes, Rf!Leave, Rf!Return
  <2> QED
    BY <1>1, <2>1
<1> QED
  BY <1>4, <1>5, <1>6, <1>7 DEF Rf!Next

(***************************************************************************)
(* One finding, opened                                                     *)
(***************************************************************************)
\* The drawer opens on what is recorded, with nothing searched.
LEMMA PanelInitially ==
    ASSUME Fp!Init
    PROVE  Fp!IInv
<1>1. /\ v5 = FALSE /\ v8 = None
      /\ \A c \in FpCandidates :
            /\ v2[c] \in Fp!Retrievals /\ v3[c] \in Fp!Investigations /\ v1[c] \in 0 .. 1
            /\ v2[c] # None => v1[c] <= v2[c].selected
  BY DEF Fp!Init
<1> QED
  BY <1>1 DEF Fp!IInv, Fp!Shown

\* A search of a candidate, or of words, is of what the drawer is open on.
LEMMA RemadeForIts ==
    ASSUME NEW c, c = v4', Fp!Remake(c), v5' /\ v6' = "structure"
    PROVE  /\ v7' \in {None, v4', "words"}
           /\ v8' # None => Fp!Shown' /\ v8' \in [of : {v4', "words"}, state : {"pending", "nodes", "no node", "failed"}]
<1>1. CASE c = None
  BY <1>1 DEF Fp!Remake
<1>2. CASE c # None
  <2>1. v7' = c /\ v8' = [of |-> c, state |-> "pending"]
    BY <1>2 DEF Fp!Remake, Fp!Searching
  <2> QED
    BY <2>1 DEF Fp!Shown
<1> QED
  BY <1>1, <1>2

\* Every step of the panel keeps it so.
LEMMA PanelPreserved ==
    ASSUME Fp!IInv, Fp!Next \/ UNCHANGED Fp!vars
    PROVE  Fp!IInv'
<1> DEFINE States == {"pending", "nodes", "no node", "failed"}
           QueryIsIts == v7 \in {None, v4, "words"} \/ ~Fp!Shown
           SearchIsIts == v8 # None => Fp!Shown /\ v8 \in [of : {v4, "words"}, state : States]
<1>1. UNCHANGED <<v1, v2, v3>>
  BY DEF Fp!Next, Fp!vars, Fp!record, Fp!OpenContext, Fp!CloseContext, Fp!Search, Fp!PickTab, Fp!OpenRow, Fp!TypeQuery,
         Fp!Arrives
<1>2. QueryIsIts /\ SearchIsIts
  BY DEF Fp!IInv
<1>3. QueryIsIts' /\ SearchIsIts'
  <2>1. CASE Fp!OpenContext
    <3>1. UNCHANGED <<v4, v6>> /\ v5' = TRUE /\ ~v5
      BY <2>1 DEF Fp!OpenContext
    <3>2. CASE v6 = "structure"
      BY <2>1, <3>1, <3>2, RemadeForIts DEF Fp!OpenContext
    <3>3. CASE v6 # "structure"
      BY <1>2, <2>1, <3>1, <3>3 DEF Fp!OpenContext, Fp!Shown
    <3> QED
      BY <3>2, <3>3
  <2>2. CASE Fp!CloseContext
    BY <2>2 DEF Fp!CloseContext
  <2>3. ASSUME NEW t \in Fp!Tabs, Fp!PickTab(t)
        PROVE  QueryIsIts' /\ SearchIsIts'
    <3>1. UNCHANGED <<v4, v5>> /\ v6' = t /\ v5
      BY <2>3 DEF Fp!PickTab
    <3>2. CASE t = "structure"
      <4>1. Fp!Remake(v4)
        BY <2>3, <3>2, Zenon DEF Fp!PickTab
      <4> QED
        BY <3>1, <3>2, <4>1, RemadeForIts
    <3>3. CASE t # "structure"
      BY <2>3, <3>1, <3>3 DEF Fp!PickTab
    <3> QED
      BY <3>2, <3>3
  <2>4. ASSUME NEW c, Fp!OpenRow(c)
        PROVE  QueryIsIts' /\ SearchIsIts'
    <3>1. UNCHANGED <<v5, v6>> /\ v4' = c
      BY <2>4 DEF Fp!OpenRow
    <3>2. CASE Fp!Shown
      BY <2>4, <3>1, <3>2, RemadeForIts DEF Fp!OpenRow, Fp!Shown
    <3>3. CASE ~Fp!Shown
      <4>1. UNCHANGED <<v7, v8>>
        BY <2>4, <3>3 DEF Fp!OpenRow
      <4> QED
        BY <1>2, <3>1, <3>3, <4>1 DEF Fp!Shown
    <3> QED
      BY <3>2, <3>3
  <2>5. ASSUME NEW w \in {None, "words"}, Fp!TypeQuery(w)
        PROVE  QueryIsIts' /\ SearchIsIts'
    BY <1>2, <2>5 DEF Fp!TypeQuery, Fp!Shown
  <2>6. CASE Fp!Search
    BY <1>2, <2>6 DEF Fp!Search, Fp!Searching, Fp!Shown
  <2>7. ASSUME NEW k, Fp!Arrives(k)
        PROVE  QueryIsIts' /\ SearchIsIts'
    <3>1. UNCHANGED <<v4, v5, v6, v7>> /\ (v8' = v8 \/ (v8 # None /\ \E s \in States : v8' = [v8 EXCEPT !.state = s]))
      BY <2>7 DEF Fp!Arrives
    <3> QED
      BY <1>2, <3>1 DEF Fp!Shown
  <2>8. CASE UNCHANGED Fp!vars
    BY <1>2, <2>8 DEF Fp!vars, Fp!Shown
  <2> HIDE DEF QueryIsIts, SearchIsIts
  <2> QED
    BY <2>1, <2>2, <2>3, <2>4, <2>5, <2>6, <2>7, <2>8 DEF Fp!Next
<1> QED
  BY <1>1, <1>3 DEF Fp!IInv

\* So the structure shown is the open candidate's, and each closed line says what its fold holds.
LEMMA ThePanelTells ==
    ASSUME Fp!IInv
    PROVE  Fp!StructureIsOfTheCandidate /\ Fp!ClosedLinesAreTrue
<1>1. Fp!StructureIsOfTheCandidate
  BY DEF Fp!IInv, Fp!StructureIsOfTheCandidate
<1>2. ASSUME NEW c \in FpCandidates
      PROVE  LET line == Fp!PoliciesSummary(c)
             IN  /\ line.n = Fp!Policies(c).bearing /\ line.of = Fp!Policies(c).found
                 /\ line.says = "searched, and nothing came back" => v2[c].corpus = "some"
                 /\ line.says = "no corpus" <=> v2[c] # None /\ v2[c].corpus = "empty"
  <2>1. v2[c] \in Fp!Retrievals /\ v1[c] \in 0 .. 1 /\ (v2[c] # None => v1[c] <= v2[c].selected)
    BY DEF Fp!IInv
  <2>2. CASE v2[c] = None
    BY <2>1, <2>2 DEF Fp!PoliciesSummary, Fp!Policies, Fp!Line
  <2>3. CASE v2[c] # None
    <3>1. /\ v2[c].selected \in 0 .. 2 /\ v2[c].corpus \in {"empty", "some"}
          /\ v2[c].corpus = "empty" => v2[c].selected = 0
      BY <2>1, <2>3 DEF Fp!Retrievals
    <3> QED
      BY <2>1, <2>3, <3>1 DEF Fp!PoliciesSummary, Fp!Policies, Fp!Line
  <2> QED
    BY <2>2, <2>3
<1>3. ASSUME NEW c \in FpCandidates, v3[c] # None
      PROVE  LET i == v3[c]
             IN  /\ Fp!InvestigationTranscript(i).stopped
                      <=> i.lookups # <<>> /\ Fp!InvestigationSummary(i).of # "natural_end"
                 /\ i.withheld => Fp!InvestigationSummary(i).says = "nothing could be looked up"
  <2>1. v3[c].withheld \in BOOLEAN /\ (v3[c].withheld => v3[c].lookups = <<>>)
    BY <1>3 DEF Fp!IInv, Fp!Investigations
  <2> QED
    BY <2>1 DEF Fp!InvestigationTranscript, Fp!InvestigationSummary, Fp!Line, Fp!Ending
<1> QED
  BY <1>1, <1>2, <1>3 DEF Fp!ClosedLinesAreTrue

(***************************************************************************)
(* What moved since the review before                                      *)
(***************************************************************************)
\* The tab opens on a review of the line.
LEMMA DeltaInitially == ASSUME Rd!Init PROVE Rd!IInv
  BY DEF Rd!Init, Rd!IInv

\* And stays on one.
LEMMA DeltaPreserved ==
    ASSUME Rd!IInv, Rd!Next \/ UNCHANGED Rd!vars
    PROVE  Rd!IInv'
  BY DEF Rd!IInv, Rd!Next, Rd!vars, Rd!SetFilter, Rd!EarlierArrives, Rd!LineageArrives, Rd!Jump

\* What moved, and how: the movements a list has rows of.
Moves == {"addressed", "changed", "new", "unchanged"}

\* The candidates that moved in the review that is open, and their rows.
MovedOnes == {c \in Rd!Range(RdCandidates) : Rd!Movement(v3, c) \in Moves}
RowsOfMoved == {Rd!Entry(v3, c) : c \in MovedOnes}

\* The rows of one movement are rows of what moved.
LEMMA RowsOfOneMovement ==
    ASSUME Rd!DeltaAssumption, NEW s \in Moves
    PROVE  [i \in DOMAIN Rd!OfState(v3, s) |-> Rd!Entry(v3, Rd!OfState(v3, s)[i])] \in Seq(RowsOfMoved)
<1> DEFINE S == {c \in Rd!Range(RdCandidates) : Rd!Movement(v3, c) = s}
           w == Within(RdCandidates, S)
<1>1. RdCandidates \in Seq(Rd!Range(RdCandidates))
  BY DEF Rd!DeltaAssumption
<1>2. Rd!OfState(v3, s) = w
  BY DEF Rd!OfState, Rd!Within, Within
<1>3. /\ w \in Seq(Rd!Range(RdCandidates)) /\ Len(w) \in Nat
      /\ \E h \in [1 .. Len(w) -> 1 .. Len(RdCandidates)] :
            \A k \in 1 .. Len(w) : w[k] = RdCandidates[h[k]] /\ RdCandidates[h[k]] \in S
  BY <1>1, WithinTheList
<1>4. DOMAIN w = 1 .. Len(w) /\ \A k \in 1 .. Len(w) : w[k] \in S
  BY <1>3
<1> HIDE DEF w
<1>5. \A k \in 1 .. Len(w) : Rd!Entry(v3, w[k]) \in RowsOfMoved
  BY <1>4 DEF RowsOfMoved, MovedOnes
<1> HIDE DEF S
<1>6. [i \in 1 .. Len(w) |-> Rd!Entry(v3, w[i])] \in [1 .. Len(w) -> RowsOfMoved]
  BY <1>5
<1>7. [i \in 1 .. Len(w) |-> Rd!Entry(v3, w[i])] \in Seq(RowsOfMoved)
  BY <1>3, <1>6
<1> QED
  BY <1>2, <1>4, <1>7

\* One list of some things after another is a list of them.
LEMMA OneAfterAnother ==
    ASSUME NEW A, NEW s \in Seq(A), NEW t \in Seq(A)
    PROVE  s \o t \in Seq(A)
OBVIOUS

\* Every row shown is one of a candidate that moved.
LEMMA RowsAreOfWhatMoved ==
    ASSUME Rd!DeltaAssumption
    PROVE  Rd!Visible \in Seq(RowsOfMoved) /\ \A e \in Rd!Range(Rd!Visible) : \E c \in MovedOnes : e = Rd!Entry(v3, c)
<1> DEFINE Rows(s) == [i \in DOMAIN Rd!OfState(v3, s) |-> Rd!Entry(v3, Rd!OfState(v3, s)[i])]
           S == {e \in Rd!Range(Rd!Entries) : v5 = "all" \/ e.state = v5}
<1>1. Rd!Entries = Rows("addressed") \o Rows("changed") \o Rows("new") \o Rows("unchanged")
  BY DEF Rd!Entries
<1>2. \A s \in Moves : Rows(s) \in Seq(RowsOfMoved)
  BY RowsOfOneMovement
<1> HIDE DEF Rows
<1>3. Rd!Entries \in Seq(RowsOfMoved)
  BY <1>1, <1>2, OneAfterAnother DEF Moves
<1>4. Rd!Visible = Within(Rd!Entries, S)
  BY DEF Rd!Visible, Rd!Within, Within
<1> HIDE DEF S
<1>5. Rd!Visible \in Seq(RowsOfMoved)
  BY <1>3, <1>4, WithinTheList
<1>6. \A e \in Rd!Range(Rd!Visible) : e \in RowsOfMoved
  BY <1>5 DEF Rd!Range
<1> QED
  BY <1>5, <1>6 DEF RowsOfMoved

\* What the line over the list says is what each row would.
LEMMA TheLineAgrees ==
    ASSUME NEW e \in Rd!Range(Rd!Visible), Rd!Visible \in Seq(RowsOfMoved)
    PROVE  /\ Rd!SharedMovement # None => Rd!SharedMovement = <<e.state, e.reason>>
           /\ Rd!SharedVerdict # None => /\ Rd!SharedVerdict = e.now
                                         /\ \A x \in Rd!Range(Rd!Visible) : x.was = None
  BY DEF Rd!SharedMovement, Rd!SharedVerdict, Rd!AgreesOn

\* A row says what happened to its candidate.
LEMMA RowsSayWhatHappened ==
    ASSUME Rd!DeltaAssumption, Rd!IInv, NEW c \in MovedOnes
    PROVE  LET e == Rd!Entry(v3, c)
           IN  /\ e.candidate = c /\ e.state = Rd!Movement(v3, c) /\ e.reason = Rd!Reason(v3, c) /\ e.now = v1[v3][c]
               /\ v1[v3][c] = None => e.state = "addressed"
               /\ e.was # None => v3 > 1 /\ e.was = Rd!Was(v3, c) /\ e.was # v1[v3][c]
               /\ (e.state = "changed" /\ v4 = v3 - 1 /\ Rd!Was(v3, c) # v1[v3][c]) => e.was = Rd!Was(v3, c) /\ e.was # None
<1> DEFINE e == Rd!Entry(v3, c)
           m == Rd!Movement(v3, c)
           was == Rd!Was(v3, c)
           now == v1[v3][c]
<1>1. v3 \in Nat \ {0} /\ None \notin Moves
  BY DEF Rd!IInv, Rd!DeltaAssumption, Moves
<1>2. m \in Moves
  BY DEF MovedOnes
<1>3. was # None => v3 > 1
  BY <1>1 DEF Rd!Was
<1>4. /\ now = None => m = "addressed"
      /\ m = "addressed" => was # None /\ now = None
      /\ m = "changed" => was # None
  BY <1>1, <1>2 DEF Rd!Movement, Moves
<1>5. /\ e.candidate = c /\ e.state = m /\ e.reason = Rd!Reason(v3, c) /\ e.now = now
      /\ m = "addressed" => e.was = was
      /\ m = "changed" => e.was = (IF Rd!VerdictLastTime(v3, c) = now THEN None ELSE Rd!VerdictLastTime(v3, c))
      /\ m \notin {"addressed", "changed"} => e.was = None
  BY DEF Rd!Entry
<1>6. Rd!VerdictLastTime(v3, c) = (IF v4 = v3 - 1 /\ v3 > 1 THEN was ELSE None)
  BY DEF Rd!VerdictLastTime
<1> HIDE DEF e, m, was, now
<1>7. e.was # None => v3 > 1 /\ e.was = was /\ e.was # now
  BY <1>3, <1>4, <1>5, <1>6
<1>8. (m = "changed" /\ v4 = v3 - 1 /\ was # now) => e.was = was /\ e.was # None
  BY <1>3, <1>4, <1>5, <1>6
<1> QED
  BY <1>4, <1>5, <1>7, <1>8 DEF e, m, was, now

\* So the list and the line over it say it in full, and the line that arrives fits its room.
LEMMA TheDeltaTells ==
    ASSUME Rd!DeltaAssumption, Rd!IInv
    PROVE  Rd!RowsReadInFull /\ Rd!PlaceholderHoldsTheRoom
<1>1. Rd!RowsReadInFull
  <2> SUFFICES ASSUME NEW e \in Rd!Range(Rd!Visible)
               PROVE  LET row == Rd!RowShows(e)
                          movement == IF Rd!SharedMovement # None THEN Rd!SharedMovement ELSE row.movement
                          verdict == IF Rd!SharedVerdict # None THEN Rd!SharedVerdict ELSE row.verdict
                      IN  /\ movement = <<Rd!Movement(v3, e.candidate), Rd!Reason(v3, e.candidate)>>
                          /\ verdict = IF v1[v3][e.candidate] = None THEN "no longer detected" ELSE v1[v3][e.candidate]
                          /\ row.was # None => v3 > 1 /\ row.was = Rd!Was(v3, e.candidate) /\ row.was # v1[v3][e.candidate]
                          /\ (e.state = "changed" /\ v4 = v3 - 1 /\ Rd!Was(v3, e.candidate) # v1[v3][e.candidate])
                                => row.was = Rd!Was(v3, e.candidate)
    BY DEF Rd!RowsReadInFull
  <2> DEFINE row == Rd!RowShows(e)
             c == e.candidate
             shared == Rd!SharedVerdict
  <2>1. Rd!Visible \in Seq(RowsOfMoved) /\ \E x \in MovedOnes : e = Rd!Entry(v3, x)
    BY RowsAreOfWhatMoved
  <2>2. /\ e.state = Rd!Movement(v3, c) /\ e.reason = Rd!Reason(v3, c) /\ e.now = v1[v3][c]
        /\ v1[v3][c] = None => e.state = "addressed"
        /\ e.was # None => v3 > 1 /\ e.was = Rd!Was(v3, c) /\ e.was # v1[v3][c]
        /\ (e.state = "changed" /\ v4 = v3 - 1 /\ Rd!Was(v3, c) # v1[v3][c]) => e.was = Rd!Was(v3, c) /\ e.was # None
    BY <2>1, RowsSayWhatHappened
  <2>3. /\ Rd!SharedMovement # None => Rd!SharedMovement = <<e.state, e.reason>>
        /\ shared # None => shared = e.now /\ e.was = None
    BY <2>1, TheLineAgrees
  <2>4. /\ row.movement = (IF Rd!SharedMovement # None THEN None ELSE <<e.state, e.reason>>)
        /\ row.was = (IF shared # None THEN None ELSE e.was)
        /\ shared = None /\ e.now # None => row.verdict = e.now
        /\ shared = None /\ e.now = None /\ e.state = "addressed" => row.verdict = "no longer detected"
    BY DEF Rd!RowShows
  <2> HIDE DEF row, c, shared
  <2>5. (IF Rd!SharedMovement # None THEN Rd!SharedMovement ELSE row.movement) = <<Rd!Movement(v3, c), Rd!Reason(v3, c)>>
    BY <2>2, <2>3, <2>4
  <2>6. (IF shared # None THEN shared ELSE row.verdict)
          = IF v1[v3][c] = None THEN "no longer detected" ELSE v1[v3][c]
    BY <2>2, <2>3, <2>4
  <2>7. /\ row.was # None => v3 > 1 /\ row.was = Rd!Was(v3, c) /\ row.was # v1[v3][c]
        /\ (e.state = "changed" /\ v4 = v3 - 1 /\ Rd!Was(v3, c) # v1[v3][c]) => row.was = Rd!Was(v3, c)
    BY <2>2, <2>3, <2>4
  <2> QED
    BY <2>5, <2>6, <2>7 DEF row, c, shared
<1>2. Rd!PlaceholderHoldsTheRoom
  <2> SUFFICES ASSUME NEW c \in Rd!Range(RdCandidates), v6 > 1
               PROVE  LET line == Rd!CandidateTrajectory(c)
                          held == Rd!TrajectoryPlaceholder(RdLineage)
                      IN  held.nodes = Len(line.drawn) /\ held.elided = line.elided
    BY DEF Rd!PlaceholderHoldsTheRoom
  <2>1. v6 = RdLineage /\ RdLineage \in Nat /\ RdLineage > 1 /\ RdDrawn \in Nat \ {0}
    BY DEF Rd!IInv, Rd!DeltaAssumption
  <2> DEFINE steps == [r \in 1 .. v6 |-> [review |-> r, verdict |-> v1[r][c], current |-> r = v3]]
             first == IF v6 > RdDrawn THEN v6 - RdDrawn + 1 ELSE 1
  <2>2. Rd!CandidateTrajectory(c) = [said |-> steps, drawn |-> SubSeq(steps, first, v6), elided |-> first - 1]
    BY <2>1 DEF Rd!CandidateTrajectory
  <2>3. first \in 1 .. v6
    BY <2>1
  <2> HIDE DEF steps
  <2>4. Len(SubSeq(steps, first, v6)) = v6 - first + 1
    BY <2>1, <2>3 
  <2>5. Rd!TrajectoryPlaceholder(RdLineage)
          = [nodes |-> IF RdLineage < RdDrawn THEN RdLineage ELSE RdDrawn,
             elided |-> IF RdLineage < RdDrawn THEN 0 ELSE RdLineage - RdDrawn]
    BY <2>1 DEF Rd!TrajectoryPlaceholder
  <2> QED
    BY <2>1, <2>2, <2>4, <2>5
<1> QED
  BY <1>1, <1>2

(***************************************************************************)
(* What is said of a review's records                                      *)
(***************************************************************************)
\* What a list holds is held by what it is the first or the last part of.
LEMMA PartsOfAList ==
    ASSUME NEW A, NEW s \in Seq(A), NEW t \in Seq(A)
    PROVE  /\ s \o t \in Seq(A) /\ Rr!Range(s \o t) = Rr!Range(s) \cup Rr!Range(t)
<1>1. /\ s \o t \in Seq(A) /\ Len(s \o t) = Len(s) + Len(t) /\ Len(s) \in Nat /\ Len(t) \in Nat
      /\ DOMAIN s = 1 .. Len(s) /\ DOMAIN t = 1 .. Len(t) /\ DOMAIN (s \o t) = 1 .. Len(s) + Len(t)
      /\ \A i \in 1 .. Len(s) : (s \o t)[i] = s[i]
      /\ \A i \in 1 .. Len(t) : (s \o t)[Len(s) + i] = t[i]
  OBVIOUS
<1> DEFINE w == s \o t
<1> HIDE DEF w
<1>2. ASSUME NEW i \in 1 .. Len(s) + Len(t)
      PROVE  w[i] \in Rr!Range(s) \cup Rr!Range(t)
  <2>1. CASE i <= Len(s)
    BY <1>1, <2>1 DEF Rr!Range, w
  <2>2. CASE i > Len(s)
    <3>1. i - Len(s) \in 1 .. Len(t) /\ i = Len(s) + (i - Len(s))
      BY <1>1, <2>2
    <3>2. w[i] = t[i - Len(s)]
      BY <1>1, <3>1 DEF w
    <3> QED
      BY <1>1, <3>1, <3>2 DEF Rr!Range
  <2> QED
    BY <1>1, <2>1, <2>2
<1>3. ASSUME NEW i \in 1 .. Len(s)
      PROVE  s[i] \in Rr!Range(w)
  <2>1. i \in 1 .. Len(s) + Len(t) /\ w[i] = s[i]
    BY <1>1 DEF w
  <2> QED
    BY <1>1, <2>1 DEF Rr!Range, w
<1>4. ASSUME NEW i \in 1 .. Len(t)
      PROVE  t[i] \in Rr!Range(w)
  <2>1. Len(s) + i \in 1 .. Len(s) + Len(t) /\ w[Len(s) + i] = t[i]
    BY <1>1 DEF w
  <2> QED
    BY <1>1, <2>1 DEF Rr!Range, w
<1>5. Rr!Range(w) = Rr!Range(s) \cup Rr!Range(t)
  BY <1>1, <1>2, <1>3, <1>4 DEF Rr!Range, w
<1> QED
  BY <1>1, <1>5 DEF w

\* A record is what is filed of the review as it stands.
LEMMA RecordIsTyped ==
    ASSUME Rr!RecordsAssumption, Rr!RecordsAreTyped,
           NEW kind \in {"awaiting_answers", "completed", "cancelled", "failed"}, NEW asked \in SUBSET Rr!QuestionSet
    PROVE  /\ Rr!Record(kind, asked) \in Rr!RecordSet
           /\ v4 \in 1 .. 3 /\ (v4 + (IF v5 THEN 0 ELSE 1)) \in 1 .. 3
<1>1. Len(Rr!EarlierAnswers) \in 0 .. 1
  BY DEF Rr!EarlierAnswers
<1> DEFINE n == Len(Rr!EarlierAnswers)
<1>2. v5 \in BOOLEAN /\ v4 = 1 + n + (IF v5 THEN 1 ELSE 0)
  BY DEF Rr!RecordsAreTyped
<1>n. n \in 0 .. 1
  BY <1>1
<1> HIDE DEF n
<1>3. v4 \in 1 .. 3 /\ (v4 + (IF v5 THEN 0 ELSE 1)) \in 1 .. 3
  <2>1. CASE v5
    <3>1. v4 = 1 + n + 1 /\ v4 + (IF v5 THEN 0 ELSE 1) = v4 + 0
      BY <1>2, <2>1
    <3> QED
      BY <1>n, <3>1
  <2>2. CASE ~v5
    <3>1. v4 = 1 + n + 0 /\ v4 + (IF v5 THEN 0 ELSE 1) = v4 + 1
      BY <1>2, <2>2
    <3> QED
      BY <1>n, <3>1
  <2> QED
    BY <1>2, <2>1, <2>2
<1> QED
  BY <1>3 DEF Rr!Record, Rr!RecordSet, Rr!RecordsAreTyped

\* What filing a record leaves of the records.
LEMMA AnotherRecord ==
    ASSUME NEW r \in Rr!RecordSet, v8 \in Seq(Rr!RecordSet), v8' = Append(v8, r)
    PROVE  /\ v8' \in Seq(Rr!RecordSet) /\ v8' # <<>> /\ Len(v8) \in Nat /\ Len(v8') = Len(v8) + 1
           /\ DOMAIN v8 = 1 .. Len(v8) /\ DOMAIN v8' = 1 .. Len(v8) + 1
           /\ Rr!Last(v8') = r /\ v8'[Len(v8) + 1] = r
           /\ \A i \in DOMAIN v8 : v8'[i] = v8[i] /\ v8[i] \in Rr!RecordSet
<1>1. v8' \in Seq(Rr!RecordSet) /\ Len(v8') = Len(v8) + 1 /\ v8'[Len(v8) + 1] = r /\ \A i \in 1 .. Len(v8) : v8'[i] = v8[i]
  BY Appended
<1>2. Len(v8) \in Nat /\ DOMAIN v8 = 1 .. Len(v8) /\ \A i \in 1 .. Len(v8) : v8[i] \in Rr!RecordSet
  BY ElementsOf
<1>3. DOMAIN v8' = 1 .. Len(v8) + 1
  BY <1>1, ElementsOf
<1>4. v8' # <<>>
  BY <1>1, <1>2, NothingIn
<1> QED
  BY <1>1, <1>2, <1>3, <1>4 DEF Rr!Last

\* A review begins with no record.
LEMMA RecordsInitially ==
    ASSUME Rr!RecordsAssumption, Rr!Init
    PROVE  Rr!IInv
<1>1. /\ v1 = "judging" /\ v2 = 1 /\ v3 = Rr!EarlierAnswers /\ v4 = 1 + Len(v3) /\ v5 = FALSE
      /\ v6 \in [RrCandidates -> {Rr!EarlierAnswers}] /\ v7 \in SUBSET RrCandidates
      /\ v8 = <<>> /\ v9 = "running" /\ v10 = [put |-> {}, taken |-> {}]
  BY DEF Rr!Init
<1>2. /\ Rr!EarlierAnswers \in Seq(Rr!AnswerSet)
      /\ \A a \in Rr!Range(Rr!EarlierAnswers) : a.question.about = None
  <2> DEFINE a == [question |-> [about |-> None, round |-> 1], revision |-> 2, by |-> "answered"]
  <2>1. a \in Rr!AnswerSet /\ a.question.about = None
    BY DEF Rr!AnswerSet, Rr!QuestionSet
  <2>2. Rr!EarlierAnswers = <<a>> \/ Rr!EarlierAnswers = <<>>
    BY DEF Rr!EarlierAnswers
  <2> HIDE DEF a
  <2>3. CASE Rr!EarlierAnswers = <<a>>
    BY <2>1, <2>3 DEF Rr!Range
  <2>4. CASE Rr!EarlierAnswers = <<>>
    BY <2>4 DEF Rr!Range
  <2> QED
    BY <2>2, <2>3, <2>4
<1>3. v8 \in Seq(Rr!RecordSet) /\ DOMAIN v8 = {}
  BY <1>1
<1>4. Rr!RecordsAreTyped
  <2>1. v4 = 1 + Len(Rr!EarlierAnswers) + (IF v5 THEN 1 ELSE 0)
    BY <1>1, <1>2
  <2>2. v6 \in [RrCandidates -> Seq(Rr!AnswerSet)]
    BY <1>1, <1>2
  <2>3. v10 \in [put : SUBSET Rr!QuestionSet, taken : SUBSET Rr!QuestionSet]
    BY <1>1
  <2>4. v1 \in {"judging", "asking", "waiting", "stopping", "over"} /\ v2 \in 1 .. 3
    BY <1>1
  <2>6. v5 \in BOOLEAN
    BY <1>1, Zenon
  <2>5. v9 \in {"running", "awaiting_answers", "completed", "cancelled", "failed"} /\ v3 \in Seq(Rr!AnswerSet)
    BY <1>1, <1>2
  <2> QED
    BY <1>1, <1>3, <2>1, <2>2, <2>3, <2>4, <2>5, <2>6 DEF Rr!RecordsAreTyped
<1>5. Rr!OnlyTheLastEnds /\ Rr!AnswersAreOfEarlierRounds /\ Rr!RoundsLeaveTheirMark /\ Rr!QuestionsAreFollowedUp
  BY <1>1, <1>2, <1>3 DEF Rr!OnlyTheLastEnds, Rr!AnswersAreOfEarlierRounds, Rr!RoundsLeaveTheirMark,
     Rr!QuestionsAreFollowedUp
<1> QED
  BY <1>4, <1>5 DEF Rr!IInv

\* A record that ends a review: it asks on what was open, and puts nothing new.
LEMMA EndingKeeps ==
    ASSUME Rr!RecordsAssumption, Rr!IInv,
           NEW kind \in {"completed", "cancelled", "failed"}, NEW asked \in SUBSET Rr!QuestionSet,
           v8' = Append(v8, Rr!Record(kind, asked)), v9' = kind, v1' = "over", v1 # "over",
           UNCHANGED <<v2, v3, v4, v5, v6, v7, v10>>,
           kind = "cancelled" => \A q \in asked : ~Rr!Taken(q),
           kind = "failed" => v1 # "waiting",
           v1 = "waiting" => asked = Rr!Last(v8).questions
    PROVE  Rr!IInv'
<1> DEFINE r == Rr!Record(kind, asked)
<1>1. Rr!RecordsAreTyped /\ r \in Rr!RecordSet
  BY RecordIsTyped DEF Rr!IInv
<1>2. r.status = kind /\ r.round = v2 /\ r.answers = v3 /\ r.questions = asked
  BY DEF Rr!Record
<1> HIDE DEF r
<1>3. /\ v8' \in Seq(Rr!RecordSet) /\ v8' # <<>> /\ Len(v8) \in Nat /\ Len(v8') = Len(v8) + 1
      /\ DOMAIN v8 = 1 .. Len(v8) /\ DOMAIN v8' = 1 .. Len(v8) + 1
      /\ Rr!Last(v8') = r /\ v8'[Len(v8) + 1] = r
      /\ \A i \in DOMAIN v8 : v8'[i] = v8[i] /\ v8[i] \in Rr!RecordSet
  BY <1>1, AnotherRecord DEF r, Rr!RecordsAreTyped
<1>4. \A i \in DOMAIN v8' : i \in DOMAIN v8 \/ i = Len(v8) + 1
  BY <1>3
<1>5. Rr!RecordsAreTyped'
  BY <1>1, <1>3 DEF Rr!RecordsAreTyped, Rr!EarlierAnswers, Rr!AnswerSet, Rr!QuestionSet, Rr!RecordSet
<1>6. Rr!OnlyTheLastEnds'
  BY <1>2, <1>3, <1>4 DEF Rr!IInv, Rr!OnlyTheLastEnds
<1>7. Rr!AnswersAreOfEarlierRounds'
  BY <1>2, <1>3, <1>4 DEF Rr!IInv, Rr!AnswersAreOfEarlierRounds, Rr!Taken, Rr!Range
<1>8. Rr!RoundsLeaveTheirMark'
  <2>1. v2 \in 1 .. 3
    BY <1>1 DEF Rr!RecordsAreTyped
  <2> QED
    BY <1>2, <1>3, <1>4, <2>1 DEF Rr!IInv, Rr!RoundsLeaveTheirMark
<1>9. Rr!QuestionsAreFollowedUp'
  <2>1. ASSUME NEW i \in DOMAIN v8
        PROVE  v8[i].questions \subseteq Rr!AnsweredIn(v3) \cup asked
    <3>1. v8[i].questions \subseteq Rr!AnsweredIn(v3) \cup (IF v1 = "waiting" THEN Rr!Last(v8).questions ELSE {})
      BY DEF Rr!IInv, Rr!QuestionsAreFollowedUp
    <3> QED
      BY <3>1
  <2>2. \A i \in DOMAIN v8' : i # Len(v8') =>
            v8'[i].questions \subseteq Rr!AnsweredIn(Rr!Last(v8').answers) \cup Rr!Last(v8').questions
    BY <1>2, <1>3, <1>4, <2>1
  <2> QED
    BY <2>2 DEF Rr!QuestionsAreFollowedUp, Rr!AnsweredIn, Rr!Range
<1> QED
  BY <1>5, <1>6, <1>7, <1>8, <1>9 DEF Rr!IInv

\* A question asked is of the round, and of a candidate there is.
LEMMA AskKeeps ==
    ASSUME Rr!RecordsAssumption, Rr!IInv, Rr!Ask
    PROVE  Rr!IInv'
<1>1. PICK s \in (SUBSET v7) \ {{}} : /\ Rr!Files("awaiting_answers", {Rr!Question(c) : c \in s})
                                      /\ v10' = [v10 EXCEPT !.put = @ \cup {Rr!Question(c) : c \in s}]
  BY DEF Rr!Ask
<1> DEFINE asked == {Rr!Question(c) : c \in s}
           r == Rr!Record("awaiting_answers", asked)
<1>2. /\ v1 = "asking" /\ v2 < 3 /\ v1' = "waiting" /\ UNCHANGED <<v2, v3, v4, v5, v6, v7>>
      /\ v8' = Append(v8, r) /\ v9' = "awaiting_answers"
  BY <1>1 DEF Rr!Ask, Rr!Files
<1>3. Rr!RecordsAreTyped
  BY DEF Rr!IInv
<1>4. /\ asked \in SUBSET Rr!QuestionSet /\ asked # {}
      /\ \A q \in asked : q.round = v2 /\ q.about \in RrCandidates
  <2>1. \A c \in s : Rr!Question(c) \in Rr!QuestionSet /\ Rr!Question(c).round = v2 /\ Rr!Question(c).about \in RrCandidates
    BY <1>1, <1>3 DEF Rr!RecordsAreTyped, Rr!Question, Rr!QuestionSet
  <2> QED
    BY <1>1, <2>1
<1>5. v10' \in [put : SUBSET Rr!QuestionSet, taken : SUBSET Rr!QuestionSet] /\ v10'.taken = v10.taken
  <2>1. v10 \in [put : SUBSET Rr!QuestionSet, taken : SUBSET Rr!QuestionSet]
    BY <1>3 DEF Rr!RecordsAreTyped
  <2> HIDE DEF asked
  <2>2. v10' = [v10 EXCEPT !.put = @ \cup asked]
    BY <1>1 DEF asked
  <2> QED
    BY <1>4, <2>1, <2>2
<1> HIDE DEF asked
<1>6. r \in Rr!RecordSet
  BY <1>3, <1>4, RecordIsTyped
<1>7. r.status = "awaiting_answers" /\ r.answers = v3 /\ r.questions = asked
  BY DEF Rr!Record
<1>8. v8 \in Seq(Rr!RecordSet)
  BY <1>3 DEF Rr!RecordsAreTyped
<1> HIDE DEF r
<1>9. /\ v8' \in Seq(Rr!RecordSet) /\ v8' # <<>> /\ Len(v8) \in Nat /\ Len(v8') = Len(v8) + 1
      /\ DOMAIN v8 = 1 .. Len(v8) /\ DOMAIN v8' = 1 .. Len(v8) + 1
      /\ Rr!Last(v8') = r /\ v8'[Len(v8) + 1] = r
      /\ \A i \in DOMAIN v8 : v8'[i] = v8[i] /\ v8[i] \in Rr!RecordSet
  BY <1>2, <1>6, <1>8, AnotherRecord
<1>10. \A i \in DOMAIN v8' : i \in DOMAIN v8 \/ i = Len(v8) + 1
  BY <1>9
<1>11. Rr!RecordsAreTyped'
  BY <1>2, <1>3, <1>5, <1>9 DEF Rr!RecordsAreTyped, Rr!EarlierAnswers, Rr!AnswerSet, Rr!QuestionSet, Rr!RecordSet
<1>12. Rr!OnlyTheLastEnds'
  BY <1>2, <1>4, <1>7, <1>9, <1>10 DEF Rr!IInv, Rr!OnlyTheLastEnds
<1>13. Rr!AnswersAreOfEarlierRounds'
  <2>1. \A i \in DOMAIN v8' : v8'[i].status # "cancelled"
    BY <1>2, <1>7, <1>9, <1>10 DEF Rr!IInv, Rr!OnlyTheLastEnds
  <2> QED
    BY <1>2, <1>4, <1>7, <1>9, <2>1 DEF Rr!IInv, Rr!AnswersAreOfEarlierRounds, Rr!Range
<1>14. Rr!RoundsLeaveTheirMark'
  <2>1. \A i \in DOMAIN v8' : v8'[i].status # "failed"
    BY <1>2, <1>7, <1>9, <1>10 DEF Rr!IInv, Rr!OnlyTheLastEnds
  <2> QED
    BY <1>2, <1>5, <2>1 DEF Rr!IInv, Rr!RoundsLeaveTheirMark
<1>15. Rr!QuestionsAreFollowedUp'
  <2>1. ASSUME NEW i \in DOMAIN v8
        PROVE  v8[i].questions \subseteq Rr!AnsweredIn(v3)
    <3>1. v8[i].questions \subseteq Rr!AnsweredIn(v3) \cup (IF v1 = "waiting" THEN Rr!Last(v8).questions ELSE {})
      BY <1>2 DEF Rr!IInv, Rr!QuestionsAreFollowedUp
    <3> QED
      BY <1>2, <3>1
  <2>2. \A i \in DOMAIN v8' : v8'[i].questions \subseteq Rr!AnsweredIn(v3) \cup asked
    BY <1>7, <1>9, <1>10, <2>1
  <2>3. Rr!AnsweredIn(v3)' = Rr!AnsweredIn(v3) /\ Rr!AnsweredIn(Rr!Last(v8').answers) = Rr!AnsweredIn(v3)
    BY <1>2, <1>7, <1>9 DEF Rr!AnsweredIn, Rr!Range
  <2>4. \A i \in DOMAIN v8' :
           /\ v1' # "over" => v8'[i].questions \subseteq
                 Rr!AnsweredIn(v3') \cup (IF v1' = "waiting" THEN Rr!Last(v8').questions ELSE {})
           /\ i # Len(v8') => v8'[i].questions \subseteq
                 Rr!AnsweredIn(Rr!Last(v8').answers) \cup Rr!Last(v8').questions
    BY <1>2, <1>7, <1>9, <2>2, <2>3
  <2> QED
    BY <2>4 DEF Rr!QuestionsAreFollowedUp, Rr!AnsweredIn, Rr!Range
<1> QED
  BY <1>11, <1>12, <1>13, <1>14, <1>15 DEF Rr!IInv

\* An open round is of finitely many questions: each is about another candidate.
LEMMA OpenQuestions ==
    ASSUME Rr!RecordsAssumption, Rr!IInv, v1 = "waiting"
    PROVE  /\ v9 = "awaiting_answers" /\ v2 \in 1 .. 2 /\ v8 # <<>>
           /\ Rr!Last(v8).questions \in SUBSET Rr!QuestionSet /\ Rr!Last(v8).questions # {}
           /\ \A q \in Rr!Last(v8).questions : q.round = v2 /\ q.about \in RrCandidates
           /\ Cardinality(Rr!Last(v8).questions) \in Nat
           /\ \A i \in DOMAIN v8 : v8[i].status = "awaiting_answers"
<1> DEFINE asks == Rr!Last(v8).questions
<1>1. Rr!RecordsAreTyped /\ v8 \in Seq(Rr!RecordSet) /\ v2 \in 1 .. 3
  BY DEF Rr!IInv, Rr!RecordsAreTyped
<1>2. /\ v9 = "awaiting_answers" /\ v2 < 3 /\ v8 # <<>>
      /\ \A q \in asks : q.round = v2 /\ q.about \in RrCandidates
      /\ \A i \in DOMAIN v8 : v8[i].status = "awaiting_answers" /\ v8[i].questions # {}
  BY DEF Rr!IInv, Rr!AnswersAreOfEarlierRounds, Rr!OnlyTheLastEnds
<1>3. Len(v8) \in DOMAIN v8 /\ Rr!Last(v8) = v8[Len(v8)] /\ v8[Len(v8)] \in Rr!RecordSet
  <2>1. Len(v8) \in Nat /\ DOMAIN v8 = 1 .. Len(v8) /\ \A i \in 1 .. Len(v8) : v8[i] \in Rr!RecordSet
    BY <1>1, ElementsOf
  <2>2. Len(v8) # 0
    BY <1>1, <1>2, NothingLeft
  <2> QED
    BY <2>1, <2>2 DEF Rr!Last
<1>4. asks \in SUBSET Rr!QuestionSet /\ asks # {}
  BY <1>2, <1>3 DEF Rr!RecordSet
<1> DEFINE of == {c \in RrCandidates : Rr!Question(c) \in asks}
           f == [c \in of |-> Rr!Question(c)]
<1> HIDE DEF asks
<1>5. f \in Surjection(of, asks)
  <2>1. f \in [of -> asks]
    OBVIOUS
  <2>2. ASSUME NEW q \in asks
        PROVE  \E c \in of : f[c] = q
    <3>1. q \in Rr!QuestionSet /\ q.round = v2 /\ q.about \in RrCandidates
      BY <1>2, <1>4 DEF asks
    <3>2. Rr!Question(q.about) = q
      BY <3>1 DEF Rr!Question, Rr!QuestionSet
    <3> QED
      BY <3>1, <3>2
  <2> QED
    BY <2>1, <2>2 DEF Surjection
<1>6. IsFiniteSet(of)
  <2>1. of \in SUBSET RrCandidates /\ IsFiniteSet(RrCandidates)
    BY DEF Rr!RecordsAssumption, Rr!IsFiniteSet, IsFiniteSet
  <2> QED
    BY <2>1, FS_Subset
<1>7. Cardinality(asks) \in Nat
  <2> HIDE DEF of, f
  <2> QED
    BY <1>5, <1>6, FS_Surjection, FS_CardinalityType
<1>8. v2 \in 1 .. 2
  BY <1>1, <1>2
<1> QED
  BY <1>2, <1>4, <1>7, <1>8 DEF asks

\* A round answered: there is an answer to each of its questions, and there are no others.
LEMMA AnswersToAll ==
    ASSUME NEW n \in Nat, NEW asks, NEW asked \in Rr!Bijection(1 .. n, asks),
           NEW given \in [1 .. n -> Rr!AnswerSet], \A i \in 1 .. n : given[i].question = asked[i]
    PROVE  /\ given \in Seq(Rr!AnswerSet) /\ Rr!AnsweredIn(given) = asks
           /\ \A a \in Rr!Range(given) : a.question \in asks
<1>1. asked \in [1 .. n -> asks] /\ \A q \in asks : \E i \in 1 .. n : asked[i] = q
  BY DEF Rr!Bijection, Rr!Surjection
<1>2. \A i \in 1 .. n : given[i] \in Rr!AnswerSet /\ given[i].question = asked[i] /\ asked[i] \in asks
  BY <1>1
<1>3. DOMAIN given = 1 .. n
  OBVIOUS
<1>5. given \in Seq(Rr!AnswerSet)
  OBVIOUS
<1>6. \A a \in Rr!Range(given) : \E i \in 1 .. n : a = given[i]
  BY <1>3 DEF Rr!Range
<1>7. \A i \in 1 .. n : given[i] \in Rr!Range(given)
  BY <1>3 DEF Rr!Range
<1>8. \A a \in Rr!Range(given) : a.question \in asks
  BY <1>2, <1>6
<1>9. \A q \in asks : \E a \in Rr!Range(given) : a.question = q
  BY <1>1, <1>2, <1>7
<1>10. Rr!AnsweredIn(given) = asks
  BY <1>8, <1>9 DEF Rr!AnsweredIn
<1> QED
  BY <1>5, <1>8, <1>10

\* The round answered is behind the review when it goes on.
LEMMA RoundAnsweredKeeps ==
    ASSUME Rr!RecordsAssumption, Rr!IInv, NEW stop \in BOOLEAN, Rr!Answer(stop)
    PROVE  Rr!IInv'
<1> DEFINE asks == Rr!Last(v8).questions
           n == Cardinality(asks)
<1>1. /\ v1 = "waiting" /\ v4' = v4 + (IF v5 THEN 0 ELSE 1) /\ v5' = TRUE /\ v2' = v2 + 1
      /\ v1' \in {"stopping", "judging"} /\ v9' = "running" /\ UNCHANGED <<v6, v7, v8>>
      /\ v10' = [v10 EXCEPT !.taken = @ \cup asks]
  BY DEF Rr!Answer, Rr!CanAnswer
<1>2. PICK asked \in Rr!Bijection(1 .. n, asks), by \in [1 .. n -> {"answered", "skipped"}] :
          v3' = v3 \o [i \in 1 .. n |-> Rr!Answered(asked[i], by[i])]
  <2>1. n = Rr!Cardinality(asks)
    BY DEF Rr!Cardinality, Cardinality
  <2> QED
    BY <2>1 DEF Rr!Answer
<1>3. /\ v2 \in 1 .. 2 /\ asks \in SUBSET Rr!QuestionSet /\ asks # {} /\ n \in Nat
      /\ \A q \in asks : q.round = v2
      /\ \A i \in DOMAIN v8 : v8[i].status = "awaiting_answers"
  BY <1>1, OpenQuestions
<1>4. Rr!RecordsAreTyped /\ v4 + (IF v5 THEN 0 ELSE 1) \in 1 .. 3
  <2>1. Rr!RecordsAreTyped
    BY DEF Rr!IInv
  <2> QED
    BY <2>1, RecordIsTyped
<1> DEFINE given == [i \in 1 .. n |-> Rr!Answered(asked[i], by[i])]
<1> HIDE DEF asks, n
<1>5. given \in Seq(Rr!AnswerSet) /\ Rr!AnsweredIn(given) = asks /\ \A a \in Rr!Range(given) : a.question \in asks
  <2>1. asked \in [1 .. n -> asks]
    BY <1>2 DEF Rr!Bijection, Rr!Surjection
  <2>2. ASSUME NEW i \in 1 .. n
        PROVE  given[i] \in Rr!AnswerSet /\ given[i].question = asked[i]
    <3>1. asked[i] \in Rr!QuestionSet /\ by[i] \in {"answered", "skipped"}
      BY <1>2, <1>3, <2>1
    <3>2. given[i] = Rr!Answered(asked[i], by[i])
      OBVIOUS
    <3> QED
      BY <1>4, <3>1, <3>2 DEF Rr!Answered, Rr!AnswerSet
  <2>3. given \in [1 .. n -> Rr!AnswerSet]
    BY <2>2
  <2> HIDE DEF given
  <2> QED
    BY <1>2, <1>3, <2>2, <2>3, AnswersToAll
<1>6. v3' = v3 \o given
  BY <1>2
<1> HIDE DEF given
<1>7. v3' \in Seq(Rr!AnswerSet) /\ Rr!Range(v3') = Rr!Range(v3) \cup Rr!Range(given)
  <2>1. v3 \in Seq(Rr!AnswerSet)
    BY <1>4 DEF Rr!RecordsAreTyped
  <2> QED
    BY <1>5, <1>6, <2>1, PartsOfAList
<1>8. Rr!AnsweredIn(v3') = Rr!AnsweredIn(v3) \cup asks
  BY <1>5, <1>7 DEF Rr!AnsweredIn
<1>9. v10' \in [put : SUBSET Rr!QuestionSet, taken : SUBSET Rr!QuestionSet] /\ v10'.taken # {}
  <2>1. v10 \in [put : SUBSET Rr!QuestionSet, taken : SUBSET Rr!QuestionSet]
    BY <1>4 DEF Rr!RecordsAreTyped
  <2> QED
    BY <1>1, <1>3, <2>1
<1>10. Rr!RecordsAreTyped'
  <2>1. v4' = 1 + Len(Rr!EarlierAnswers) + (IF v5' THEN 1 ELSE 0)
    <3>1. Len(Rr!EarlierAnswers) \in Nat
      BY DEF Rr!EarlierAnswers
    <3>2. v4 = 1 + Len(Rr!EarlierAnswers) + (IF v5 THEN 1 ELSE 0) /\ v5 \in BOOLEAN
      BY <1>4 DEF Rr!RecordsAreTyped
    <3> DEFINE m == Len(Rr!EarlierAnswers)
    <3>3. m \in Nat /\ v4 = 1 + m + (IF v5 THEN 1 ELSE 0)
      BY <3>1, <3>2
    <3> HIDE DEF m
    <3>4. v4' = 1 + m + 1
      <4>1. CASE v5
        BY <1>1, <3>3, <4>1
      <4>2. CASE ~v5
        BY <1>1, <3>3, <4>2
      <4> QED
        BY <4>1, <4>2
    <3> QED
      BY <1>1, <3>4 DEF m
  <2>2. v5' \in BOOLEAN
    BY <1>1, Zenon
  <2>3. v1' \in {"judging", "asking", "waiting", "stopping", "over"} /\ v2' \in 1 .. 3
    BY <1>1, <1>3
  <2> QED
    BY <1>1, <1>4, <1>7, <1>9, <2>1, <2>2, <2>3
    DEF Rr!RecordsAreTyped, Rr!EarlierAnswers, Rr!AnswerSet, Rr!QuestionSet, Rr!RecordSet
<1>11. Rr!OnlyTheLastEnds'
  BY <1>1, <1>3 DEF Rr!IInv, Rr!OnlyTheLastEnds
<1>12. Rr!AnswersAreOfEarlierRounds'
  <2>1. \A a \in Rr!Range(v3') : a.question.about = None \/ a.question.round < v2'
    <3> TAKE a \in Rr!Range(v3')
    <3>1. CASE a \in Rr!Range(v3)
      <4>1. a.question.about = None \/ a.question.round < v2
        BY <3>1 DEF Rr!IInv, Rr!AnswersAreOfEarlierRounds
      <4>2. a.question.round \in 1 .. 3
        <5>1. v3 \in Seq(Rr!AnswerSet)
          BY <1>4 DEF Rr!RecordsAreTyped
        <5>2. a \in Rr!AnswerSet
          BY <3>1, <5>1, ElementsOf DEF Rr!Range
        <5> QED
          BY <5>2 DEF Rr!AnswerSet, Rr!QuestionSet
      <4> QED
        BY <1>1, <1>3, <4>1, <4>2
    <3>2. CASE a \in Rr!Range(given)
      BY <1>1, <1>3, <1>5, <3>2
    <3> QED
      BY <1>7, <3>1, <3>2
  <2>2. \A i \in DOMAIN v8' : v8'[i].status # "cancelled"
    BY <1>1, <1>3
  <2> QED
    BY <1>1, <2>1, <2>2 DEF Rr!AnswersAreOfEarlierRounds, Rr!Range
<1>13. Rr!RoundsLeaveTheirMark'
  BY <1>1, <1>3, <1>9 DEF Rr!RoundsLeaveTheirMark
<1>14. Rr!QuestionsAreFollowedUp'
  <2>1. \A i \in DOMAIN v8 : v8[i].questions \subseteq Rr!AnsweredIn(v3')
    BY <1>1, <1>8 DEF Rr!IInv, Rr!QuestionsAreFollowedUp, asks
  <2>2. \A i \in DOMAIN v8 : i # Len(v8) => v8[i].questions \subseteq
            Rr!AnsweredIn(Rr!Last(v8).answers) \cup Rr!Last(v8).questions
    BY DEF Rr!IInv, Rr!QuestionsAreFollowedUp
  <2> QED
    BY <1>1, <2>1, <2>2 DEF Rr!QuestionsAreFollowedUp, Rr!AnsweredIn, Rr!Range
<1> QED
  BY <1>10, <1>11, <1>12, <1>13, <1>14 DEF Rr!IInv

\* Every step of a review leaves what is held of its records.
LEMMA RecordsPreserved ==
    ASSUME Rr!RecordsAssumption, Rr!IInv, Rr!Next \/ UNCHANGED Rr!vars
    PROVE  Rr!IInv'
<1>1. Rr!RecordsAreTyped
  BY DEF Rr!IInv
<1>2. CASE Rr!Judge
  <2>1. v6' \in [RrCandidates -> Seq(Rr!AnswerSet)] /\ v7' \in SUBSET RrCandidates
    BY <1>1, <1>2 DEF Rr!Judge, Rr!RecordsAreTyped
  <2>2. v1 = "judging" /\ v1' = "asking" /\ UNCHANGED <<v2, v3, v4, v5, v8, v9, v10>>
    BY <1>2 DEF Rr!Judge
  <2>3. Rr!RecordsAreTyped'
    BY <1>1, <2>1, <2>2 DEF Rr!RecordsAreTyped, Rr!EarlierAnswers, Rr!AnswerSet, Rr!QuestionSet, Rr!RecordSet
  <2>4. Rr!OnlyTheLastEnds'
    BY <2>2 DEF Rr!IInv, Rr!OnlyTheLastEnds
  <2>5. Rr!AnswersAreOfEarlierRounds'
    BY <2>2 DEF Rr!IInv, Rr!AnswersAreOfEarlierRounds, Rr!Taken, Rr!Range
  <2>6. Rr!RoundsLeaveTheirMark'
    BY <2>2 DEF Rr!IInv, Rr!RoundsLeaveTheirMark
  <2>7. Rr!QuestionsAreFollowedUp'
    BY <2>2 DEF Rr!IInv, Rr!QuestionsAreFollowedUp, Rr!AnsweredIn, Rr!Range
  <2> QED
    BY <2>3, <2>4, <2>5, <2>6, <2>7 DEF Rr!IInv
<1>3. CASE \E word \in {"cancelled", "failed"} : Rr!Dies(word)
  <2>1. /\ v1 \in {"judging", "asking", "stopping"} /\ v1' = "over" /\ v9' \in {"cancelled", "failed"}
        /\ UNCHANGED <<v2, v3, v4, v5, v6, v7, v8, v10>>
    BY <1>3 DEF Rr!Dies
  <2>2. \A i \in DOMAIN v8 : v8[i].status = "awaiting_answers"
    BY <2>1 DEF Rr!IInv, Rr!OnlyTheLastEnds
  <2>3. Rr!RecordsAreTyped'
    BY <1>1, <2>1 DEF Rr!RecordsAreTyped, Rr!EarlierAnswers, Rr!AnswerSet, Rr!QuestionSet, Rr!RecordSet
  <2>4. Rr!OnlyTheLastEnds'
    BY <2>1, <2>2 DEF Rr!IInv, Rr!OnlyTheLastEnds
  <2>5. Rr!AnswersAreOfEarlierRounds'
    BY <2>1 DEF Rr!IInv, Rr!AnswersAreOfEarlierRounds, Rr!Taken, Rr!Range
  <2>6. Rr!RoundsLeaveTheirMark'
    BY <2>1 DEF Rr!IInv, Rr!RoundsLeaveTheirMark
  <2>7. Rr!QuestionsAreFollowedUp'
    BY <2>1 DEF Rr!IInv, Rr!QuestionsAreFollowedUp, Rr!AnsweredIn, Rr!Range
  <2> QED
    BY <2>3, <2>4, <2>5, <2>6, <2>7 DEF Rr!IInv
<1>4. CASE Rr!Ask
  BY <1>4, AskKeeps
<1>5. CASE \E stop \in BOOLEAN : Rr!Answer(stop)
  BY <1>5, RoundAnsweredKeeps
<1>6. CASE Rr!Complete
  <2> DEFINE asked == IF v1 = "stopping" THEN v10.put \cap {q \in v10.put : q.round = v2 - 1} ELSE {}
  <2>1. asked \in SUBSET Rr!QuestionSet
    BY <1>1 DEF Rr!RecordsAreTyped
  <2>2. /\ v1 \in {"asking", "stopping"} /\ v1' = "over" /\ UNCHANGED <<v2, v3, v4, v5, v6, v7, v10>>
        /\ v8' = Append(v8, Rr!Record("completed", asked)) /\ v9' = "completed"
    BY <1>6 DEF Rr!Complete, Rr!Files
  <2> HIDE DEF asked
  <2> QED
    BY <2>1, <2>2, EndingKeeps
<1>7. CASE Rr!Cancel
  <2> DEFINE asked == Rr!Last(v8).questions
  <2>1. /\ v1 = "waiting" /\ v1' = "over" /\ UNCHANGED <<v2, v3, v4, v5, v6, v7, v10>>
        /\ v8' = Append(v8, Rr!Record("cancelled", asked)) /\ v9' = "cancelled"
    BY <1>7 DEF Rr!Cancel, Rr!Files
  <2>2. asked \in SUBSET Rr!QuestionSet /\ v2 \in 1 .. 2 /\ \A q \in asked : q.round = v2 /\ q.about \in RrCandidates
    BY <2>1, OpenQuestions
  <2>3. ASSUME NEW q \in asked
        PROVE  ~ Rr!Taken(q)
    <3>1. None \notin RrCandidates
      BY DEF Rr!RecordsAssumption
    <3>2. \A a \in Rr!Range(v3) : a.question.about = None \/ a.question.round < v2
      BY DEF Rr!IInv, Rr!AnswersAreOfEarlierRounds
    <3> QED
      BY <2>2, <3>1, <3>2 DEF Rr!Taken
  <2>4. asked = Rr!Last(v8).questions
    OBVIOUS
  <2> HIDE DEF asked
  <2> QED
    BY <2>1, <2>2, <2>3, <2>4, EndingKeeps
<1>8. CASE Rr!Fail
  <2>1. /\ v1 \in {"judging", "asking", "stopping"} /\ v1' = "over" /\ UNCHANGED <<v2, v3, v4, v5, v6, v7, v10>>
        /\ v8' = Append(v8, Rr!Record("failed", {})) /\ v9' = "failed"
    BY <1>8 DEF Rr!Fail, Rr!Files
  <2>2. {} \in SUBSET Rr!QuestionSet
    OBVIOUS
  <2> QED
    BY <2>1, <2>2, EndingKeeps
<1>9. CASE UNCHANGED Rr!vars
  <2>1. UNCHANGED <<v1, v2, v3, v4, v5, v6, v7, v8, v9, v10>>
    BY <1>9 DEF Rr!vars
  <2>2. Rr!RecordsAreTyped'
    BY <1>1, <2>1 DEF Rr!RecordsAreTyped, Rr!EarlierAnswers, Rr!AnswerSet, Rr!QuestionSet, Rr!RecordSet
  <2>3. Rr!OnlyTheLastEnds' /\ Rr!RoundsLeaveTheirMark'
    BY <2>1 DEF Rr!IInv, Rr!OnlyTheLastEnds, Rr!RoundsLeaveTheirMark
  <2>4. Rr!AnswersAreOfEarlierRounds'
    BY <2>1 DEF Rr!IInv, Rr!AnswersAreOfEarlierRounds, Rr!Taken, Rr!Range
  <2>5. Rr!QuestionsAreFollowedUp'
    BY <2>1 DEF Rr!IInv, Rr!QuestionsAreFollowedUp, Rr!AnsweredIn, Rr!Range
  <2> QED
    BY <2>2, <2>3, <2>4, <2>5 DEF Rr!IInv
<1> QED
  BY <1>2, <1>3, <1>4, <1>5, <1>6, <1>7, <1>8, <1>9 DEF Rr!Next

\* The rounds of a case in their order hold each revision and round there can be.
LEMMA EveryKey ==
    ASSUME NEW revision \in 1 .. 3, NEW round \in 1 .. 3
    PROVE  /\ Rr!Keys \in Seq([revision : 1 .. 3, round : 1 .. 3])
           /\ \E n \in 1 .. Len(Rr!Keys) : Rr!Keys[n] = [revision |-> revision, round |-> round]
<1> DEFINE A == [revision : 1 .. 3, round : 1 .. 3]
           n == 3 * (revision - 1) + round
<1>1. \A k \in 1 .. 9 : 1 + (k - 1) \div 3 \in 1 .. 3 /\ 1 + ((k - 1) % 3) \in 1 .. 3
  OBVIOUS
<1>2. Rr!Keys \in [1 .. 9 -> A]
  BY <1>1 DEF Rr!Keys
<1> DEFINE m == 9
<1>3. m \in Nat /\ Rr!Keys \in [1 .. m -> A]
  BY <1>2
<1>4. Rr!Keys \in Seq(A) /\ Len(Rr!Keys) = m
  <2> HIDE DEF m, A
  <2> QED
    BY <1>3
<1>5. n \in 1 .. 9 /\ 1 + (n - 1) \div 3 = revision /\ 1 + ((n - 1) % 3) = round
  OBVIOUS
<1> HIDE DEF n
<1>6. Rr!Keys[n] = [revision |-> revision, round |-> round]
  BY <1>5 DEF Rr!Keys
<1> QED
  BY <1>4, <1>5, <1>6

\* A filter keeps of a list what is in the set.
LEMMA KeptIn ==
    ASSUME NEW A, NEW s \in Seq(A), NEW S, NEW e \in Rr!Range(s), e \in S
    PROVE  /\ e \in Rr!Range(Within(s, S))
           /\ \E k \in DOMAIN Within(s, S) : Within(s, S)[k] = e
<1> DEFINE w == Within(s, S)
<1>1. PICK h \in [1 .. Len(w) -> 1 .. Len(s)] :
         /\ \A k \in 1 .. Len(w) : w[k] = s[h[k]] /\ s[h[k]] \in S
         /\ \A i \in 1 .. Len(s) : s[i] \in S => \E k \in 1 .. Len(w) : h[k] = i
  BY WithinTheList
<1>2. w \in Seq(A)
  BY WithinTheList
<1> HIDE DEF w
<1>3. PICK i \in 1 .. Len(s) : s[i] = e
  BY ElementsOf DEF Rr!Range
<1>4. PICK k \in 1 .. Len(w) : h[k] = i
  BY <1>1, <1>3
<1>5. w[k] = e /\ k \in DOMAIN w
  BY <1>1, <1>2, <1>3, <1>4, ElementsOf
<1>6. e \in Rr!Range(w)
  BY <1>5 DEF Rr!Range
<1> QED
  BY <1>5, <1>6 DEF w

\* The tab has each answer of a record in some round, and its open questions in the last.
LEMMA RoundsHoldAll ==
    ASSUME NEW i \in DOMAIN v8, v8[i] \in Rr!RecordSet,
           NEW q \in Rr!AnsweredIn(v8[i].answers) \cup v8[i].questions
    PROVE  \E r \in Rr!Range(Rr!RoundsOf(i)) : q \in r.open \/ \E a \in Rr!Range(r.answers) : a.question = q
<1> DEFINE told == Rr!Range(v8[i].answers)
           Key(a) == [revision |-> a.revision, round |-> a.question.round]
           given == Rr!Within(Rr!Keys, {Key(a) : a \in told})
           Of(k) == [revision |-> k.revision, round |-> k.round, open |-> {},
                     answers |-> Rr!Within(v8[i].answers, {a \in told : Key(a) = k})]
           open == v8[i].questions \ {a.question : a \in told}
           last == [revision |-> v8[i].revision, round |-> (CHOOSE p \in open : TRUE).round,
                    open |-> open, answers |-> <<>>]
           before == [n \in DOMAIN given |-> Of(given[n])]
           after == IF open = {} THEN <<>> ELSE <<last>>
<1>0. \A s, S : Rr!Within(s, S) = Within(s, S)
  BY DEF Rr!Within, Within
<1>1. Rr!RoundsOf(i) = before \o after
  BY DEF Rr!RoundsOf
<1>2. v8[i].answers \in Seq(Rr!AnswerSet) /\ told \subseteq Rr!AnswerSet
  <2>1. v8[i].answers \in Seq(Rr!AnswerSet)
    BY DEF Rr!RecordSet
  <2> QED
    BY <2>1, ElementsOf DEF Rr!Range
<1>3. given \in Seq([revision : 1 .. 3, round : 1 .. 3]) /\ Len(given) \in Nat /\ DOMAIN given = 1 .. Len(given)
  <2>1. Rr!Keys \in Seq([revision : 1 .. 3, round : 1 .. 3])
    <3>1. 1 \in 1 .. 3
      OBVIOUS
    <3> QED
      BY <3>1, EveryKey
  <2>2. given \in Seq([revision : 1 .. 3, round : 1 .. 3])
    BY <1>0, <2>1, WithinTheList
  <2> HIDE DEF given
  <2> QED
    BY <2>2, ElementsOf
<1> DEFINE A == {Of(given[n]) : n \in DOMAIN given} \cup {last}
<1>4. before \in Seq(A) /\ after \in Seq(A)
  <2>1. \A n \in 1 .. Len(given) : Of(given[n]) \in A
    BY <1>3
  <2>2. last \in A
    OBVIOUS
  <2> HIDE DEF A, Of, last, given, open
  <2>3. before \in [1 .. Len(given) -> A]
    BY <1>3, <2>1
  <2> HIDE DEF before
  <2> QED
    BY <1>3, <2>2, <2>3
<1>5. Rr!Range(Rr!RoundsOf(i)) = Rr!Range(before) \cup Rr!Range(after)
  <2> HIDE DEF A, before, after
  <2> QED
    BY <1>1, <1>4, PartsOfAList
<1>6. CASE q \in Rr!AnsweredIn(v8[i].answers)
  <2>1. PICK a \in told : a.question = q
    BY <1>6 DEF Rr!AnsweredIn
  <2>2. a.revision \in 1 .. 3 /\ a.question.round \in 1 .. 3
    BY <1>2, <2>1 DEF Rr!AnswerSet, Rr!QuestionSet
  <2>3. Key(a) \in Rr!Range(Rr!Keys) /\ Rr!Keys \in Seq([revision : 1 .. 3, round : 1 .. 3])
    <3>1. /\ Rr!Keys \in Seq([revision : 1 .. 3, round : 1 .. 3])
          /\ \E n \in 1 .. Len(Rr!Keys) : Rr!Keys[n] = Key(a)
      BY <2>2, EveryKey
    <3>2. DOMAIN Rr!Keys = 1 .. Len(Rr!Keys)
      BY <3>1, ElementsOf
    <3> QED
      BY <3>1, <3>2 DEF Rr!Range
  <2>4. PICK k \in DOMAIN given : given[k] = Key(a)
    <3> DEFINE keys == {Key(b) : b \in told}
    <3>1. Key(a) \in keys /\ given = Within(Rr!Keys, keys)
      BY <1>0
    <3> DEFINE e == Key(a)
               D == [revision : 1 .. 3, round : 1 .. 3]
    <3>2. e \in Rr!Range(Rr!Keys) /\ Rr!Keys \in Seq(D) /\ e \in keys /\ given = Within(Rr!Keys, keys)
      BY <2>3, <3>1
    <3> HIDE DEF keys, Key, told, given, e, D
    <3>3. \E k \in DOMAIN given : given[k] = e
      BY <3>2, KeptIn
    <3> QED
      BY <3>3 DEF e
  <2>5. a \in Rr!Range(Of(given[k]).answers)
    <3> DEFINE those == {b \in told : Key(b) = given[k]}
    <3>1. a \in those
      BY <2>4
    <3>2. Of(given[k]).answers = Within(v8[i].answers, those)
      BY <1>0
    <3>3. a \in Rr!Range(v8[i].answers)
      OBVIOUS
    <3> HIDE DEF those, told, given, Of
    <3> QED
      BY <1>2, <3>1, <3>2, <3>3, KeptIn
  <2>6. Of(given[k]) \in Rr!Range(before)
    <3> HIDE DEF Of, given
    <3> QED
      BY DEF Rr!Range
  <2> HIDE DEF Of, given, before
  <2> QED
    BY <1>5, <2>1, <2>5, <2>6
<1>7. CASE q \notin Rr!AnsweredIn(v8[i].answers)
  <2>1. q \in open
    BY <1>7 DEF Rr!AnsweredIn
  <2>2. last.open = open
    OBVIOUS
  <2> HIDE DEF last, open, before, told
  <2>3. last \in Rr!Range(after)
    BY <2>1 DEF Rr!Range
  <2> QED
    BY <1>5, <2>1, <2>2, <2>3
<1> QED
  BY <1>6, <1>7

\* What the footnote under a hinge says is so.
LEMMA TheFootnotesTell ==
    ASSUME Rr!RecordsAssumption, Rr!IInv
    PROVE  Rr!FootnotesTellTheTruth
<1> SUFFICES ASSUME NEW i \in DOMAIN v8, NEW c \in v8[i].hinge
             PROVE  Rr!Means(i, c, Rr!HingeFootnote(i, c))
  BY DEF Rr!FootnotesTellTheTruth
<1> DEFINE asks == {q \in v8[i].questions : q.about = c}
           note == Rr!HingeFootnote(i, c)
<1>1. v8[i] \in Rr!RecordSet /\ Len(v8) \in Nat /\ DOMAIN v8 = 1 .. Len(v8) /\ v8[Len(v8)] = Rr!Last(v8)
      /\ v8[Len(v8)] \in Rr!RecordSet
  <2>1. v8 \in Seq(Rr!RecordSet)
    BY DEF Rr!IInv, Rr!RecordsAreTyped
  <2>2. Len(v8) \in Nat /\ DOMAIN v8 = 1 .. Len(v8) /\ \A k \in 1 .. Len(v8) : v8[k] \in Rr!RecordSet
    BY <2>1, ElementsOf
  <2> QED
    BY <2>2 DEF Rr!Last
<1>2. v8[i].status \in {"awaiting_answers", "completed", "cancelled", "failed"}
  BY <1>1 DEF Rr!RecordSet
<1>3. Rr!NamedBy(i, c) <=> asks # {}
  BY DEF Rr!NamedBy
<1>4. v8[i].status # "awaiting_answers" => i = Len(v8) /\ v9 = v8[i].status
  BY DEF Rr!IInv, Rr!OnlyTheLastEnds
<1>5. Rr!AwaitsAnswers(i) <=> v8[i].status = "awaiting_answers" /\ v9 = "awaiting_answers" /\ i = Len(v8)
                              /\ v8[i].questions # {}
  BY DEF Rr!AwaitsAnswers, Rr!Answerable
<1>6. Rr!CanAnswer <=> v9 = "awaiting_answers"
  BY DEF Rr!IInv, Rr!OnlyTheLastEnds, Rr!CanAnswer
<1>7. Rr!SupersededBy(i) # 0 <=> i # Len(v8)
  BY <1>1 DEF Rr!SupersededBy
<1>8. v8[i].status = "awaiting_answers" => v8[i].questions # {}
  BY DEF Rr!IInv, Rr!OnlyTheLastEnds
<1> HIDE DEF asks, note
<1>9. CASE v8[i].status = "cancelled"
  <2>1. note = IF asks # {} THEN "cancelled before it was answered" ELSE "cancelled unresolved"
    BY <1>3, <1>4, <1>5, <1>7, <1>9 DEF Rr!HingeFootnote, note
  <2>2. \A q \in asks : ~ Rr!Taken(q)
    BY <1>9 DEF Rr!IInv, Rr!AnswersAreOfEarlierRounds, asks
  <2>3. CASE asks # {}
    BY <2>1, <2>2, <2>3 DEF Rr!Means, note, asks
  <2>4. CASE asks = {}
    BY <2>1, <2>4 DEF Rr!Means, note, asks
  <2> QED
    BY <2>3, <2>4
<1>10. CASE v8[i].status = "failed"
  <2>1. note = IF v8[i].round > 1 THEN "had asked and been answered" ELSE "never put to anyone"
    BY <1>4, <1>5, <1>7, <1>10 DEF Rr!HingeFootnote, note
  <2>2. IF v8[i].round > 1 THEN v10.taken # {} ELSE v10.put = {}
    BY <1>10 DEF Rr!IInv, Rr!RoundsLeaveTheirMark
  <2>3. CASE v8[i].round > 1
    BY <2>1, <2>2, <2>3 DEF Rr!Means, note
  <2>4. CASE ~ (v8[i].round > 1)
    BY <2>1, <2>2, <2>4 DEF Rr!Means, note
  <2> QED
    BY <2>3, <2>4
<1>11. CASE v8[i].status = "completed"
  <2>1. note = "concluded with the uncertainty preserved"
    BY <1>4, <1>5, <1>7, <1>11 DEF Rr!HingeFootnote, note
  <2> QED
    BY <1>4, <1>11, <2>1 DEF Rr!Means, note
<1>12. CASE v8[i].status = "awaiting_answers" /\ i # Len(v8)
  <2>1. note = IF asks # {} THEN "asked here, see the record that replaced this" ELSE "not asked, moved on"
    BY <1>3, <1>5, <1>7, <1>12 DEF Rr!HingeFootnote, note
  <2>2. ASSUME NEW q \in asks
        PROVE  \E r \in Rr!Range(Rr!RoundsOf(Rr!SupersededBy(i))) :
                  q \in r.open \/ \E a \in Rr!Range(r.answers) : a.question = q
    <3>1. Len(v8) \in DOMAIN v8 /\ Rr!SupersededBy(i) = Len(v8)
      BY <1>1, <1>12 DEF Rr!SupersededBy
    <3>2. q \in Rr!AnsweredIn(v8[Len(v8)].answers) \cup v8[Len(v8)].questions
      BY <1>1, <1>12 DEF Rr!IInv, Rr!QuestionsAreFollowedUp, asks
    <3> DEFINE L == Len(v8)
    <3>3. L \in DOMAIN v8 /\ v8[L] \in Rr!RecordSet /\ q \in Rr!AnsweredIn(v8[L].answers) \cup v8[L].questions
      BY <1>1, <3>1, <3>2
    <3> HIDE DEF L
    <3>4. \E r \in Rr!Range(Rr!RoundsOf(L)) : q \in r.open \/ \E a \in Rr!Range(r.answers) : a.question = q
      BY <3>3, RoundsHoldAll
    <3> QED
      BY <3>1, <3>4 DEF L
  <2>3. CASE asks # {}
    BY <2>1, <2>2, <2>3 DEF Rr!Means, note, asks
  <2>4. CASE asks = {}
    BY <1>12, <2>1, <2>4 DEF Rr!Means, note, asks
  <2> QED
    BY <2>3, <2>4
<1>13. CASE v8[i].status = "awaiting_answers" /\ i = Len(v8) /\ v9 = "awaiting_answers"
  <2>1. note = IF asks # {} THEN "answering judges it again" ELSE "not asked, answering judges it again"
    BY <1>3, <1>5, <1>8, <1>13 DEF Rr!HingeFootnote, note
  <2>2. CASE asks # {}
    BY <1>6, <1>13, <2>1, <2>2 DEF Rr!Means, note, asks
  <2>3. CASE asks = {}
    BY <1>6, <1>13, <2>1, <2>3 DEF Rr!Means, note, asks
  <2> QED
    BY <2>2, <2>3
<1>14. CASE v8[i].status = "awaiting_answers" /\ i = Len(v8) /\ v9 # "awaiting_answers"
  <2>1. note = IF asks # {} THEN "asked here, and closed" ELSE "not asked, and closed"
    BY <1>3, <1>5, <1>7, <1>14 DEF Rr!HingeFootnote, note
  <2>2. CASE asks # {}
    BY <1>6, <1>14, <2>1, <2>2 DEF Rr!Means, note, asks
  <2>3. CASE asks = {}
    BY <1>6, <1>14, <2>1, <2>3 DEF Rr!Means, note, asks
  <2> QED
    BY <2>2, <2>3
<1> QED
  BY <1>2, <1>9, <1>10, <1>11, <1>12, <1>13, <1>14 DEF note

(***************************************************************************)
(* The docket                                                              *)
(***************************************************************************)
\* The order of the docket is one: no two findings come before each other, and one of any two
\* does.
LEMMA FindingsAreOrdered ==
    ASSUME Dk!DocketAssumption
    PROVE  /\ \A c \in DkCandidates : ~ Dk!Before(c, c)
           /\ \A c, d \in DkCandidates : c # d => Dk!Before(c, d) \/ Dk!Before(d, c)
           /\ \A b, c, d \in DkCandidates : Dk!Before(b, c) /\ Dk!Before(c, d) => Dk!Before(b, d)
<1> DEFINE rank(c) == Dk!Rank[DkVerdict[c]]
<1>1. \A c \in DkCandidates : rank(c) \in Int /\ c \in Int
  BY DEF Dk!DocketAssumption, Dk!Rank
<1>2. \A c, d \in DkCandidates : Dk!Before(c, d) <=>
         \/ c \in DkMoved /\ d \notin DkMoved
         \/ (c \in DkMoved <=> d \in DkMoved) /\ (rank(c) < rank(d) \/ (rank(c) = rank(d) /\ c < d))
  BY DEF Dk!Before
<1> HIDE DEF rank
<1>3. \A c \in DkCandidates : ~ Dk!Before(c, c)
  BY <1>1, <1>2
<1>4. ASSUME NEW c \in DkCandidates, NEW d \in DkCandidates, c # d
      PROVE  Dk!Before(c, d) \/ Dk!Before(d, c)
  <2>1. rank(c) < rank(d) \/ rank(d) < rank(c) \/ (rank(c) = rank(d) /\ (c < d \/ d < c))
    BY <1>1, <1>4
  <2> QED
    BY <1>2, <2>1
<1>5. ASSUME NEW b \in DkCandidates, NEW c \in DkCandidates, NEW d \in DkCandidates,
             Dk!Before(b, c), Dk!Before(c, d)
      PROVE  Dk!Before(b, d)
  <2> DEFINE Less(x, y) == rank(x) < rank(y) \/ (rank(x) = rank(y) /\ x < y)
  <2>1. Less(b, c) /\ Less(c, d) => Less(b, d)
    BY <1>1
  <2>2. \A x, y \in DkCandidates : Dk!Before(x, y) <=>
           (x \in DkMoved /\ y \notin DkMoved) \/ ((x \in DkMoved <=> y \in DkMoved) /\ Less(x, y))
    BY <1>2
  <2> HIDE DEF Less
  <2> QED
    BY <1>5, <2>1, <2>2
<1> QED
  BY <1>3, <1>4, <1>5

\* Each finding is in the order of the docket at a place, and nothing else is.
LEMMA OrderedFindingsHold ==
    ASSUME Dk!DocketAssumption
    PROVE  /\ Dk!OrderedFindings \in Seq(DkCandidates)
           /\ \A c \in DkCandidates : \E n \in 1 .. Len(Dk!OrderedFindings) : Dk!OrderedFindings[n] = c
<1> DEFINE below(c) == {d \in DkCandidates : Dk!Before(d, c)}
           n == Cardinality(DkCandidates)
           k == [c \in DkCandidates |-> Cardinality(below(c))]
<1>1. IsFiniteSet(DkCandidates) /\ n \in Nat
  <2>1. IsFiniteSet(DkCandidates)
    BY DEF Dk!DocketAssumption, Dk!IsFiniteSet, IsFiniteSet
  <2> QED
    BY <2>1, FS_CardinalityType
<1>2. \A S : Dk!Cardinality(S) = Cardinality(S)
  BY DEF Dk!Cardinality, Cardinality
<1>3. \A c \in DkCandidates : IsFiniteSet(below(c)) /\ Cardinality(below(c)) \in Nat
  <2>1. \A c \in DkCandidates : below(c) \in SUBSET DkCandidates
    OBVIOUS
  <2> HIDE DEF below
  <2> QED
    BY <1>1, <2>1, FS_Subset, FS_CardinalityType
<1>4. ASSUME NEW c \in DkCandidates
      PROVE  k[c] \in 0 .. n - 1
  <2>1. below(c) \in SUBSET DkCandidates /\ c \notin below(c)
    BY FindingsAreOrdered
  <2>2. Cardinality(below(c)) <= n /\ Cardinality(below(c)) # n
    <3> HIDE DEF below
    <3> QED
      BY <1>1, <2>1, FS_Subset
  <2> QED
    BY <1>1, <1>3, <2>2
<1>5. ASSUME NEW c \in DkCandidates, NEW d \in DkCandidates, Dk!Before(c, d)
      PROVE  k[c] < k[d]
  <2>1. below(c) \in SUBSET below(d) /\ c \in below(d) /\ c \notin below(c)
    BY <1>5, FindingsAreOrdered
  <2>2. Cardinality(below(c)) <= Cardinality(below(d)) /\ Cardinality(below(c)) # Cardinality(below(d))
    <3> HIDE DEF below
    <3> QED
      BY <1>3, <2>1, FS_Subset
  <2> QED
    BY <1>3, <2>2
<1>6. \A c, d \in DkCandidates : c # d => k[c] # k[d]
  <2> SUFFICES ASSUME NEW c \in DkCandidates, NEW d \in DkCandidates, c # d
               PROVE  k[c] # k[d]
    OBVIOUS
  <2>1. k[c] \in Nat /\ k[d] \in Nat
    BY <1>3
  <2>2. Dk!Before(c, d) \/ Dk!Before(d, c)
    BY FindingsAreOrdered
  <2> HIDE DEF k
  <2> QED
    BY <1>5, <2>1, <2>2
<1> DEFINE places == 0 .. n - 1
<1>7. k \in Injection(DkCandidates, places)
  <2>1. k \in [DkCandidates -> places]
    BY <1>4
  <2> HIDE DEF k
  <2> QED
    BY <1>6, <2>1 DEF Injection, IsInjective
<1>8. k \in Surjection(DkCandidates, places)
  <2>1. IsFiniteSet(places) /\ Cardinality(places) = n
    <3>1. 0 \in Int /\ n - 1 \in Int
      BY <1>1
    <3>2. IsFiniteSet(0 .. n - 1) /\ Cardinality(0 .. n - 1) = IF 0 > n - 1 THEN 0 ELSE (n - 1) - 0 + 1
      BY <3>1, FS_Interval
    <3> HIDE DEF n
    <3> QED
      BY <1>1, <3>2
  <2> HIDE DEF k, places
  <2> QED
    BY <1>7, <2>1, FS_Injection DEF n
<1>9. \A i \in 1 .. n : \E c \in DkCandidates : k[c] = i - 1
  <2>1. \A i \in 1 .. n : i - 1 \in places
    BY <1>1
  <2> HIDE DEF k, places
  <2> QED
    BY <1>8, <2>1 DEF Surjection
<1>10. /\ DOMAIN Dk!OrderedFindings = 1 .. n
       /\ \A i \in 1 .. n : Dk!OrderedFindings[i] \in DkCandidates /\ k[Dk!OrderedFindings[i]] = i - 1
  <2>1. n = Dk!Cardinality(DkCandidates)
    BY <1>2
  <2>2. DOMAIN Dk!OrderedFindings = 1 .. n
    BY <2>1 DEF Dk!OrderedFindings
  <2>3. ASSUME NEW i \in 1 .. n
        PROVE  Dk!OrderedFindings[i] \in DkCandidates /\ k[Dk!OrderedFindings[i]] = i - 1
    <3> DEFINE HasRank(c) == Dk!Cardinality({d \in DkCandidates : Dk!Before(d, c)}) = i - 1
    <3>1. \A c \in DkCandidates : HasRank(c) <=> k[c] = i - 1
      BY <1>2
    <3>2. Dk!OrderedFindings[i] = CHOOSE c \in DkCandidates : HasRank(c)
      BY <2>1 DEF Dk!OrderedFindings
    <3>3. \E c \in DkCandidates : HasRank(c)
      BY <1>9, <3>1
    <3> HIDE DEF HasRank, k
    <3> QED
      BY <3>1, <3>2, <3>3
  <2> QED
    BY <2>2, <2>3
<1>11. Dk!OrderedFindings \in [1 .. n -> DkCandidates]
  <2> HIDE DEF k, n
  <2>1. Dk!OrderedFindings = [i \in 1 .. n |-> Dk!OrderedFindings[i]]
    BY <1>10 DEF Dk!OrderedFindings
  <2> QED
    BY <1>10, <2>1
<1> HIDE DEF k, n
<1>12. Dk!OrderedFindings \in Seq(DkCandidates) /\ Len(Dk!OrderedFindings) = n
  BY <1>1, <1>11
<1>13. ASSUME NEW c \in DkCandidates
       PROVE  \E i \in 1 .. n : Dk!OrderedFindings[i] = c
  <2>1. k[c] \in 0 .. n - 1 /\ k[c] + 1 \in 1 .. n /\ (k[c] + 1) - 1 = k[c]
    BY <1>1, <1>4
  <2>2. k[Dk!OrderedFindings[k[c] + 1]] = k[c] /\ Dk!OrderedFindings[k[c] + 1] \in DkCandidates
    BY <1>10, <2>1
  <2> QED
    BY <1>6, <2>1, <2>2
<1> QED
  BY <1>12, <1>13

\* What is left of a list is of the list and of the set, and holds all that is of both.
LEMMA WhatIsLeftIsInBoth ==
    ASSUME NEW A, NEW s \in Seq(A), NEW S
    PROVE  /\ DOMAIN Within(s, S) \subseteq Nat
           /\ \A i \in DOMAIN Within(s, S) : Within(s, S)[i] \in S \cap A
           /\ \A n \in 1 .. Len(s) : s[n] \in S => \E i \in DOMAIN Within(s, S) : Within(s, S)[i] = s[n]
<1> DEFINE rows == Within(s, S)
<1>1. rows \in Seq(A)
  BY WithinTheList
<1>2. PICK h \in [1 .. Len(rows) -> 1 .. Len(s)] :
         /\ \A j \in 1 .. Len(rows) : rows[j] = s[h[j]] /\ s[h[j]] \in S
         /\ \A i \in 1 .. Len(s) : s[i] \in S => \E j \in 1 .. Len(rows) : h[j] = i
  BY WithinTheList
<1> HIDE DEF rows
<1>3. Len(rows) \in Nat /\ DOMAIN rows = 1 .. Len(rows) /\ \A i \in 1 .. Len(rows) : rows[i] \in A
  BY <1>1, ElementsOf
<1>4. \A i \in DOMAIN rows : rows[i] \in S \cap A
  BY <1>2, <1>3
<1>5. ASSUME NEW n \in 1 .. Len(s), s[n] \in S
      PROVE  \E i \in DOMAIN rows : rows[i] = s[n]
  <2>1. PICK j \in 1 .. Len(rows) : h[j] = n
    BY <1>2, <1>5
  <2> QED
    BY <1>2, <1>3, <2>1
<1> QED
  BY <1>3, <1>4, <1>5 DEF rows

\* What the docket shows is what it lists.
LEMMA ShownIsListed ==
    ASSUME Dk!DocketAssumption, NEW S
    PROVE  LET rows == Dk!Within(Dk!OrderedFindings, S)
           IN  /\ DOMAIN rows \subseteq Nat
               /\ \A i \in DOMAIN rows : rows[i] \in S \cap DkCandidates
               /\ \A c \in S \cap DkCandidates : \E i \in DOMAIN rows : rows[i] = c
<1> DEFINE s == Dk!OrderedFindings
           rows == Within(s, S)
<1>1. s \in Seq(DkCandidates) /\ Dk!Within(Dk!OrderedFindings, S) = rows
  BY OrderedFindingsHold DEF Dk!Within, Within
<1> HIDE DEF s
<1>2. /\ DOMAIN rows \subseteq Nat
      /\ \A i \in DOMAIN rows : rows[i] \in S \cap DkCandidates
      /\ \A n \in 1 .. Len(s) : s[n] \in S => \E i \in DOMAIN rows : rows[i] = s[n]
  BY <1>1, WhatIsLeftIsInBoth
<1> HIDE DEF rows
<1>3. ASSUME NEW c \in S \cap DkCandidates
      PROVE  \E i \in DOMAIN rows : rows[i] = c
  <2>1. PICK n \in 1 .. Len(s) : s[n] = c
    BY OrderedFindingsHold DEF s
  <2> QED
    BY <1>2, <2>1
<1> QED
  BY <1>1, <1>2, <1>3

\* The least of a set of places is one of them.
LEMMA LeastPlace ==
    ASSUME NEW S \in SUBSET Nat, S # {}
    PROVE  Dk!Min(S) \in S
<1>1. PICK m \in S : \A n \in S : m <= n
  BY LeastNumber
<1> QED
  BY <1>1 DEF Dk!Min

\* Going on finds a row that is listed and wants a person, or there is none.
LEMMA AdvanceFinds ==
    ASSUME Dk!DocketAssumption, NEW from, NEW l
    PROVE  \/ Dk!Advance(from, l) \in Dk!Listed(l) \cap DkCandidates /\ Dk!NeedsAttention(Dk!Advance(from, l), l)
           \/ /\ Dk!Advance(from, l) = None
              /\ \A c \in Dk!Listed(l) \cap DkCandidates : ~ Dk!NeedsAttention(c, l)
<1> DEFINE S == Dk!Listed(l)
           rows == Dk!Visible(l)
           Wants(c) == Dk!NeedsAttention(c, l)
           wanting == {i \in DOMAIN rows : Wants(rows[i])}
           after == {i \in wanting : \A k \in DOMAIN rows : rows[k] = from => k < i}
           found == Dk!Advance(from, l)
<1>1. /\ DOMAIN rows \subseteq Nat
      /\ \A i \in DOMAIN rows : rows[i] \in S \cap DkCandidates
      /\ \A c \in S \cap DkCandidates : \E i \in DOMAIN rows : rows[i] = c
  <2> HIDE DEF S
  <2>1. rows = Dk!Within(Dk!OrderedFindings, S)
    BY DEF Dk!Visible, S
  <2> HIDE DEF rows
  <2> QED
    BY <2>1, ShownIsListed
<1>2. found = IF after # {} THEN rows[Dk!Min(after)] ELSE IF wanting # {} THEN rows[Dk!Min(wanting)] ELSE None
  BY DEF Dk!Advance
<1> HIDE DEF S, rows, Wants, found
<1>3. wanting \in SUBSET Nat /\ after \in SUBSET wanting /\ wanting \subseteq DOMAIN rows
  BY <1>1
<1>4. \A i \in wanting : Wants(rows[i]) /\ rows[i] \in S \cap DkCandidates
  BY <1>1
<1>5. wanting = {} => \A c \in S \cap DkCandidates : ~ Wants(c)
  BY <1>1
<1> HIDE DEF wanting, after
<1>6. CASE after # {}
  <2>1. Dk!Min(after) \in wanting
    BY <1>3, <1>6, LeastPlace
  <2> QED
    BY <1>2, <1>4, <1>6, <2>1 DEF S, Wants, found
<1>7. CASE after = {} /\ wanting # {}
  <2>1. Dk!Min(wanting) \in wanting
    BY <1>3, <1>7, LeastPlace
  <2> QED
    BY <1>2, <1>4, <1>7, <2>1 DEF S, Wants, found
<1>8. CASE after = {} /\ wanting = {}
  BY <1>2, <1>5, <1>8 DEF S, Wants, found
<1> QED
  BY <1>6, <1>7, <1>8

\* What the docket's state is, part by part.
DocketFlags == v3 \in BOOLEAN /\ v4 \in BOOLEAN /\ v5 \in BOOLEAN

DocketCalls ==
    /\ v7 \in [1 .. DkMaxCalls -> Dk!Call \cup {None}]
    /\ \A i \in Dk!InFlight : ~v7[i].bulk => \E c \in DkCandidates : v7[i].cands = {c}
    /\ v8 \in 0 .. DkMaxActs

DocketLists ==
    /\ v1 \in Dk!List /\ v2 \in Dk!List
    /\ v6 \in Dk!List \cup {None, Asked}

DocketShown ==
    /\ v9 \in DkCandidates \cup {None, Clarification}
    /\ v10 \in {"attention", "settled", "all"}
    /\ v11 \in SUBSET DkCandidates /\ v12 \in SUBSET DkCandidates
    /\ v13 \in {"nothing", "word"} /\ v16 \in {"docket", "other"}

DocketBar ==
    /\ v14 \in {"closed", "empty", "typed"} /\ v15 \in 0 .. DkMaxCalls
    /\ v14 # "closed" \/ v15 # 0 =>
          v9 \in DkCandidates /\ (v13 = "nothing" \/ v9 \in DkFound) /\ v16 = "docket"

DocketUnread == ~v4 => v9 = None /\ Dk!InFlight = {} /\ v16 = "docket"

DocketBatches == v17 \subseteq Dk!InFlight

DocketState == DocketFlags /\ DocketCalls /\ DocketLists /\ DocketShown /\ DocketBar /\ DocketUnread

\* The parts are the whole.
LEMMA DocketParts ==
    ASSUME Dk!DocketAssumption
    PROVE  /\ Dk!TypeOK /\ Dk!CallsAreTyped <=> DocketState /\ DocketBatches
           /\ (Dk!TypeOK /\ Dk!CallsAreTyped)' <=> (DocketState /\ DocketBatches)'
<1>1. None \notin DkCandidates /\ Clarification \notin DkCandidates
  BY DEF Dk!DocketAssumption
<1>2. v11 \in SUBSET DkCandidates => (v9 \in Dk!Listed(v2) <=>
          v9 \in DkCandidates /\ (v13 = "nothing" \/ v9 \in DkFound))
  BY DEF Dk!Listed, Dk!Matching
<1>3. v11' \in SUBSET DkCandidates => ((v9 \in Dk!Listed(v2))' <=>
          v9' \in DkCandidates /\ (v13' = "nothing" \/ v9' \in DkFound))
  BY DEF Dk!Listed, Dk!Matching
<1>4. v7 \in [1 .. DkMaxCalls -> Dk!Call \cup {None}] =>
          \A i \in DOMAIN v7 : v7[i] # None => v7[i].cands \subseteq DkCandidates /\ v7[i].disp \in DkDispositions
  BY DEF Dk!Call
<1>5. v7' \in [1 .. DkMaxCalls -> Dk!Call \cup {None}] =>
          \A i \in DOMAIN v7' : v7'[i] # None => v7'[i].cands \subseteq DkCandidates /\ v7'[i].disp \in DkDispositions
  BY DEF Dk!Call
<1>6. Dk!TypeOK /\ Dk!CallsAreTyped <=> DocketState /\ DocketBatches
  BY <1>2, <1>4 DEF Dk!TypeOK, Dk!CallsAreTyped, DocketState, DocketFlags, DocketCalls, DocketLists, DocketShown, DocketBar, DocketUnread, DocketBatches
<1>7. (Dk!TypeOK /\ Dk!CallsAreTyped)' <=> (DocketState /\ DocketBatches)'
  BY <1>3, <1>5 DEF Dk!TypeOK, Dk!CallsAreTyped, DocketState, DocketFlags, DocketCalls, DocketLists, DocketShown, DocketBar, DocketUnread, DocketBatches
<1> QED
  BY <1>6, <1>7

\* A decision that is new, that is over or that goes on is the only one that changes.
LEMMA OneCallChanges ==
    ASSUME DocketCalls, NEW i \in 1 .. DkMaxCalls, NEW call \in Dk!Call \cup {None},
           v7' = [v7 EXCEPT ![i] = call], v8' \in 0 .. DkMaxActs,
           call # None /\ ~call.bulk => \E c \in DkCandidates : call.cands = {c}
    PROVE  DocketCalls' /\ v7'[i] = call /\ \A j \in 1 .. DkMaxCalls \ {i} : v7'[j] = v7[j]
<1>1. v7' \in [1 .. DkMaxCalls -> Dk!Call \cup {None}]
  BY DEF DocketCalls
<1>2. v7'[i] = call /\ \A j \in 1 .. DkMaxCalls \ {i} : v7'[j] = v7[j]
  BY DEF DocketCalls
<1>3. ASSUME NEW j \in Dk!InFlight', ~v7'[j].bulk
      PROVE  \E c \in DkCandidates : v7'[j].cands = {c}
  BY <1>1, <1>2, <1>3 DEF Dk!InFlight, DocketCalls
<1> QED
  BY <1>1, <1>2, <1>3 DEF DocketCalls

\* A decision goes on as it was.
LEMMA ACallGoesOn ==
    ASSUME NEW call \in Dk!Call, NEW s \in {"sent", "recorded", "refreshing"}
    PROVE  /\ [call EXCEPT !.state = s] \in Dk!Call
           /\ [call EXCEPT !.state = s].state = s
           /\ [call EXCEPT !.state = s].cands = call.cands
           /\ [call EXCEPT !.state = s].bulk = call.bulk
           /\ [call EXCEPT !.state = s].disp = call.disp
           /\ [call EXCEPT !.state = s].previous = call.previous
BY DEF Dk!Call

\* A decision in flight has its place.
LEMMA ACallInFlight ==
    ASSUME DocketCalls, NEW i \in Dk!InFlight, Dk!DocketAssumption
    PROVE  i \in 1 .. DkMaxCalls /\ v7[i] \in Dk!Call /\ v7[i].cands \subseteq DkCandidates
           /\ v7[i].disp \in DkDispositions
<1>1. i \in 1 .. DkMaxCalls /\ v7[i] \in Dk!Call
  BY DEF DocketCalls, Dk!InFlight
<1> QED
  BY <1>1 DEF Dk!Call

\* A list with a decision written into it is a list.
LEMMA AListWithADecision ==
    ASSUME Dk!DocketAssumption, NEW l \in Dk!List, NEW c \in DkCandidates, NEW d \in DkDispositions
    PROVE  Dk!WithDecision(l, c, d) \in Dk!List
<1>1. [disp |-> d, against |-> DkVerdict[c]] \in Dk!Decision
  BY DEF Dk!DocketAssumption, Dk!Decision
<1> QED
  BY <1>1 DEF Dk!WithDecision, Dk!List

\* What a render with a new list may change.
LEMMA ReceiveKeeps ==
    ASSUME Dk!DocketAssumption, DocketShown, NEW l \in Dk!List, NEW decided \in SUBSET DkCandidates,
           Dk!Receive(l, decided), UNCHANGED <<v10, v12, v13, v16>>
    PROVE  /\ DocketShown' /\ v2' = l /\ v11 \subseteq v11'
           /\ v9' # v9 => v9 \in DkCandidates /\ v9' = Dk!Advance(v9, l)
<1>1. v9' # v9 => Dk!Settled(v9, l) /\ v9' = Dk!Advance(v9, l)
  BY DEF Dk!Receive
<1>2. Dk!Settled(v9, l) => v9 \in DkCandidates
  BY DEF Dk!Settled
<1>3. v9' \in DkCandidates \cup {None, Clarification}
  BY <1>1, AdvanceFinds DEF DocketShown
<1>4. v11' \in SUBSET DkCandidates /\ v11 \subseteq v11' /\ v2' = l
  BY <1>2 DEF Dk!Receive, DocketShown
<1> QED
  BY <1>1, <1>2, <1>3, <1>4 DEF DocketShown

\* The bar that stays is the open row's.
LEMMA BarIsKept ==
    ASSUME DocketBar, NEW b \in {"closed", "empty", "typed"}, NEW m \in 0 .. DkMaxCalls, Dk!DocketAssumption,
           b # "closed" \/ m # 0 => /\ v9 \in DkCandidates
                                    /\ v13 = "nothing" \/ v9 \in DkFound
                                    /\ v16 = "docket",
           Dk!BarFollows(b, m), UNCHANGED <<v13, v16>>
    PROVE  DocketBar'
<1>1. 0 \in 0 .. DkMaxCalls
  BY DEF Dk!DocketAssumption
<1> QED
  BY <1>1 DEF Dk!BarFollows, DocketBar

\* The docket begins so.
LEMMA DocketBegins ==
    ASSUME Dk!DocketAssumption, Dk!Init
    PROVE  Dk!IInv
<1>1. v1 \in Dk!List /\ v2 \in Dk!List /\ v2 = [c \in DkCandidates |-> None]
  BY DEF Dk!Init, Dk!DocketAssumption, Dk!List
<1>2. DocketFlags
  <2>1. v3 = FALSE /\ v4 = FALSE /\ v5 = FALSE
    BY DEF Dk!Init
  <2> QED
    BY <2>1, Zenon DEF DocketFlags
<1>3. v7 = [i \in 1 .. DkMaxCalls |-> None] /\ Dk!InFlight = {}
  BY DEF Dk!Init, Dk!InFlight
<1>4. 0 \in 0 .. DkMaxCalls /\ 0 \in 0 .. DkMaxActs
  BY DEF Dk!DocketAssumption
<1>5. DocketCalls
  BY <1>3, <1>4 DEF DocketCalls, Dk!Init
<1>6. DocketLists /\ DocketShown
  BY <1>1 DEF DocketLists, DocketShown, Dk!Init
<1>7. DocketBar /\ DocketUnread
  BY <1>3, <1>4 DEF DocketBar, DocketUnread, Dk!Init
<1>8. Dk!TypeOK /\ Dk!CallsAreTyped
  <2>1. DocketBatches
    BY DEF DocketBatches, Dk!Init
  <2> QED
    BY <1>2, <1>5, <1>6, <1>7, <2>1, DocketParts DEF DocketState
<1>9. Dk!SureRowsAreAccountedFor
  BY DEF Dk!Init, Dk!SureRowsAreAccountedFor
<1> QED
  BY <1>8, <1>9 DEF Dk!IInv

\* A read of the list, or its age.
LEMMA ReadsKeepParts ==
    ASSUME Dk!DocketAssumption, DocketState, Dk!FetchReads \/ Dk!Ages
    PROVE  DocketState'
<1>1. DocketFlags'
  <2>1. CASE Dk!FetchReads
    BY <2>1 DEF Dk!FetchReads, DocketState, DocketFlags
  <2>2. CASE Dk!Ages
    <3>1. v5' = FALSE /\ v3' = v3 /\ v4' = v4
      BY <2>2 DEF Dk!Ages
    <3> QED
      BY <3>1, Zenon DEF DocketState, DocketFlags
  <2> QED
    BY <2>1, <2>2
<1>2. UNCHANGED <<v1, v2, v4, v7, v8, v9, v10, v11, v12, v13, v14, v15, v16>> /\ (v6' = v6 \/ v6' = v1)
  BY DEF Dk!FetchReads, Dk!Ages
<1>3. DocketCalls' /\ DocketUnread'
  BY <1>2 DEF DocketState, DocketCalls, DocketUnread, Dk!InFlight
<1>4. DocketLists' /\ DocketShown' /\ DocketBar'
  BY <1>2 DEF DocketState, DocketLists, DocketShown, DocketBar
<1> QED
  BY <1>1, <1>3, <1>4 DEF DocketState

\* What the end of a read does to the decisions in flight.
LEMMA RefreshesEnd ==
    ASSUME DocketCalls, v7' = Dk!AfterRefresh, v8' = v8
    PROVE  DocketCalls' /\ Dk!InFlight' = Dk!InFlight \ Dk!Refreshed /\ \A i \in Dk!InFlight' : v7'[i] = v7[i]
<1>1. v7' \in [1 .. DkMaxCalls -> Dk!Call \cup {None}]
  BY DEF DocketCalls, Dk!AfterRefresh
<1>2. Dk!InFlight' = Dk!InFlight \ Dk!Refreshed /\ \A i \in Dk!InFlight' : v7'[i] = v7[i]
  BY <1>1 DEF Dk!InFlight, DocketCalls, Dk!AfterRefresh
<1> QED
  BY <1>1, <1>2 DEF DocketCalls

\* A decision that is sent while those end.
LEMMA AnotherCall ==
    ASSUME DocketCalls, NEW i \in 1 .. DkMaxCalls, NEW call \in Dk!Call,
           v7' = [Dk!AfterRefresh EXCEPT ![i] = call], v8' \in 0 .. DkMaxActs,
           ~call.bulk => \E c \in DkCandidates : call.cands = {c}
    PROVE  /\ DocketCalls' /\ v7'[i] = call
           /\ \A j \in 1 .. DkMaxCalls \ {i} : v7'[j] = IF j \in Dk!Refreshed THEN None ELSE v7[j]
<1>1. Dk!AfterRefresh \in [1 .. DkMaxCalls -> Dk!Call \cup {None}]
  BY DEF DocketCalls, Dk!AfterRefresh
<1>2. v7' \in [1 .. DkMaxCalls -> Dk!Call \cup {None}] /\ v7'[i] = call
      /\ \A j \in 1 .. DkMaxCalls \ {i} : v7'[j] = Dk!AfterRefresh[j]
  BY <1>1
<1>3. \A j \in 1 .. DkMaxCalls \ {i} : v7'[j] = IF j \in Dk!Refreshed THEN None ELSE v7[j]
  BY <1>2 DEF Dk!AfterRefresh, DocketCalls
<1>4. ASSUME NEW j \in Dk!InFlight', ~v7'[j].bulk
      PROVE  \E c \in DkCandidates : v7'[j].cands = {c}
  BY <1>2, <1>3, <1>4 DEF Dk!InFlight, DocketCalls
<1> QED
  BY <1>2, <1>3, <1>4 DEF DocketCalls

\* What decisions are taken on are rows of the docket.
LEMMA RowsAreCandidates ==
    ASSUME Dk!DocketAssumption, DocketCalls, NEW S \in SUBSET Dk!InFlight
    PROVE  Dk!RowsOf(S) \in SUBSET DkCandidates
<1>1. \A i \in Dk!InFlight : v7[i].cands \subseteq DkCandidates
  BY ACallInFlight
<1> QED
  BY <1>1 DEF Dk!RowsOf

\* The row the page opens on.
LEMMA OpensOnARow ==
    ASSUME Dk!DocketAssumption, NEW l, Dk!Opens(l)
    PROVE  v9' \in DkCandidates \cup {None, Clarification} /\ v10' \in {"attention", "all"}
<1> DEFINE wanting == Dk!Within(Dk!OrderedFindings, {c \in DkCandidates : Dk!NeedsAttention(c, l)})
<1>1. wanting # <<>> => wanting[1] \in DkCandidates
  <2> DEFINE S == {c \in DkCandidates : Dk!NeedsAttention(c, l)}
             s == Dk!OrderedFindings
  <2>1. s \in Seq(DkCandidates) /\ wanting = Within(s, S)
    BY OrderedFindingsHold DEF Dk!Within, Within
  <2> HIDE DEF wanting, S, s
  <2>2. wanting \in Seq(DkCandidates)
    BY <2>1, WithinTheList
  <2> QED
    BY <2>2
<1>2. v10' = (IF wanting # <<>> THEN "attention" ELSE "all")
      /\ v9' = (IF DkWaiting THEN Clarification ELSE IF wanting = <<>> THEN None ELSE wanting[1])
  BY DEF Dk!Opens
<1> HIDE DEF wanting
<1> QED
  BY <1>1, <1>2

\* The end of a read of the list.
LEMMA EndOfReadKeepsParts ==
    ASSUME Dk!DocketAssumption, DocketState, Dk!FetchArrives \/ Dk!FetchFails
    PROVE  DocketState'
<1>1. PICK l \in Dk!List : Dk!AfterFetch(l)
  <2>1. v6 \in Dk!List \cup {None, Asked} /\ v2 \in Dk!List
    BY DEF DocketState, DocketLists
  <2> QED
    BY <2>1 DEF Dk!FetchArrives, Dk!FetchFails
<1>2. DocketFlags'
  <2>1. v4' = TRUE
    BY <1>1 DEF Dk!AfterFetch
  <2>2. (v3' = TRUE /\ v5' = TRUE) \/ (v3' = v3 /\ v5' = v5)
    BY DEF Dk!FetchArrives, Dk!FetchFails
  <2>3. v3' \in BOOLEAN /\ v5' \in BOOLEAN
    BY <2>2, Zenon DEF DocketState, DocketFlags
  <2>4. v4' \in BOOLEAN
    BY <2>1, Zenon
  <2> QED
    BY <2>3, <2>4, Zenon DEF DocketFlags
<1> DEFINE decided == Dk!RowsOf(Dk!Refreshed)
<1>3. decided \in SUBSET DkCandidates
  <2>1. \A i \in Dk!InFlight : v7[i].cands \subseteq DkCandidates
    BY ACallInFlight DEF DocketState
  <2> QED
    BY <2>1 DEF Dk!Refreshed, Dk!RowsOf
<1>4. DocketCalls'
  BY <1>1, RefreshesEnd DEF Dk!AfterFetch, DocketState
<1>5. /\ v1' = v1 /\ v8' = v8 /\ UNCHANGED <<v12, v13, v16>> /\ v6' \in {None, Asked} /\ Dk!BarFollows(v14, v15)
      /\ v4' /\ IF v4 THEN Dk!Receive(l, decided) /\ UNCHANGED v10
                      ELSE Dk!Opens(l) /\ v2' = l /\ UNCHANGED v11
  BY <1>1 DEF Dk!AfterFetch
<1> HIDE DEF decided
<1>6. DocketShown' /\ v2' = l
  <2>1. CASE v4
    BY <1>3, <1>5, <2>1, ReceiveKeeps DEF DocketState
  <2>2. CASE ~v4
    BY <1>5, <2>2, OpensOnARow DEF DocketState, DocketShown
  <2> QED
    BY <2>1, <2>2
<1>7. DocketLists'
  BY <1>5, <1>6 DEF DocketLists, DocketState
<1>8. DocketBar'
  <2>1. DocketBar /\ v14 \in {"closed", "empty", "typed"} /\ v15 \in 0 .. DkMaxCalls
    BY DEF DocketBar, DocketState
  <2>2. v14 # "closed" \/ v15 # 0 => /\ v9 \in DkCandidates
                                     /\ v13 = "nothing" \/ v9 \in DkFound
                                     /\ v16 = "docket"
    BY DEF DocketBar, DocketState
  <2> QED
    BY <1>5, <2>1, <2>2, BarIsKept
<1>9. DocketUnread'
  BY <1>5 DEF DocketUnread
<1> QED
  BY <1>2, <1>4, <1>6, <1>7, <1>8, <1>9 DEF DocketState

\* What a decision sent on one row does.
LEMMA DecideKeepsParts ==
    ASSUME Dk!DocketAssumption, DocketState, NEW d \in DkDispositions, Dk!Decide(d)
    PROVE  DocketState'
<1>1. v9 \in DkCandidates /\ v9 \in Dk!Listed(v2) /\ v4 /\ v16 = "docket"
  BY DEF Dk!Decide, Dk!MayDecide, Dk!Live
<1>2. PICK i \in DOMAIN v7 :
         /\ Dk!Sends(i, Dk!AfterRefresh, [cands |-> {v9}, disp |-> d, bulk |-> FALSE, state |-> "sent",
                                          previous |-> IF v3 THEN v2 ELSE None])
         /\ Dk!Receive(Dk!WithDecision(v2, v9, d), Dk!RowsOf(Dk!Refreshed))
         /\ Dk!BarFollows(v14, i)
  BY DEF Dk!Decide
<1> DEFINE call == [cands |-> {v9}, disp |-> d, bulk |-> FALSE, state |-> "sent",
                    previous |-> IF v3 THEN v2 ELSE None]
           l == Dk!WithDecision(v2, v9, d)
<1>3. UNCHANGED <<v1, v4, v10, v12, v13, v16>> /\ v6' = None /\ v3' = TRUE /\ v5' = TRUE
  BY DEF Dk!Decide
<1>4. call \in Dk!Call /\ call # None /\ call.cands = {v9}
  <2>1. call \in Dk!Call
    BY <1>1 DEF Dk!Call, DocketState, DocketLists
  <2> QED
    BY <2>1 DEF Dk!DocketAssumption
<1>5. l \in Dk!List
  BY <1>1, AListWithADecision DEF DocketState, DocketLists
<1>6. i \in 1 .. DkMaxCalls /\ v7' = [Dk!AfterRefresh EXCEPT ![i] = call] /\ v8' \in 0 .. DkMaxActs
  BY <1>2 DEF Dk!Sends, Dk!Acts, DocketState, DocketCalls, Dk!DocketAssumption
<1> HIDE DEF call, l
<1>7. DocketCalls'
  BY <1>1, <1>4, <1>6, AnotherCall DEF DocketState
<1>8. DocketShown' /\ v2' = l
  <2>1. Dk!RowsOf(Dk!Refreshed) \in SUBSET DkCandidates
    BY RowsAreCandidates DEF DocketState, Dk!Refreshed
  <2>2. Dk!Receive(l, Dk!RowsOf(Dk!Refreshed))
    BY <1>2 DEF l
  <2> QED
    BY <1>3, <1>5, <2>1, <2>2, ReceiveKeeps DEF DocketState
<1>9. DocketLists'
  BY <1>3, <1>5, <1>8 DEF DocketLists, DocketState
<1>10. DocketBar'
  <2>1. v13 = "nothing" \/ v9 \in DkFound
    BY <1>1 DEF Dk!Listed
  <2>2. DocketBar /\ v14 \in {"closed", "empty", "typed"} /\ i \in 0 .. DkMaxCalls
    BY <1>6 DEF DocketBar, DocketState, Dk!DocketAssumption
  <2> QED
    BY <1>1, <1>2, <1>3, <2>1, <2>2, BarIsKept
<1>11. DocketFlags'
  BY <1>3, Zenon DEF DocketFlags, DocketState
<1>12. DocketUnread'
  BY <1>1, <1>3 DEF DocketUnread
<1> QED
  BY <1>7, <1>8, <1>9, <1>10, <1>11, <1>12 DEF DocketState

\* What a step leaves alone of the parts.
LEMMA OnlyCallsChange ==
    ASSUME Dk!DocketAssumption, DocketState, v4, DocketCalls', v1' \in Dk!List,
           UNCHANGED <<v2, v3, v4, v9, v10, v11, v13, v14, v15, v16>>,
           v6' = v6 \/ v6' = Asked, v5' = v5 \/ v5' = FALSE, v12' = v12 \/ v12' = {}
    PROVE  DocketState'
<1>1. DocketFlags'
  <2>1. v5' = v5 \/ v5' = FALSE
    OBVIOUS
  <2>2. v3' = v3 /\ v4' = v4
    OBVIOUS
  <2> QED
    BY <2>1, <2>2, Zenon DEF DocketFlags, DocketState
<1>2. DocketLists' /\ DocketShown'
  BY DEF DocketState, DocketLists, DocketShown
<1>3. DocketBar' /\ DocketUnread'
  BY DEF DocketState, DocketBar, DocketUnread
<1> QED
  BY <1>1, <1>2, <1>3 DEF DocketState

\* A decision on many, the server's record of one, and what comes of one on many.
LEMMA CallsKeepParts ==
    ASSUME Dk!DocketAssumption, DocketState,
           \/ \E d \in DkDispositions : Dk!DecideMany(d)
           \/ \E i \in DOMAIN v7 : Dk!ServerRecords(i) \/ Dk!ManySucceed(i)
    PROVE  DocketState'
<1>1. CASE \E d \in DkDispositions : Dk!DecideMany(d)
  <2>1. PICK d \in DkDispositions : Dk!DecideMany(d)
    BY <1>1
  <2> DEFINE call == [cands |-> Dk!Checked, disp |-> d, bulk |-> TRUE, state |-> "sent", previous |-> None]
  <2>2. PICK i \in DOMAIN v7 : Dk!Sends(i, v7, call)
    BY <2>1 DEF Dk!DecideMany
  <2>3. call \in Dk!Call /\ call.bulk
    BY DEF Dk!Call, Dk!Checked, DocketState, DocketShown
  <2>4. i \in 1 .. DkMaxCalls /\ v7' = [v7 EXCEPT ![i] = call] /\ v8' \in 0 .. DkMaxActs
    BY <2>2 DEF Dk!Sends, Dk!Acts, DocketState, DocketCalls, Dk!DocketAssumption
  <2>5. DocketCalls'
    <3> HIDE DEF call
    <3> QED
      BY <2>3, <2>4, OneCallChanges DEF DocketState
  <2>6. v4 /\ UNCHANGED <<v1, v2, v3, v4, v5, v6, v9, v10, v11, v12, v13, v14, v15, v16>>
    BY <2>1 DEF Dk!DecideMany, Dk!Live
  <2>7. v1' \in Dk!List
    BY <2>6 DEF DocketState, DocketLists
  <2> QED
    BY <2>5, <2>6, <2>7, OnlyCallsChange
<1>2. CASE \E i \in DOMAIN v7 : Dk!ServerRecords(i) \/ Dk!ManySucceed(i)
  <2>1. PICK i \in DOMAIN v7 : Dk!ServerRecords(i) \/ Dk!ManySucceed(i)
    BY <1>2
  <2>2. i \in Dk!InFlight /\ i \in 1 .. DkMaxCalls /\ v7[i] \in Dk!Call
    <3>1. i \in Dk!InFlight
      BY <2>1 DEF Dk!ServerRecords, Dk!ManySucceed
    <3> QED
      BY <3>1, ACallInFlight DEF DocketState
  <2>3. PICK s \in {"recorded", "refreshing"} : v7' = [v7 EXCEPT ![i] = [v7[i] EXCEPT !.state = s]]
    BY <2>1 DEF Dk!ServerRecords, Dk!ManySucceed
  <2> DEFINE call == [v7[i] EXCEPT !.state = s]
  <2>4. call \in Dk!Call /\ call.cands = v7[i].cands /\ call.bulk = v7[i].bulk
    <3> DEFINE old == v7[i]
    <3>1. old \in Dk!Call /\ s \in {"sent", "recorded", "refreshing"}
      BY <2>2
    <3> HIDE DEF old
    <3>2. /\ [old EXCEPT !.state = s] \in Dk!Call
          /\ [old EXCEPT !.state = s].cands = old.cands
          /\ [old EXCEPT !.state = s].bulk = old.bulk
      BY <3>1, ACallGoesOn
    <3> QED
      BY <3>2 DEF old
  <2>5. v7' = [v7 EXCEPT ![i] = call] /\ v8' \in 0 .. DkMaxActs
    BY <2>1, <2>3 DEF Dk!ServerRecords, Dk!ManySucceed, DocketState, DocketCalls
  <2>6. ~call.bulk => \E c \in DkCandidates : call.cands = {c}
    BY <2>2, <2>4 DEF DocketState, DocketCalls
  <2> HIDE DEF call
  <2>7. DocketCalls'
    BY <2>2, <2>4, <2>5, <2>6, OneCallChanges DEF DocketState
  <2>8. v4
    BY <2>2 DEF DocketState, DocketUnread
  <2>9. /\ UNCHANGED <<v2, v3, v4, v9, v10, v11, v13, v14, v15, v16>>
        /\ v6' = v6 \/ v6' = Asked
        /\ v5' = v5 \/ v5' = FALSE
        /\ v12' = v12 \/ v12' = {}
    BY <2>1 DEF Dk!ServerRecords, Dk!ManySucceed
  <2>10. v1' \in Dk!List
    <3>1. CASE Dk!ManySucceed(i)
      BY <3>1 DEF Dk!ManySucceed, DocketState, DocketLists
    <3>2. CASE Dk!ServerRecords(i)
      <4>1. \A c \in DkCandidates : [disp |-> v7[i].disp, against |-> DkVerdict[c]] \in Dk!Decision
        BY <2>2 DEF Dk!Call, Dk!Decision, Dk!DocketAssumption
      <4> QED
        BY <3>2, <4>1 DEF Dk!ServerRecords, Dk!List, DocketState, DocketLists
    <3> QED
      BY <2>1, <3>1, <3>2
  <2> QED
    BY <2>7, <2>8, <2>9, <2>10, OnlyCallsChange
<1> QED
  BY <1>1, <1>2

\* The end of a decision on one row, and a decision that failed.
LEMMA EndsKeepParts ==
    ASSUME Dk!DocketAssumption, DocketState, NEW i \in DOMAIN v7, Dk!Succeeds(i) \/ Dk!Fails(i)
    PROVE  DocketState'
<1>1. i \in Dk!InFlight /\ i \in 1 .. DkMaxCalls /\ v7[i] \in Dk!Call /\ v7[i].disp \in DkDispositions
      /\ v7[i].cands \subseteq DkCandidates
  <2>1. i \in Dk!InFlight
    BY DEF Dk!Succeeds, Dk!Fails
  <2> QED
    BY <2>1, ACallInFlight DEF DocketState
<1>2. v7' = [v7 EXCEPT ![i] = None] /\ v8' = v8
  BY DEF Dk!Succeeds, Dk!Fails, Dk!Done
<1>3. DocketCalls'
  <2>1. v8' \in 0 .. DkMaxActs
    BY <1>2 DEF DocketState, DocketCalls
  <2> QED
    BY <1>1, <1>2, <2>1, OneCallChanges DEF DocketState
<1>4. PICK l \in Dk!List : Dk!Receive(l, {})
  <2>1. CASE Dk!Succeeds(i)
    <3>1. PICK c \in v7[i].cands : Dk!Receive(Dk!WithDecision(v2, c, v7[i].disp), {})
      BY <2>1 DEF Dk!Succeeds
    <3>2. Dk!WithDecision(v2, c, v7[i].disp) \in Dk!List
      BY <1>1, AListWithADecision DEF DocketState, DocketLists
    <3> QED
      BY <3>1, <3>2
  <2>2. CASE Dk!Fails(i)
    <3>1. v7[i].previous \in Dk!List \cup {None} /\ v2 \in Dk!List
      BY <1>1 DEF Dk!Call, DocketState, DocketLists
    <3> QED
      BY <2>2, <3>1 DEF Dk!Fails, Dk!TakeBack
  <2> QED
    BY <2>1, <2>2
<1>5. UNCHANGED <<v1, v4, v6, v10, v12, v13, v16>>
  BY DEF Dk!Succeeds, Dk!Fails
<1>6. DocketShown' /\ v2' = l
  <2>1. {} \in SUBSET DkCandidates
    OBVIOUS
  <2> QED
    BY <1>4, <1>5, <2>1, ReceiveKeeps DEF DocketState
<1>7. DocketLists'
  BY <1>5, <1>6 DEF DocketLists, DocketState
<1>8. DocketBar'
  <2>1. PICK b \in {"closed", v14}, m \in {0, v15} : Dk!BarFollows(b, m)
    BY DEF Dk!Succeeds, Dk!Fails, Dk!Waits
  <2>3. DocketBar /\ b \in {"closed", "empty", "typed"} /\ m \in 0 .. DkMaxCalls
    BY <2>1 DEF DocketState, DocketBar, Dk!DocketAssumption
  <2>4. b # "closed" \/ m # 0 => v9 \in DkCandidates /\ (v13 = "nothing" \/ v9 \in DkFound) /\ v16 = "docket"
    BY <2>1 DEF DocketState, DocketBar
  <2> QED
    BY <1>5, <2>1, <2>3, <2>4 DEF Dk!BarFollows, DocketBar, Dk!DocketAssumption
<1>9. DocketFlags'
  <2>1. v4' = v4
    BY <1>5
  <2>2. (v3' = TRUE /\ v5' = TRUE) \/ (v3' = v3 /\ v5' = v5)
    BY DEF Dk!Succeeds, Dk!Fails
  <2> QED
    BY <2>1, <2>2, Zenon DEF DocketFlags, DocketState
<1>10. DocketUnread'
  <2>1. v4
    BY <1>1 DEF DocketState, DocketUnread
  <2> QED
    BY <1>5, <2>1 DEF DocketUnread
<1> QED
  BY <1>3, <1>6, <1>7, <1>8, <1>9, <1>10 DEF DocketState

\* The reader's steps: the row, the filter, the rows checked, the search and the bar.
LEMMA ReaderKeepsParts ==
    ASSUME Dk!DocketAssumption, DocketState, v4,
           UNCHANGED <<v1, v2, v3, v4, v5, v7>>, Dk!Acts, v6' \in {v6, Asked},
           DocketShown', DocketBar'
    PROVE  DocketState'
<1>1. DocketFlags' /\ DocketLists'
  BY DEF DocketState, DocketFlags, DocketLists
<1>2. DocketCalls' /\ DocketUnread'
  BY DEF DocketState, DocketCalls, DocketUnread, Dk!InFlight, Dk!Acts, Dk!DocketAssumption
<1> QED
  BY <1>1, <1>2 DEF DocketState

\* A bar that is gone is nobody's.
LEMMA NoBar ==
    ASSUME Dk!DocketAssumption, v14' = "closed", v15' = 0
    PROVE  DocketBar'
BY DEF DocketBar, Dk!DocketAssumption

\* A row that is shown is one of the docket's, or the round's.
LEMMA RowsAreTheDockets ==
    ASSUME Dk!DocketAssumption, NEW i \in DOMAIN Dk!Rows
    PROVE  Dk!Rows[i] \in DkCandidates \cup {Clarification}
<1> DEFINE S == Dk!Listed(v2)
           s == Dk!OrderedFindings
           shown == Dk!Visible(v2)
<1>1. s \in Seq(DkCandidates) /\ shown = Within(s, S)
  <2>1. shown = Dk!Within(s, S)
    BY DEF Dk!Visible
  <2>2. s \in Seq(DkCandidates)
    BY OrderedFindingsHold
  <2> QED
    BY <2>1, <2>2 DEF Dk!Within, Within
<1> HIDE DEF S, s
<1>2. shown \in Seq(DkCandidates)
  <2> HIDE DEF shown
  <2> QED
    BY <1>1, WithinTheList
<1>3. Dk!Rows = (IF DkWaiting THEN <<Clarification>> ELSE <<>>) \o shown
  BY DEF Dk!Rows
<1> HIDE DEF shown
<1> DEFINE R == DkCandidates \cup {Clarification}
<1>4. shown \in Seq(R)
  BY <1>2, ListOfMore
<1>5. <<Clarification>> \in Seq(R) /\ <<>> \in Seq(R)
  OBVIOUS
<1> HIDE DEF R
<1>6. Dk!Rows \in Seq(R)
  BY <1>3, <1>4, <1>5
<1> QED
  BY <1>6, ElementsOf DEF R

\* Where the reader goes the bar is closed.
LEMMA GoesKeepsParts ==
    ASSUME Dk!DocketAssumption, DocketState, v4, NEW to \in DkCandidates \cup {None, Clarification},
           Dk!Goes(to), Dk!Still, v10' \in {"attention", "settled", "all"}, v11' \in {v11, {}}, UNCHANGED <<v12, v13>>,
           v16' \in {"docket", "other"}
    PROVE  DocketState'
<1>1. /\ UNCHANGED <<v1, v2, v3, v4, v5, v7>> /\ Dk!Acts /\ v6' \in {v6, Asked}
      /\ v9' = to /\ v14' = "closed" /\ v15' = 0
  BY DEF Dk!Goes, Dk!Still
<1>2. DocketShown'
  BY <1>1 DEF DocketState, DocketShown
<1>3. DocketBar'
  BY <1>1, NoBar
<1> QED
  BY <1>1, <1>2, <1>3, ReaderKeepsParts

\* A click, a key, another surface and back, a link to one finding.
LEMMA MovesKeepParts ==
    ASSUME Dk!DocketAssumption, DocketState,
           \/ \E c \in DkCandidates : Dk!Toggle(c) \/ Dk!OpenCandidate(c)
           \/ Dk!Toggle(Clarification) \/ Dk!Escape \/ Dk!Return
           \/ \E step \in {-1, 1} : Dk!Walk(step)
    PROVE  DocketState'
<1>1. v10 \in {"attention", "settled", "all"} /\ v16 \in {"docket", "other"}
      /\ v9 \in DkCandidates \cup {None, Clarification}
  BY DEF DocketState, DocketShown
<1>2. CASE \E row \in DkCandidates \cup {Clarification} : Dk!Toggle(row)
  <2>1. PICK row \in DkCandidates \cup {Clarification} : Dk!Toggle(row)
    BY <1>2
  <2>2. PICK to \in {None, row} : Dk!Goes(to)
    BY <2>1 DEF Dk!Toggle
  <2>3. v4 /\ Dk!Still /\ UNCHANGED <<v10, v11, v12, v13, v16>>
    BY <2>1 DEF Dk!Toggle, Dk!Live
  <2> QED
    BY <1>1, <2>2, <2>3, GoesKeepsParts
<1>3. CASE \E c \in DkCandidates : Dk!OpenCandidate(c)
  <2>1. PICK c \in DkCandidates : Dk!OpenCandidate(c)
    BY <1>3
  <2>2. v4 /\ Dk!Goes(c) /\ Dk!Still /\ UNCHANGED <<v12, v13>> /\ v16' = "docket"
        /\ v10' \in {v10, "attention", "settled"} /\ v11' \in {v11, {}}
    BY <2>1 DEF Dk!OpenCandidate
  <2> QED
    BY <1>1, <2>2, GoesKeepsParts
<1>4. CASE Dk!Escape
  <2>1. v4 /\ Dk!Goes(None) /\ Dk!Still /\ UNCHANGED <<v10, v11, v12, v13, v16>>
    BY <1>4 DEF Dk!Escape, Dk!Live
  <2> QED
    BY <1>1, <2>1, GoesKeepsParts
<1>5. CASE Dk!Return
  <2>1. Dk!Goes(v9) /\ Dk!Still /\ UNCHANGED <<v10, v11, v12, v13>> /\ v16' = "docket" /\ v16 = "other"
    BY <1>5 DEF Dk!Return
  <2>2. v4
    BY <2>1 DEF DocketState, DocketUnread
  <2> QED
    BY <1>1, <2>1, <2>2, GoesKeepsParts
<1>6. CASE \E step \in {-1, 1} : Dk!Walk(step)
  <2>1. PICK i \in DOMAIN Dk!Rows : Dk!Goes(Dk!Rows[i])
    BY <1>6 DEF Dk!Walk
  <2>2. v4 /\ Dk!Still /\ UNCHANGED <<v10, v11, v12, v13, v16>>
    BY <1>6 DEF Dk!Walk, Dk!Live
  <2>3. PICK to \in DkCandidates \cup {Clarification} : Dk!Goes(to)
    BY <2>1, RowsAreTheDockets
  <2> QED
    BY <1>1, <2>2, <2>3, GoesKeepsParts
<1> QED
  BY <1>2, <1>3, <1>4, <1>5, <1>6

\* The rows checked, the filter, the search and the bar.
LEMMA ListKeepsParts ==
    ASSUME Dk!DocketAssumption, DocketState,
           \/ \E c \in DkCandidates : Dk!Select(c)
           \/ Dk!ClearSelection
           \/ \E f \in {"attention", "settled", "all"} : Dk!SetFilter(f)
    PROVE  DocketState'
<1>1. /\ v4 /\ Dk!Acts /\ UNCHANGED <<v1, v2, v3, v4, v5, v7, v6, v9, v13, v14, v15, v16>>
      /\ v12' \in {v12, {}} \cup {v12 \ {c} : c \in DkCandidates} \cup {v12 \cup {c} : c \in DkCandidates}
      /\ v10' \in {"attention", "settled", "all"} /\ v11' \in {v11, {}}
  <2>1. CASE \E c \in DkCandidates : Dk!Select(c)
    BY <2>1 DEF Dk!Select, Dk!Live, Dk!Still, DocketState, DocketShown
  <2>2. CASE Dk!ClearSelection
    BY <2>2 DEF Dk!ClearSelection, Dk!Live, Dk!Still, DocketState, DocketShown
  <2>3. CASE \E f \in {"attention", "settled", "all"} : Dk!SetFilter(f)
    BY <2>3 DEF Dk!SetFilter, Dk!Live, Dk!Still, DocketState, DocketShown
  <2> QED
    BY <2>1, <2>2, <2>3
<1>2. DocketShown'
  <2>1. v12' \in SUBSET DkCandidates
    BY <1>1 DEF DocketState, DocketShown
  <2> QED
    BY <1>1, <2>1 DEF DocketState, DocketShown
<1>3. DocketBar'
  BY <1>1 DEF DocketState, DocketBar
<1> QED
  BY <1>1, <1>2, <1>3, ReaderKeepsParts

\* The search, the bar, and another surface.
LEMMA BarStepsKeepParts ==
    ASSUME Dk!DocketAssumption, DocketState,
           Dk!Search \/ Dk!OpenWaiver \/ Dk!TypeReason \/ Dk!CancelWaiver \/ Dk!Leave
    PROVE  DocketState'
<1>1. Dk!Acts /\ UNCHANGED <<v1, v2, v3, v4, v5, v7, v6, v9, v10, v11, v12>>
  BY DEF Dk!Search, Dk!OpenWaiver, Dk!TypeReason, Dk!CancelWaiver, Dk!Leave, Dk!Still
<1>2. v4
  <2>1. v14 = "closed" \/ v9 \in DkCandidates
    BY DEF DocketState, DocketBar
  <2>2. v4 \/ (Dk!TypeReason \/ Dk!CancelWaiver)
    BY DEF Dk!Search, Dk!OpenWaiver, Dk!Leave, Dk!Live
  <2>3. Dk!TypeReason \/ Dk!CancelWaiver => v14 # "closed"
    BY DEF Dk!TypeReason, Dk!CancelWaiver
  <2>4. None \notin DkCandidates
    BY DEF Dk!DocketAssumption
  <2> QED
    BY <2>1, <2>2, <2>3, <2>4 DEF DocketState, DocketUnread
<1>3. v13' \in {"nothing", "word"} /\ v16' \in {"docket", "other"}
  BY DEF Dk!Search, Dk!OpenWaiver, Dk!TypeReason, Dk!CancelWaiver, Dk!Leave, DocketState, DocketShown
<1>4. DocketShown'
  BY <1>1, <1>3 DEF DocketState, DocketShown
<1>5. DocketBar'
  <2>1. CASE Dk!Search
    <3>1. CASE v13 = "nothing" /\ v9 \notin DkFound
      BY <2>1, <3>1, NoBar DEF Dk!Search
    <3>2. CASE ~(v13 = "nothing" /\ v9 \notin DkFound)
      <4>1. v14' = v14 /\ v15' = v15 /\ v9' = v9 /\ v16' = v16 /\ (v13' = "nothing" \/ v9 \in DkFound)
        BY <1>1, <2>1, <3>2 DEF Dk!Search
      <4> QED
        BY <4>1 DEF DocketState, DocketBar
    <3> QED
      BY <3>1, <3>2
  <2>2. CASE Dk!OpenWaiver
    <3>1. v9 \in DkCandidates /\ (v13 = "nothing" \/ v9 \in DkFound) /\ v16 = "docket"
      BY <2>2 DEF Dk!OpenWaiver, Dk!Live, Dk!Listed, Dk!Matching, DocketState, DocketShown
    <3> QED
      BY <1>1, <2>2, <3>1 DEF Dk!OpenWaiver, DocketState, DocketBar
  <2>3. CASE Dk!TypeReason
    BY <1>1, <2>3 DEF Dk!TypeReason, DocketState, DocketBar
  <2>4. CASE Dk!CancelWaiver
    BY <1>1, <2>4 DEF Dk!CancelWaiver, DocketState, DocketBar
  <2>5. CASE Dk!Leave
    BY <2>5, NoBar DEF Dk!Leave
  <2> QED
    BY <2>1, <2>2, <2>3, <2>4, <2>5
<1> QED
  BY <1>1, <1>2, <1>4, <1>5, ReaderKeepsParts

\* Every step of the docket keeps the parts.
LEMMA StepKeepsParts ==
    ASSUME Dk!DocketAssumption, DocketState, Dk!Next
    PROVE  DocketState'
BY ReadsKeepParts, EndOfReadKeepsParts, DecideKeepsParts, CallsKeepParts, EndsKeepParts, MovesKeepParts,
   ListKeepsParts, BarStepsKeepParts DEF Dk!Next, Dk!Step

(***************************************************************************)
(* The rows the page is sure of                                            *)
(***************************************************************************)
\* A decision on its way that is on this row.
Has(i, c) == v7[i] # None /\ c \in v7[i].cands

\* What is so of such a decision, of what the server and the page have for the row.
Tells(call, c, atServer, onPage, fetch) ==
    IF call.bulk
    THEN /\ call.previous = None
         /\ call.state = "sent" => onPage = atServer
         /\ call.state = "refreshing" => fetch # None /\ (fetch # Asked => fetch[c] = atServer)
    ELSE /\ call.previous # None
         /\ call.state = "sent" => call.previous[c] = atServer
         /\ call.state # "sent" => atServer = [disp |-> call.disp, against |-> DkVerdict[c]]

Told(c) ==
    /\ (\A i \in 1 .. DkMaxCalls : ~Has(i, c)) => v2[c] = v1[c]
    /\ \A i, k \in 1 .. DkMaxCalls : Has(i, c) /\ Has(k, c) => i = k
    /\ \A i \in 1 .. DkMaxCalls : Has(i, c) => Tells(v7[i], c, v1[c], v2[c], v6)

\* It is what the invariant says of the row.
LEMMA AccountedIsTold ==
    ASSUME DocketCalls, DocketCalls', NEW c
    PROVE  /\ Dk!Accounted(c) <=> Told(c)
           /\ Dk!Accounted(c)' <=> Told(c)'
           /\ c \in Dk!RowsOf(Dk!InFlight) <=> \E i \in 1 .. DkMaxCalls : Has(i, c)
           /\ c \in Dk!RowsOf(Dk!Refreshed) <=> \E i \in 1 .. DkMaxCalls : Has(i, c) /\ v7[i].state = "refreshing"
           /\ c \in Dk!RowsOf(Dk!InFlight \ Dk!Refreshed)
                 <=> \E i \in 1 .. DkMaxCalls : Has(i, c) /\ v7[i].state # "refreshing"
<1>1. DOMAIN v7 = 1 .. DkMaxCalls /\ DOMAIN v7' = 1 .. DkMaxCalls
  BY DEF DocketCalls
<1>2. /\ \A i : i \in Dk!InFlight /\ c \in v7[i].cands <=> i \in 1 .. DkMaxCalls /\ Has(i, c)
      /\ \A i : i \in Dk!InFlight' /\ c \in v7'[i].cands <=> i \in 1 .. DkMaxCalls /\ Has(i, c)'
  BY <1>1 DEF Dk!InFlight, Has
<1>3. /\ \A i : Dk!Decided(i, c) <=> Tells(v7[i], c, v1[c], v2[c], v6)
      /\ \A i : Dk!Decided(i, c)' <=> Tells(v7'[i], c, v1'[c], v2'[c], v6')
  BY DEF Dk!Decided, Tells
<1>4. /\ c \in Dk!RowsOf(Dk!InFlight) <=> \E i \in Dk!InFlight : c \in v7[i].cands
      /\ c \in Dk!RowsOf(Dk!InFlight)' <=> \E i \in Dk!InFlight' : c \in v7'[i].cands
      /\ c \in Dk!RowsOf(Dk!Refreshed) <=> \E i \in Dk!InFlight : v7[i].state = "refreshing" /\ c \in v7[i].cands
      /\ c \in Dk!RowsOf(Dk!InFlight \ Dk!Refreshed)
            <=> \E i \in Dk!InFlight : v7[i].state # "refreshing" /\ c \in v7[i].cands
  BY DEF Dk!RowsOf, Dk!Refreshed
<1>5. Dk!Accounted(c) <=> Told(c)
  BY <1>2, <1>3, <1>4 DEF Dk!Accounted, Told
<1>6. Dk!Accounted(c)' <=> Told(c)'
  BY <1>2, <1>3, <1>4 DEF Dk!Accounted, Told
<1> QED
  BY <1>2, <1>4, <1>5, <1>6

\* A row whose decisions, whose place in the list and whose record are left alone.
LEMMA RowKept ==
    ASSUME Dk!DocketAssumption, DocketState, NEW c, Told(c), v1'[c] = v1[c], v2'[c] = v2[c],
           \A i \in 1 .. DkMaxCalls : v7'[i] = v7[i] \/ (~Has(i, c) /\ ~Has(i, c)'),
           v6' \in {v6, Asked, v1} \/ \A i \in 1 .. DkMaxCalls : Has(i, c) => v7[i].state # "refreshing"
    PROVE  Told(c)'
<1>1. v1 # None /\ Asked # None
  BY DEF Dk!DocketAssumption, DocketState, DocketLists
<1>2. \A i \in 1 .. DkMaxCalls : (Has(i, c)' <=> Has(i, c)) /\ (Has(i, c) => v7'[i] = v7[i])
  BY DEF Has
<1>3. ASSUME NEW i \in 1 .. DkMaxCalls, Has(i, c)
      PROVE  Tells(v7'[i], c, v1'[c], v2'[c], v6')
  <2>1. Tells(v7[i], c, v1[c], v2[c], v6) /\ v7'[i] = v7[i]
    BY <1>2, <1>3 DEF Told
  <2>2. CASE v6' \in {v6, Asked, v1}
    BY <1>1, <2>1, <2>2 DEF Tells
  <2>3. CASE v7[i].state # "refreshing"
    BY <2>1, <2>3 DEF Tells
  <2> QED
    BY <1>3, <2>2, <2>3
<1>4. \A i \in 1 .. DkMaxCalls : Has(i, c)' => Tells(v7'[i], c, v1'[c], v2'[c], v6')
  BY <1>2, <1>3
<1> QED
  BY <1>2, <1>4 DEF Told

\* A row with one decision on its way that changes, and no other.
LEMMA RowDecided ==
    ASSUME NEW c, NEW i \in 1 .. DkMaxCalls,
           \A k \in 1 .. DkMaxCalls \ {i} : ~Has(k, c)',
           IF Has(i, c)' THEN Tells(v7'[i], c, v1'[c], v2'[c], v6') ELSE v2'[c] = v1'[c]
    PROVE  Told(c)'
BY DEF Told

\* The end of a read: what was read, or the list as it was.
LEMMA EndOfReadTells ==
    ASSUME Dk!DocketAssumption, DocketState, DocketState', Dk!FetchArrives \/ Dk!FetchFails,
           NEW c \in DkCandidates \ v18', c \notin v18 => Told(c)
    PROVE  Told(c)'
<1>1. DocketCalls /\ DocketCalls'
  BY DEF DocketState
<1>2. PICK l : Dk!AfterFetch(l) /\ ((Dk!FetchArrives /\ l = v6) \/ (Dk!FetchFails /\ l = v2))
  <2>1. Dk!FetchArrives => Dk!AfterFetch(v6)
    BY DEF Dk!FetchArrives
  <2>2. Dk!FetchFails => Dk!AfterFetch(v2)
    BY DEF Dk!FetchFails
  <2> QED
    BY <2>1, <2>2
<1>3. v1' = v1 /\ v2' = l
  BY <1>2 DEF Dk!AfterFetch, Dk!Receive
<1>4. \A i \in 1 .. DkMaxCalls : \/ v7'[i] = v7[i] /\ (Has(i, c) => v7[i].state # "refreshing")
                                 \/ v7'[i] = None /\ Has(i, c) /\ v7[i].state = "refreshing"
                                 \/ ~Has(i, c) /\ ~Has(i, c)'
  <2>1. v7' = Dk!AfterRefresh /\ DOMAIN v7 = 1 .. DkMaxCalls
    BY <1>1, <1>2 DEF Dk!AfterFetch, DocketCalls
  <2>2. \A i \in 1 .. DkMaxCalls : i \in Dk!Refreshed <=> v7[i] # None /\ v7[i].state = "refreshing"
    BY <2>1 DEF Dk!Refreshed, Dk!InFlight
  <2>3. \A i \in 1 .. DkMaxCalls : v7'[i] = IF i \in Dk!Refreshed THEN None ELSE v7[i]
    BY <2>1 DEF Dk!AfterRefresh
  <2> QED
    BY <2>2, <2>3 DEF Has
<1>5. CASE Dk!FetchArrives /\ l = v6
  <2>1. v2'[c] = v1'[c] /\ (c \notin v18 \/ c \notin Dk!RowsOf(Dk!InFlight \ Dk!Refreshed))
    BY <1>2, <1>3, <1>5 DEF Dk!FetchArrives
  <2>2. \A i \in 1 .. DkMaxCalls : Has(i, c)' => Has(i, c) /\ v7'[i] = v7[i] /\ v7[i].state # "refreshing"
    BY <1>4 DEF Has
  <2>3. (\E i \in 1 .. DkMaxCalls : Has(i, c)') => Told(c)
    BY <1>1, <2>1, <2>2, AccountedIsTold
  <2>4. \A i \in 1 .. DkMaxCalls : Has(i, c)' => Tells(v7'[i], c, v1'[c], v2'[c], v6')
    BY <1>3, <2>1, <2>2, <2>3 DEF Told, Tells
  <2> QED
    BY <2>1, <2>2, <2>3, <2>4 DEF Told
<1>6. CASE Dk!FetchFails /\ l = v2
  <2>1. c \notin v18 /\ c \notin Dk!RowsOf(Dk!Refreshed)
    BY <1>6 DEF Dk!FetchFails
  <2>2. \A i \in 1 .. DkMaxCalls : Has(i, c) => v7[i].state # "refreshing"
    BY <1>1, <2>1, AccountedIsTold
  <2>3. \A i \in 1 .. DkMaxCalls : v7'[i] = v7[i] \/ (~Has(i, c) /\ ~Has(i, c)')
    BY <1>4, <2>2
  <2> QED
    BY <1>2, <1>3, <1>6, <2>1, <2>2, <2>3, RowKept
<1> QED
  BY <1>2, <1>5, <1>6

\* A decision on the open row.
LEMMA DecideTells ==
    ASSUME Dk!DocketAssumption, DocketState, DocketState', NEW d \in DkDispositions, Dk!Decide(d),
           ~v3 => v18 = DkCandidates,
           NEW c \in DkCandidates \ v18', c \notin v18 => Told(c)
    PROVE  Told(c)'
<1>1. DocketCalls /\ DocketCalls'
  BY DEF DocketState
<1>2. c \notin v18 /\ c \notin Dk!RowsOf(Dk!Refreshed) /\ (c = v9 => c \notin Dk!RowsOf(Dk!InFlight))
  BY DEF Dk!Decide
<1>3. Told(c) /\ v3
  BY <1>2
<1> DEFINE call == [cands |-> {v9}, disp |-> d, bulk |-> FALSE, state |-> "sent", previous |-> v2]
<1>4. PICK i \in DOMAIN v7 :
         /\ Dk!Sends(i, Dk!AfterRefresh, call)
         /\ Dk!Receive(Dk!WithDecision(v2, v9, d), Dk!RowsOf(Dk!Refreshed))
  BY <1>3 DEF Dk!Decide
<1>5. i \in 1 .. DkMaxCalls /\ v7[i] = None /\ v7'[i] = call
      /\ \A k \in 1 .. DkMaxCalls \ {i} : v7'[k] = IF k \in Dk!Refreshed THEN None ELSE v7[k]
  BY <1>1, <1>4 DEF Dk!Sends, Dk!AfterRefresh, DocketCalls
<1>6. v1' = v1 /\ v2' = Dk!WithDecision(v2, v9, d) /\ v2 \in Dk!List /\ v2 # None
  BY <1>4 DEF Dk!Decide, Dk!Receive, DocketState, DocketLists, Dk!DocketAssumption
<1>7. \A k \in 1 .. DkMaxCalls : Has(k, c) => v7[k].state # "refreshing"
  BY <1>1, <1>2, AccountedIsTold
<1>8. \A k \in 1 .. DkMaxCalls \ {i} : v7'[k] = v7[k] \/ (~Has(k, c) /\ ~Has(k, c)')
  <2>1. \A k \in Dk!Refreshed : v7[k].state = "refreshing"
    BY DEF Dk!Refreshed
  <2> QED
    BY <1>5, <1>7, <2>1 DEF Has
<1>9. CASE c # v9
  <2>1. ~Has(i, c) /\ ~Has(i, c)'
    BY <1>5, <1>9 DEF Has
  <2>2. v2'[c] = v2[c]
    BY <1>6, <1>9 DEF Dk!WithDecision, Dk!List
  <2> QED
    BY <1>3, <1>6, <1>7, <1>8, <2>1, <2>2, RowKept
<1>10. CASE c = v9
  <2>1. \A k \in 1 .. DkMaxCalls : ~Has(k, c)
    BY <1>1, <1>2, <1>10, AccountedIsTold
  <2>2. v2[c] = v1[c]
    BY <1>3, <2>1 DEF Told
  <2>3. \A k \in 1 .. DkMaxCalls \ {i} : ~Has(k, c)'
    BY <1>8, <2>1 DEF Has
  <2>4. Tells(v7'[i], c, v1'[c], v2'[c], v6')
    BY <1>5, <1>6, <2>2 DEF Tells
  <2>5. Has(i, c)'
    <3>1. call \in Dk!Call
      BY <1>6, <1>10 DEF Dk!Call
    <3>2. v7'[i] # None
      BY <1>5, <3>1 DEF Dk!DocketAssumption
    <3> QED
      BY <1>5, <1>10, <3>2 DEF Has
  <2> QED
    BY <1>5, <2>3, <2>4, <2>5, RowDecided
<1> QED
  BY <1>9, <1>10

\* A decision on many.
LEMMA DecideManyTells ==
    ASSUME Dk!DocketAssumption, DocketState, DocketState', NEW d \in DkDispositions, Dk!DecideMany(d),
           NEW c \in DkCandidates \ v18', c \notin v18 => Told(c)
    PROVE  Told(c)'
<1>1. DocketCalls /\ DocketCalls'
  BY DEF DocketState
<1>2. c \notin v18 /\ (c \in Dk!Checked => c \notin Dk!RowsOf(Dk!InFlight)) /\ UNCHANGED <<v1, v2, v6>>
  BY DEF Dk!DecideMany
<1> DEFINE call == [cands |-> Dk!Checked, disp |-> d, bulk |-> TRUE, state |-> "sent", previous |-> None]
<1>3. PICK i \in DOMAIN v7 : Dk!Sends(i, v7, call)
  BY DEF Dk!DecideMany
<1>4. i \in 1 .. DkMaxCalls /\ v7[i] = None /\ v7'[i] = call /\ \A k \in 1 .. DkMaxCalls \ {i} : v7'[k] = v7[k]
  BY <1>1, <1>3 DEF Dk!Sends, DocketCalls
<1>5. CASE c \notin Dk!Checked
  <2>1. ~Has(i, c) /\ ~Has(i, c)'
    BY <1>4, <1>5 DEF Has
  <2> QED
    BY <1>2, <1>4, <2>1, RowKept
<1>6. CASE c \in Dk!Checked
  <2>1. \A k \in 1 .. DkMaxCalls : ~Has(k, c)
    BY <1>1, <1>2, <1>6, AccountedIsTold
  <2>2. v2[c] = v1[c]
    BY <1>2, <2>1 DEF Told
  <2>3. \A k \in 1 .. DkMaxCalls \ {i} : ~Has(k, c)'
    BY <1>4, <2>1 DEF Has
  <2>4. Tells(v7'[i], c, v1'[c], v2'[c], v6') /\ v2'[c] = v1'[c]
    BY <1>2, <1>4, <2>2 DEF Tells
  <2> QED
    BY <1>4, <2>3, <2>4, RowDecided
<1> QED
  BY <1>5, <1>6

\* The server records a decision, or the list is to be read again after one on many.
LEMMA GoesOnTells ==
    ASSUME Dk!DocketAssumption, DocketState, DocketState', NEW i \in DOMAIN v7,
           Dk!ServerRecords(i) \/ Dk!ManySucceed(i),
           NEW c \in DkCandidates \ v18', c \notin v18 => Told(c)
    PROVE  Told(c)'
<1>1. i \in 1 .. DkMaxCalls /\ v7[i] \in Dk!Call /\ DocketCalls
  <2>1. i \in Dk!InFlight
    BY DEF Dk!ServerRecords, Dk!ManySucceed
  <2> QED
    BY <2>1, ACallInFlight DEF DocketState
<1>2. PICK s \in {"recorded", "refreshing"} : /\ v7' = [v7 EXCEPT ![i] = [v7[i] EXCEPT !.state = s]]
                                              /\ s = "recorded" => Dk!ServerRecords(i)
                                              /\ s = "refreshing" => Dk!ManySucceed(i)
  BY DEF Dk!ServerRecords, Dk!ManySucceed
<1> DEFINE old == v7[i]
           new == v7'[i]
<1>3. /\ new \in Dk!Call /\ new.state = s /\ new.cands = old.cands /\ new.bulk = old.bulk
      /\ new.disp = old.disp /\ new.previous = old.previous
      /\ \A k \in 1 .. DkMaxCalls \ {i} : v7'[k] = v7[k]
  <2>1. new = [old EXCEPT !.state = s] /\ \A k \in 1 .. DkMaxCalls \ {i} : v7'[k] = v7[k]
    BY <1>1, <1>2 DEF DocketCalls
  <2>2. old \in Dk!Call /\ s \in {"sent", "recorded", "refreshing"}
    BY <1>1
  <2> HIDE DEF old, new
  <2> QED
    BY <2>1, <2>2, ACallGoesOn
<1>4. old # None /\ new # None
  BY <1>1, <1>3 DEF Dk!DocketAssumption
<1>5. Told(c) /\ v2' = v2
  BY DEF Dk!ServerRecords, Dk!ManySucceed
<1>6. CASE c \notin old.cands
  <2>1. ~Has(i, c) /\ ~Has(i, c)'
    BY <1>3, <1>6 DEF Has
  <2>2. v1'[c] = v1[c] /\ v6' \in {v6, Asked}
    BY <1>6 DEF Dk!ServerRecords, Dk!ManySucceed
  <2> HIDE DEF old, new
  <2> QED
    BY <1>3, <1>5, <2>1, <2>2, RowKept
<1>7. CASE c \in old.cands
  <2>1. Has(i, c) /\ Has(i, c)' /\ Tells(old, c, v1[c], v2[c], v6)
    BY <1>1, <1>3, <1>4, <1>5, <1>7 DEF Has, Told
  <2>2. \A k \in 1 .. DkMaxCalls \ {i} : ~Has(k, c)
    BY <1>1, <1>5, <2>1 DEF Told
  <2>3. \A k \in 1 .. DkMaxCalls \ {i} : ~Has(k, c)'
    BY <1>3, <2>2 DEF Has
  <2>4. Tells(new, c, v1'[c], v2'[c], v6')
    <3>1. CASE s = "recorded"
      <4>1. v1'[c] = [disp |-> old.disp, against |-> DkVerdict[c]]
        BY <1>2, <1>7, <3>1 DEF Dk!ServerRecords
      <4> HIDE DEF old, new
      <4> QED
        BY <1>3, <2>1, <3>1, <4>1 DEF Tells
    <3>2. CASE s = "refreshing"
      <4>1. old.bulk /\ v6' = Asked /\ Asked # None
        BY <1>2, <3>2 DEF Dk!ManySucceed, Dk!DocketAssumption
      <4> HIDE DEF old, new
      <4> QED
        BY <1>3, <2>1, <3>2, <4>1 DEF Tells
    <3> QED
      BY <3>1, <3>2
  <2> QED
    BY <1>1, <2>1, <2>3, <2>4, RowDecided
<1> QED
  BY <1>6, <1>7

\* A decision is over, recorded or refused.
LEMMA EndsTell ==
    ASSUME Dk!DocketAssumption, DocketState, DocketState', NEW i \in DOMAIN v7,
           Dk!Succeeds(i) \/ Dk!Fails(i),
           NEW c \in DkCandidates \ v18', c \notin v18 => Told(c)
    PROVE  Told(c)'
<1> DEFINE call == v7[i]
<1>1. i \in Dk!InFlight /\ i \in 1 .. DkMaxCalls /\ call \in Dk!Call /\ DocketCalls /\ call # None
  <2>1. i \in Dk!InFlight
    BY DEF Dk!Succeeds, Dk!Fails
  <2> QED
    BY <2>1, ACallInFlight DEF DocketState, Dk!InFlight
<1>2. v7'[i] = None /\ \A k \in 1 .. DkMaxCalls \ {i} : v7'[k] = v7[k]
  BY <1>1 DEF Dk!Succeeds, Dk!Fails, Dk!Done, DocketCalls
<1>3. Told(c) /\ v1' = v1 /\ v6' = v6
  BY DEF Dk!Succeeds, Dk!Fails
<1>4. v2 \in Dk!List
  BY DEF DocketState, DocketLists
<1>5. CASE c \notin call.cands
  <2>1. ~Has(i, c) /\ ~Has(i, c)'
    BY <1>2, <1>5 DEF Has
  <2>2. v2'[c] = v2[c]
    <3>1. CASE Dk!Succeeds(i)
      <4>1. PICK e \in call.cands : Dk!Receive(Dk!WithDecision(v2, e, call.disp), {})
        BY <3>1 DEF Dk!Succeeds
      <4> HIDE DEF call
      <4> QED
        BY <1>4, <1>5, <4>1 DEF Dk!Receive, Dk!WithDecision, Dk!List
    <3>2. CASE Dk!Fails(i)
      BY <1>5, <3>2 DEF Dk!Fails, Dk!Receive
    <3> QED
      BY <3>1, <3>2
  <2> HIDE DEF call
  <2> QED
    BY <1>2, <1>3, <2>1, <2>2, RowKept
<1>6. CASE c \in call.cands
  <2>1. Has(i, c) /\ Tells(call, c, v1[c], v2[c], v6)
    BY <1>1, <1>3, <1>6 DEF Has, Told
  <2>2. \A k \in 1 .. DkMaxCalls \ {i} : ~Has(k, c)'
    <3>1. \A k \in 1 .. DkMaxCalls \ {i} : ~Has(k, c)
      BY <1>1, <1>3, <2>1 DEF Told
    <3> QED
      BY <1>2, <3>1 DEF Has
  <2>3. ~Has(i, c)'
    BY <1>2 DEF Has
  <2>4. v2'[c] = v1'[c]
    <3>1. CASE Dk!Succeeds(i)
      <4>1. PICK e \in call.cands : Dk!Receive(Dk!WithDecision(v2, e, call.disp), {})
        BY <3>1 DEF Dk!Succeeds
      <4>2. ~call.bulk /\ call.state = "recorded"
        BY <3>1 DEF Dk!Succeeds
      <4>3. e = c
        <5>1. PICK x \in DkCandidates : call.cands = {x}
          BY <1>1, <4>2 DEF DocketCalls
        <5> QED
          BY <1>6, <4>1, <5>1
      <4>4. v1[c] = [disp |-> call.disp, against |-> DkVerdict[c]]
        BY <2>1, <4>2 DEF Tells
      <4> HIDE DEF call
      <4> QED
        BY <1>3, <1>4, <4>1, <4>3, <4>4 DEF Dk!Receive, Dk!WithDecision, Dk!List
    <3>2. CASE Dk!Fails(i)
      <4>1. call.state = "sent" /\ v2' = Dk!TakeBack(i)
        BY <1>6, <3>2 DEF Dk!Fails, Dk!Receive
      <4> QED
        BY <1>3, <2>1, <4>1 DEF Dk!TakeBack, Tells
    <3> QED
      BY <3>1, <3>2
  <2> QED
    BY <1>1, <2>2, <2>3, <2>4, RowDecided
<1> QED
  BY <1>5, <1>6

\* The reader's steps read the list again where it is stale, and nothing else of it.
LEMMA TheReaderReads ==
    ASSUME \/ \E c \in DkCandidates : Dk!Toggle(c) \/ Dk!Select(c) \/ Dk!OpenCandidate(c)
           \/ Dk!Toggle(Clarification)
           \/ \E step \in {-1, 1} : Dk!Walk(step)
           \/ \E f \in {"attention", "settled", "all"} : Dk!SetFilter(f)
           \/ Dk!Escape \/ Dk!ClearSelection \/ Dk!Search \/ Dk!OpenWaiver \/ Dk!TypeReason \/ Dk!CancelWaiver
           \/ Dk!Leave \/ Dk!Return
    PROVE  UNCHANGED <<v1, v2, v3, v4, v5, v7, v18>> /\ v6' \in {v6, Asked}
<1>1. Dk!Still
  BY DEF Dk!Toggle, Dk!Select, Dk!OpenCandidate, Dk!Walk, Dk!SetFilter, Dk!Escape, Dk!ClearSelection, Dk!Search,
         Dk!OpenWaiver, Dk!TypeReason, Dk!CancelWaiver, Dk!Leave, Dk!Return
<1>2. (\E to : Dk!Goes(to)) \/ v6' = v6
  BY DEF Dk!Toggle, Dk!Select, Dk!OpenCandidate, Dk!Walk, Dk!SetFilter, Dk!Escape, Dk!ClearSelection, Dk!Search,
         Dk!OpenWaiver, Dk!TypeReason, Dk!CancelWaiver, Dk!Leave, Dk!Return
<1> QED
  BY <1>1, <1>2 DEF Dk!Still, Dk!Goes

\* Of every row it is sure of the page goes on to speak the truth.
LEMMA StepTells ==
    ASSUME Dk!DocketAssumption, DocketState, DocketState', Dk!Next,
           ~v3 => v18 = DkCandidates,
           NEW c \in DkCandidates \ v18', c \notin v18 => Told(c)
    PROVE  Told(c)'
<1>1. CASE /\ UNCHANGED <<v1, v2, v7, v18>> /\ v6' \in {v6, Asked, v1}
  BY <1>1, RowKept
<1>2. CASE Dk!FetchReads \/ Dk!Ages
  BY <1>1, <1>2 DEF Dk!FetchReads, Dk!Ages
<1>3. CASE Dk!FetchArrives \/ Dk!FetchFails
  BY <1>3, EndOfReadTells
<1>4. CASE \E d \in DkDispositions : Dk!Decide(d) \/ Dk!DecideMany(d)
  BY <1>4, DecideTells, DecideManyTells
<1>5. CASE \E i \in DOMAIN v7 : Dk!ServerRecords(i) \/ Dk!Succeeds(i) \/ Dk!ManySucceed(i) \/ Dk!Fails(i)
  BY <1>5, GoesOnTells, EndsTell
<1> QED
  BY <1>1, <1>2, <1>3, <1>4, <1>5, TheReaderReads DEF Dk!Next, Dk!Step

\* The rows it is unsure of are rows, and before the first read all of them are.
LEMMA UnsureRowsKept ==
    ASSUME Dk!DocketAssumption, DocketState, Dk!Next, v18 \in SUBSET DkCandidates, ~v3 => v18 = DkCandidates
    PROVE  v18' \in SUBSET DkCandidates /\ (~v3' => v18' = DkCandidates)
<1>1. /\ Dk!RowsOf(Dk!Refreshed) \in SUBSET DkCandidates
      /\ Dk!RowsOf(Dk!InFlight) \in SUBSET DkCandidates
  BY RowsAreCandidates DEF DocketState, Dk!Refreshed
<1>2. CASE Dk!FetchArrives
  BY <1>2 DEF Dk!FetchArrives
<1>3. CASE Dk!FetchFails
  BY <1>1, <1>3 DEF Dk!FetchFails
<1>4. CASE \E d \in DkDispositions : Dk!Decide(d) \/ Dk!DecideMany(d)
  BY <1>1, <1>4 DEF Dk!Decide, Dk!DecideMany
<1>5. CASE \E i \in DOMAIN v7 : Dk!Fails(i)
  <2>1. PICK i \in DOMAIN v7 : Dk!Fails(i)
    BY <1>5
  <2>2. v7[i].cands \subseteq DkCandidates
    BY <2>1, ACallInFlight DEF DocketState, Dk!Fails
  <2> QED
    BY <2>1, <2>2 DEF Dk!Fails
<1>6. CASE v18' = v18 /\ (v3' = v3 \/ v3' = TRUE)
  BY <1>6
<1>7. CASE \/ Dk!FetchReads \/ Dk!Ages
           \/ \E i \in DOMAIN v7 : Dk!ServerRecords(i) \/ Dk!Succeeds(i) \/ Dk!ManySucceed(i)
  BY <1>6, <1>7 DEF Dk!FetchReads, Dk!Ages, Dk!ServerRecords, Dk!Succeeds, Dk!ManySucceed
<1> QED
  BY <1>2, <1>3, <1>4, <1>5, <1>6, <1>7, TheReaderReads DEF Dk!Next, Dk!Step

\* Every step of the docket keeps what its claims rest on.
LEMMA DocketPreserved ==
    ASSUME Dk!DocketAssumption, Dk!IInv, Dk!Next \/ UNCHANGED Dk!vars
    PROVE  Dk!IInv'
<1>0. CASE UNCHANGED Dk!vars
  <2>1. UNCHANGED <<v1, v2, v3, v4, v5, v6, v7, v8, v9, v10, v11, v12, v13, v14, v15, v16, v17, v18>>
    BY <1>0 DEF Dk!vars
  <2>2. (Dk!TypeOK /\ Dk!CallsAreTyped)'
    BY <2>1, DocketParts DEF Dk!IInv, DocketState, DocketFlags, DocketCalls, DocketLists, DocketShown, DocketBar,
       DocketUnread, DocketBatches, Dk!InFlight
  <2>3. Dk!SureRowsAreAccountedFor' <=> Dk!SureRowsAreAccountedFor
    BY <2>1 DEF Dk!SureRowsAreAccountedFor, Dk!Accounted, Dk!Decided, Dk!RowsOf, Dk!InFlight
  <2> QED
    BY <2>2, <2>3 DEF Dk!IInv
<1> SUFFICES ASSUME Dk!Next
             PROVE  Dk!IInv'
  BY <1>0
<1>1. DocketState
  BY DocketParts DEF Dk!IInv
<1>2. DocketState'
  BY <1>1, StepKeepsParts
<1>3. Dk!TypeOK' /\ Dk!CallsAreTyped'
  <2>1. DocketBatches'
    BY DEF DocketBatches, Dk!Next, Dk!BulkBarFollows
  <2> QED
    BY <1>2, <2>1, DocketParts
<1>4. v18 \in SUBSET DkCandidates /\ (~v3 => v18 = DkCandidates) /\ \A c \in DkCandidates \ v18 : Dk!Accounted(c)
  BY DEF Dk!IInv, Dk!SureRowsAreAccountedFor
<1>5. v18' \in SUBSET DkCandidates /\ (~v3' => v18' = DkCandidates)
  BY <1>1, <1>4, UnsureRowsKept
<1>6. ASSUME NEW c \in DkCandidates \ v18'
      PROVE  Dk!Accounted(c)'
  <2>1. DocketCalls /\ DocketCalls'
    BY <1>1, <1>2 DEF DocketState
  <2>2. c \notin v18 => Told(c)
    BY <1>4, <2>1, AccountedIsTold
  <2>3. Told(c)'
    BY <1>1, <1>2, <1>4, <2>2, StepTells
  <2> QED
    BY <2>1, <2>3, AccountedIsTold
<1>7. Dk!SureRowsAreAccountedFor'
  BY <1>5, <1>6 DEF Dk!SureRowsAreAccountedFor
<1> QED
  BY <1>3, <1>7 DEF Dk!IInv

\* Of those rows with no decision on its way the list is the server's.
LEMMA SureRowsAreListed ==
    ASSUME Dk!IInv
    PROVE  Dk!SureRowsTellTheTruth
BY DEF Dk!IInv, Dk!SureRowsAreAccountedFor, Dk!Accounted, Dk!SureRowsTellTheTruth

\* Where a new list moves the cursor it goes on from the row it was at.
LEMMA TheCursorGoesOn ==
    ASSUME Dk!DocketAssumption, Dk!IInv, Dk!Next, v2' # v2, v9 \in DkCandidates, v9' # v9
    PROVE  v9' = Dk!Advance(v9, v2')
<1>1. DocketState
  BY DocketParts DEF Dk!IInv
<1>2. v4
  <2>1. None \notin DkCandidates
    BY DEF Dk!DocketAssumption
  <2> QED
    BY <1>1, <2>1 DEF DocketState, DocketUnread
<1>3. ASSUME NEW l, NEW decided, Dk!Receive(l, decided)
      PROVE  v9' = Dk!Advance(v9, v2')
  BY <1>3 DEF Dk!Receive
<1>4. CASE Dk!FetchArrives \/ Dk!FetchFails
  <2>1. PICK l : Dk!AfterFetch(l)
    BY <1>4 DEF Dk!FetchArrives, Dk!FetchFails
  <2> QED
    BY <1>2, <1>3, <2>1 DEF Dk!AfterFetch
<1>5. CASE \E d \in DkDispositions : Dk!Decide(d)
  BY <1>3, <1>5 DEF Dk!Decide
<1>6. CASE \E i \in DOMAIN v7 : Dk!Succeeds(i) \/ Dk!Fails(i)
  BY <1>3, <1>6 DEF Dk!Succeeds, Dk!Fails
<1>7. CASE \/ Dk!FetchReads \/ Dk!Ages \/ \E d \in DkDispositions : Dk!DecideMany(d)
           \/ \E i \in DOMAIN v7 : Dk!ServerRecords(i) \/ Dk!ManySucceed(i)
  BY <1>7 DEF Dk!FetchReads, Dk!Ages, Dk!DecideMany, Dk!ServerRecords, Dk!ManySucceed
<1> QED
  BY <1>4, <1>5, <1>6, <1>7, TheReaderReads DEF Dk!Next, Dk!Step

\* Deciding hands the reader a row that wants a person, or none is left.
LEMMA TheDocketMovesOn ==
    ASSUME Dk!DocketAssumption, Dk!IInv, [Dk!Next]_(Dk!vars)
    PROVE  Dk!AdvanceFindsWhatIsLeft
<1>1. CASE UNCHANGED Dk!vars
  BY <1>1 DEF Dk!vars, Dk!AdvanceFindsWhatIsLeft
<1>2. CASE Dk!Next
  <2>1. SUFFICES ASSUME v2' # v2, v9 \in DkCandidates, v9' # v9
                 PROVE  /\ v9' # None => Dk!NeedsAttention(v9', v2')
                        /\ v9' = None /\ v10 # "settled" =>
                              \A c \in DkCandidates : v13 = "nothing" \/ c \in DkFound => ~Dk!NeedsAttention(c, v2')
    BY DEF Dk!AdvanceFindsWhatIsLeft
  <2> DEFINE l == v2'
  <2>2. v9' = Dk!Advance(v9, l)
    BY <1>2, <2>1, TheCursorGoesOn
  <2>3. \A c \in DkCandidates :
            (v13 = "nothing" \/ c \in DkFound) /\ v10 # "settled" /\ Dk!NeedsAttention(c, l)
                => c \in Dk!Listed(l)
    <3>1. v10 \in {"attention", "settled", "all"}
      BY DocketParts DEF Dk!IInv, DocketState, DocketShown
    <3> HIDE DEF l
    <3> SUFFICES ASSUME NEW c \in DkCandidates, v13 = "nothing" \/ c \in DkFound, v10 # "settled",
                        Dk!NeedsAttention(c, l)
                 PROVE  c \in Dk!Listed(l)
      OBVIOUS
    <3>2. v10 = "all" \/ v10 = "attention"
      BY <3>1
    <3>3. Dk!InFilter(c, v10, l)
      BY <3>2, Zenon DEF Dk!InFilter
    <3> QED
      BY <3>3 DEF Dk!Listed, Dk!Matching
  <2>4. None \notin DkCandidates
    BY DEF Dk!DocketAssumption
  <2>5. \/ v9' \in Dk!Listed(l) \cap DkCandidates /\ Dk!NeedsAttention(v9', l)
        \/ v9' = None /\ \A c \in Dk!Listed(l) \cap DkCandidates : ~ Dk!NeedsAttention(c, l)
    <3> HIDE DEF l
    <3> QED
      BY <2>2, AdvanceFinds
  <2> HIDE DEF l
  <2>6. v9' # None => Dk!NeedsAttention(v9', l)
    BY <2>5
  <2>7. v9' = None /\ v10 # "settled" =>
           \A c \in DkCandidates : v13 = "nothing" \/ c \in DkFound => ~Dk!NeedsAttention(c, l)
    BY <2>3, <2>4, <2>5
  <2> QED
    BY <2>6, <2>7 DEF l
<1> QED
  BY <1>1, <1>2

(***************************************************************************)
(* All of them                                                             *)
(***************************************************************************)
\* Whichever of them is open at first is as its invariant says.
LEMMA ReviewInitially ==
    ASSUME ReviewInit
    PROVE  ReviewInvariant
  BY ReviewAssumption, FormInitially, ConversationsInitially, ExplorerInitially, CameraInitially,
     RecordsInitially, DeltaInitially, PanelInitially, DocketBegins
  DEF ReviewAssumption, ReviewInit, ReviewInvariant

\* A step of a page is a step of its module, and the page stays open.
LEMMA ReviewSteps ==
    ASSUME ReviewNext
    PROVE  /\ page' = page /\ page \in {"Dk", "Rf", "Cv", "Rr", "Rd", "Fp", "Ae", "Ac"}
           /\ page = "Dk" => Dk!Next
           /\ page = "Rf" => Rf!Next
           /\ page = "Cv" => Cv!Next
           /\ page = "Rr" => Rr!Next
           /\ page = "Rd" => Rd!Next
           /\ page = "Fp" => Fp!Next
           /\ page = "Ae" => Ae!Next
           /\ page = "Ac" => Ac!Next
  BY DEF ReviewNext, At

\* When nothing changes no page's variables do.
LEMMA ReviewStutters ==
    ASSUME UNCHANGED vars
    PROVE  /\ page' = page /\ UNCHANGED Rf!vars /\ UNCHANGED Cv!vars /\ UNCHANGED Ae!vars /\ UNCHANGED Ac!vars
           /\ UNCHANGED Rr!vars /\ UNCHANGED Rd!vars /\ UNCHANGED Fp!vars /\ UNCHANGED Dk!vars
  BY DEF vars, Dk!vars, Rf!vars, Cv!vars, Rr!vars, Rd!vars, Fp!vars, Fp!record, Ae!vars, Ae!asked, Ae!filters, Ae!search, Ac!vars, Ac!place, Ac!screen, Ac!hand

\* Every page keeps its invariant.
LEMMA ReviewPreserved ==
    ASSUME ReviewInvariant, ReviewNext \/ UNCHANGED vars
    PROVE  ReviewInvariant'
<1>1. /\ page' = page
      /\ page = "Dk" => Dk!Next \/ UNCHANGED Dk!vars
      /\ page = "Rf" => Rf!Next \/ UNCHANGED Rf!vars
      /\ page = "Cv" => Cv!Next \/ UNCHANGED Cv!vars
      /\ page = "Rr" => Rr!Next \/ UNCHANGED Rr!vars
      /\ page = "Rd" => Rd!Next \/ UNCHANGED Rd!vars
      /\ page = "Fp" => Fp!Next \/ UNCHANGED Fp!vars
      /\ page = "Ae" => Ae!Next \/ UNCHANGED Ae!vars
      /\ page = "Ac" => Ac!Next \/ UNCHANGED Ac!vars
  BY ReviewSteps, ReviewStutters
<1>2. /\ page = "Rf" => Rf!IInv'
      /\ page = "Cv" => Cv!IInv'
  BY <1>1, ReviewAssumption, FormPreserved, ConversationsPreserved DEF ReviewAssumption, ReviewInvariant
<1>3. /\ page = "Ae" => Ae!IInv'
      /\ page = "Ac" => Ac!IInv'
  BY <1>1, ReviewAssumption, ExplorerPreserved, CameraPreserved DEF ReviewAssumption, ReviewInvariant
<1>4. /\ page = "Rr" => Rr!IInv'
      /\ page = "Rd" => Rd!IInv'
      /\ page = "Fp" => Fp!IInv'
  BY <1>1, ReviewAssumption, RecordsPreserved, DeltaPreserved, PanelPreserved DEF ReviewAssumption, ReviewInvariant
<1>5. page = "Dk" => Dk!IInv'
  BY <1>1, ReviewAssumption, DocketPreserved DEF ReviewAssumption, ReviewInvariant
<1> QED
  BY <1>1, <1>2, <1>3, <1>4, <1>5 DEF ReviewInvariant

\* The invariants say what the map shows.
LEMMA TheMapTells ==
    ASSUME ReviewInvariant
    PROVE  TheMapShowsWhatWasAsked
<1>1. page = "Ae" => Ae!NothingAskedForIsHidden /\ Ae!TheMovedLensIsOwnedTo /\ Ae!OffersDraw
  BY ReviewAssumption, TheMapAnswers DEF ReviewAssumption, ReviewInvariant
<1>2. page = "Ac" => Ac!SettledMapIsOfItsGraph /\ Ac!ClicksFollowTheirPress
  BY ReviewAssumption, TheMapIsSettled DEF ReviewAssumption, ReviewInvariant, Ac!IInv
<1> QED
  BY <1>1, <1>2 DEF TheMapShowsWhatWasAsked

\* And what became of the answers.
LEMMA TheAnswersTell ==
    ASSUME ReviewInvariant
    PROVE  AnswersAreWhatWasSaid
<1>1. page = "Rf" => Rf!RecordIsWhatTheRowsSaid /\ Rf!UnguardedAnswersAreRecorded
  BY ReviewAssumption, FiledIsRecorded DEF ReviewAssumption, ReviewInvariant, Rf!IInv
<1>2. page = "Cv" => Cv!TheAnswerIsOnScreen
  BY ReviewAssumption, TheThreadIsOnScreen DEF ReviewAssumption, ReviewInvariant
<1> QED
  BY <1>1, <1>2 DEF AnswersAreWhatWasSaid

\* And what became of a review, whichever record of it is read.
LEMMA TheRecordsTell ==
    ASSUME ReviewInvariant
    PROVE  RecordsReadTrue
<1>1. page = "Rr" => Rr!FootnotesTellTheTruth
  BY ReviewAssumption, TheFootnotesTell DEF ReviewAssumption, ReviewInvariant
<1>2. page = "Rd" => Rd!RowsReadInFull /\ Rd!PlaceholderHoldsTheRoom
  BY ReviewAssumption, TheDeltaTells DEF ReviewAssumption, ReviewInvariant
<1>3. page = "Fp" => Fp!StructureIsOfTheCandidate /\ Fp!ClosedLinesAreTrue
  BY ThePanelTells DEF ReviewInvariant
<1> QED
  BY <1>1, <1>2, <1>3 DEF RecordsReadTrue

\* A step takes the reader to a row that wants them, or none does: in the docket, in the form.
LEMMA WorkIsHandedOn ==
    ASSUME ReviewInvariant, ReviewNext \/ UNCHANGED vars
    PROVE  /\ page = "Dk" => Dk!AdvanceFindsWhatIsLeft
           /\ page = "Rf" => Rf!TheRoundMovesToWhatIsLeft
<1>1. /\ page = "Dk" => Dk!Next \/ UNCHANGED Dk!vars
      /\ page = "Rf" => Rf!Next \/ UNCHANGED Rf!vars
  BY ReviewSteps, ReviewStutters
<1>2. page = "Dk" => Dk!AdvanceFindsWhatIsLeft
  BY <1>1, ReviewAssumption, TheDocketMovesOn DEF ReviewAssumption, ReviewInvariant
<1>3. page = "Rf" => Rf!TheRoundMovesToWhatIsLeft
  BY <1>1, ReviewAssumption, TheRoundMovesOn DEF ReviewAssumption, ReviewInvariant
<1> QED
  BY <1>2, <1>3

\* And what the docket lists is what the server has, of the rows it is sure of.
LEMMA TheDocketTells ==
    ASSUME ReviewInvariant
    PROVE  DocketTellsTheTruth
BY SureRowsAreListed DEF ReviewInvariant, DocketTellsTheTruth

\* Nor does a step move the frame the reader has set.
LEMMA ReviewStands ==
    ASSUME ReviewInvariant, ReviewNext \/ UNCHANGED vars
    PROVE  page = "Ac" => Ac!TheReadersFrameIsKept
<1>1. page = "Ac" => Ac!Next \/ UNCHANGED Ac!vars
  BY ReviewSteps, ReviewStutters
<1> QED
  BY <1>1, ReviewAssumption, TheFrameIsKept DEF ReviewAssumption, ReviewInvariant

(***************************************************************************)
(* The types of the round form                                             *)
(***************************************************************************)
\* The types of the round's form, beside those its invariant keeps: the open row is a row, and a
\* card that waits has a post of its own on its way.
FormTypes ==
    /\ v3 \subseteq RfQuestions /\ v4 \subseteq RfQuestions
    /\ v7 \in RfQuestions \cup {None}
    /\ v9 \in {"idle", "pending", "done", "failed"}
    /\ v9 = "pending" => \E p \in v10 : p.own /\ p.state # "refetching"

\* The least of some questions is one of them.
LEMMA LeastQuestion ==
    ASSUME Rf!RoundFormAssumption, NEW S \in SUBSET RfQuestions, S # {}
    PROVE  Rf!Min(S) \in RfQuestions
<1>1. RfQuestions \subseteq Nat
  <2>1. RfQuestions = 1 .. Rf!Cardinality(RfQuestions)
    BY DEF Rf!RoundFormAssumption
  <2>2. \A i \in RfQuestions : i \in Nat
    <3> DEFINE n == Rf!Cardinality(RfQuestions)
    <3> HIDE DEF n
    <3>1. RfQuestions = 1 .. n
      BY <2>1 DEF n
    <3> QED
      BY <3>1
  <2> QED
    BY <2>2
<1>2. \E x \in S : \A y \in S : x =< y
  BY <1>1, LeastNumber
<1>3. Rf!Min(S) \in S
  BY <1>2 DEF Rf!Min
<1> QED
  BY <1>3

\* With the form's invariant they are what has a type.
LEMMA FormIsTyped ==
    ASSUME Rf!IInv, FormTypes
    PROVE  Rf!TypeOK
<1>1. Rf!Cardinality({p \in v10 : p.own}) <= 1
  <2> DEFINE S == {p \in v10 : p.own}
  <2>1. \A p, r \in S : p = r
    BY DEF Rf!IInv, Rf!PostsAreOfTheirRows, Rf!OwnPost
  <2>2. Rf!Cardinality(S) = Cardinality(S)
    <3> HIDE DEF S
    <3> QED
      BY DEF Rf!Cardinality, Cardinality
  <2> HIDE DEF S
  <2>3. CASE S = {}
    BY <2>2, <2>3, FS_EmptySet DEF S
  <2>4. CASE S # {}
    <3>1. PICK p : S = {p}
      BY <2>1, <2>4
    <3>2. Cardinality(S) = 1
      BY <3>1, FS_Singleton
    <3> QED
      BY <2>2, <3>2 DEF S
  <2> QED
    BY <2>3, <2>4
<1>2. v9 = "pending" <=> \E p \in v10 : p.own /\ p.state # "refetching"
  BY DEF FormTypes, Rf!IInv, Rf!PostsAreOfTheirRows, Rf!OwnPost
<1> QED
  BY <1>1, <1>2 DEF Rf!IInv, FormTypes, Rf!TypeOK

\* The form opens with no row of the reader's and no post.
LEMMA FormTypedInitially ==
    ASSUME Rf!RoundFormAssumption, Rf!Init
    PROVE  FormTypes
  BY DEF Rf!Init, Rf!Remembers, FormTypes

\* The next row is a row.
LEMMA NextRowIsTyped ==
    ASSUME Rf!RoundFormAssumption, NEW q \in RfQuestions, Rf!OpenNextAfter(q)
    PROVE  v7' \in RfQuestions
<1> DEFINE left == Rf!Unresolved \ {q}
           after == {r \in left : r > q}
<1>1. v7' = IF after # {} THEN Rf!Min(after) ELSE IF left # {} THEN Rf!Min(left) ELSE q
  BY DEF Rf!OpenNextAfter
<1>2. left \in SUBSET RfQuestions /\ after \in SUBSET RfQuestions
  BY DEF Rf!Unresolved
<1> HIDE DEF left, after
<1> QED
  BY <1>1, <1>2, LeastQuestion

\* Every step of the form and of its posts keeps them.
LEMMA FormStaysTyped ==
    ASSUME Rf!RoundFormAssumption, Rf!IInv, FormTypes, Rf!Next
    PROVE  FormTypes'
<1>1. ASSUME NEW q \in RfQuestions,
             \/ \E option \in RfOptions[q] : Rf!Choose(q, option)
             \/ \E text \in {"", "words"} : Rf!Write(q, text)
             \/ Rf!ChooseOwn(q) \/ Rf!UseDraft(q) \/ Rf!ToggleSkip(q) \/ Rf!TypeQuestion(q)
             \/ Rf!QuestionAnswered(q) \/ Rf!OpenRow(q)
      PROVE  FormTypes'
  <2>1. UNCHANGED <<v9, v10>>
    BY <1>1 DEF Rf!Choose, Rf!Write, Rf!ChooseOwn, Rf!UseDraft, Rf!ToggleSkip, Rf!TypeQuestion, Rf!QuestionAnswered,
                Rf!OpenRow, Rf!Edits
  <2>2. v3' \subseteq RfQuestions /\ v4' \subseteq RfQuestions
    BY <1>1 DEF FormTypes, Rf!Choose, Rf!Write, Rf!ChooseOwn, Rf!UseDraft, Rf!ToggleSkip, Rf!TypeQuestion,
                Rf!QuestionAnswered, Rf!OpenRow, Rf!typed
  <2>3. v7' \in RfQuestions \cup {None}
    BY <1>1, NextRowIsTyped DEF FormTypes, Rf!Choose, Rf!Write, Rf!ChooseOwn, Rf!UseDraft, Rf!ToggleSkip, Rf!TypeQuestion,
                Rf!QuestionAnswered, Rf!OpenRow
  <2> QED
    BY <2>1, <2>2, <2>3 DEF FormTypes
<1>2. ASSUME NEW stop \in BOOLEAN, Rf!Submit(stop)
      PROVE  FormTypes'
  <2> DEFINE p == [n |-> v15', stop |-> stop, state |-> "sent", own |-> TRUE,
                   outcomes |-> [q \in RfQuestions |-> Rf!Outcome(q)],
                   rows |-> [q \in RfQuestions |-> Rf!RoundRow(q)], of |-> Rf!Fingerprint]
  <2>1. v10' = v10 \cup {p} /\ v9' = "pending" /\ UNCHANGED <<v3, v4, v7>>
    BY <1>2 DEF Rf!Submit, Rf!typed
  <2>2. p.own /\ p.state # "refetching"
    OBVIOUS
  <2> HIDE DEF p
  <2> QED
    BY <2>1, <2>2 DEF FormTypes
<1>3. ASSUME NEW p \in v10, Rf!Takes(p) \/ Rf!Succeeds(p) \/ Rf!Fails(p) \/ Rf!Refreshes(p)
      PROVE  FormTypes'
  <2>1. p \in Rf!Posts
    BY DEF Rf!IInv
  <2>2. UNCHANGED <<v3, v4>> /\ v7' \in RfQuestions \cup {None}
    BY <1>3 DEF FormTypes, Rf!Takes, Rf!Succeeds, Rf!Fails, Rf!Refreshes, Rf!typed
  <2>3. v9' \in {"idle", "pending", "done", "failed"}
    BY <1>3 DEF FormTypes, Rf!Takes, Rf!Succeeds, Rf!Fails, Rf!Refreshes
  <2>4. ASSUME v9' = "pending"
        PROVE  \E r \in v10' : r.own /\ r.state # "refetching"
    <3>1. v9 = "pending"
      BY <1>3, <2>4 DEF Rf!Takes, Rf!Succeeds, Rf!Fails, Rf!Refreshes
    <3>2. PICK r \in v10 : r.own /\ r.state # "refetching"
      BY <3>1 DEF FormTypes
    <3>3. CASE Rf!Takes(p)
      <4>1. PICK s \in {"taken", "refused"} : v10' = (v10 \ {p}) \cup {[p EXCEPT !.state = s]}
        BY <3>3 DEF Rf!Takes, Rf!Moves
      <4>2. [p EXCEPT !.state = s].own = p.own /\ [p EXCEPT !.state = s].state = s
        BY <2>1, PostMoved
      <4> QED
        BY <3>2, <4>1, <4>2
    <3>4. CASE Rf!Succeeds(p) \/ Rf!Fails(p)
      <4>1. ~p.own /\ \A x \in v10 : x # p => x \in v10'
        BY <2>4, <3>4 DEF Rf!Succeeds, Rf!Fails
      <4> QED
        BY <3>2, <4>1
    <3>5. CASE Rf!Refreshes(p)
      BY <2>4, <3>5 DEF Rf!Refreshes
    <3> QED
      BY <1>3, <3>3, <3>4, <3>5
  <2> QED
    BY <2>2, <2>3, <2>4 DEF FormTypes
<1>4. CASE Rf!Leave
  BY <1>4 DEF FormTypes, Rf!Leave, Rf!typed
<1>5. CASE Rf!Return
  BY <1>5 DEF FormTypes, Rf!Return, Rf!typed
<1> QED
  BY <1>1, <1>2, <1>3, <1>4, <1>5 DEF Rf!Next

(***************************************************************************)
(* The types of the conversations                                          *)
(***************************************************************************)
\* The types of the conversations, beside those their invariant keeps: the threads are in the
\* order they were made.
InOrder == \A i, j \in DOMAIN v2 : i < j => v2[i].id < v2[j].id

ThreadsTypes ==
    /\ InOrder
    /\ v1 \in BOOLEAN /\ v3 <= CvMaxThreads[v1] /\ v13 \in Nat /\ v13 <= CvMaxAsks[v1]
    /\ v10 \in {"idle", "sent", "made", "failed"}
    /\ v12 \in {"idle", "sent", "gone", "failed"}

\* At first they are numbered as they stand.
LEMMA ThreadsTypedInitially ==
    ASSUME Cv!ConversationsAssumption, Cv!Init
    PROVE  ThreadsTypes
<1>1. PICK n \in 0 .. CvMaxThreads[v1] : v2 = [i \in 1 .. n |-> [id |-> i, asked |-> IF i = n THEN 0 ELSE 1]]
  BY DEF Cv!Init
<1>2. n \in Nat /\ CvMaxThreads[v1] \in Nat /\ n <= CvMaxThreads[v1] /\ v1 \in BOOLEAN /\ CvMaxAsks[v1] \in Nat
  BY <1>1 DEF Cv!Init, Cv!ConversationsAssumption
<1>3. v3 = n
  BY <1>1, <1>2 DEF Cv!Init
<1>4. InOrder
  BY <1>1, <1>2 DEF InOrder
<1> QED
  BY <1>2, <1>3, <1>4 DEF Cv!Init, ThreadsTypes

\* A thread that is made comes after those there are.
LEMMA MadeInOrder ==
    ASSUME Cv!IInv, InOrder, v3' = v3 + 1, v2' = Append(v2, [id |-> v3', asked |-> 0])
    PROVE  InOrder'
<1> DEFINE T == [id : 1 .. v3, asked : Nat]
           B == [id : 1 .. v3', asked : Nat]
<1>1. v3 \in Nat /\ v2 \in Seq(T)
  BY DEF Cv!IInv
<1>2. \A i \in DOMAIN v2 : v2[i] \in T
  <2> HIDE DEF T
  <2> QED
    BY <1>1, ElementsOf
<1>3. \A i \in DOMAIN v2 : v2[i].id < v3'
  BY <1>1, <1>2
<1>4. v2 \in Seq(B) /\ [id |-> v3', asked |-> 0] \in B
  <2>1. 1 .. v3 \subseteq 1 .. v3'
    BY <1>1
  <2>2. v2 \in Seq(B)
    BY <1>1, <2>1, MoreThreads, Zenon
  <2> QED
    BY <1>1, <2>2
<1> HIDE DEF T, B
<1>5. /\ v2' \in Seq(B) /\ Len(v2') = Len(v2) + 1 /\ Len(v2) \in Nat
      /\ v2'[Len(v2) + 1] = [id |-> v3', asked |-> 0] /\ \A i \in 1 .. Len(v2) : v2'[i] = v2[i]
  BY <1>4, Appended
<1>6. DOMAIN v2 = 1 .. Len(v2) /\ DOMAIN v2' = 1 .. (Len(v2) + 1)
  BY <1>1, <1>5
<1>7. ASSUME NEW i \in DOMAIN v2', NEW j \in DOMAIN v2', i < j
      PROVE  v2'[i].id < v2'[j].id
  <2>1. i \in DOMAIN v2 /\ v2'[i] = v2[i]
    BY <1>5, <1>6, <1>7
  <2>2. CASE j = Len(v2) + 1
    BY <1>3, <1>5, <2>1, <2>2
  <2>3. CASE j \in DOMAIN v2
    BY <1>5, <1>6, <1>7, <2>1, <2>3 DEF InOrder
  <2> QED
    BY <1>5, <1>6, <2>2, <2>3
<1> QED
  BY <1>7 DEF InOrder

\* An answer is filed where it is.
LEMMA FiledInOrder ==
    ASSUME Cv!IInv, InOrder, Cv!ServerAnswers
    PROVE  InOrder'
<1>1. v2 \in Seq([id : 1 .. v3, asked : Nat])
  BY DEF Cv!IInv
<1>2. CASE v2' = [i \in DOMAIN v2 |-> IF v2[i].id = v7.thread THEN [v2[i] EXCEPT !.asked = @ + 1] ELSE v2[i]]
  <2> DEFINE T == [id : 1 .. v3, asked : Nat]
  <2>1. \A i \in DOMAIN v2 : v2[i] \in T
    <3> HIDE DEF T
    <3> QED
      BY <1>1, ElementsOf DEF T
  <2>2. DOMAIN v2' = DOMAIN v2 /\ \A i \in DOMAIN v2 : v2'[i].id = v2[i].id
    BY <1>2, <2>1
  <2> QED
    BY <2>2 DEF InOrder
<1>3. CASE v2' = v2
  BY <1>3 DEF InOrder
<1> QED
  BY <1>2, <1>3 DEF Cv!ServerAnswers

\* What is left when one is discarded is in the order it was in.
LEMMA LeftInOrder ==
    ASSUME Cv!IInv, InOrder, Cv!Discard
    PROVE  InOrder'
<1> DEFINE T == [id : 1 .. v3, asked : Nat]
           S == {t \in Cv!ToSet(v2) : t.id # v11}
           w == Within(v2, S)
<1>1. v2' = w /\ v2 \in Seq(T)
  BY DEF Cv!Discard, Cv!IInv, Cv!Within, Within
<1> HIDE DEF T, S
<1>2. PICK h \in [1 .. Len(w) -> 1 .. Len(v2)] :
         /\ \A k \in 1 .. Len(w) : w[k] = v2[h[k]]
         /\ \A j, k \in 1 .. Len(w) : j < k => h[j] < h[k]
  BY <1>1, WithinTheList
<1>3. DOMAIN w = 1 .. Len(w) /\ DOMAIN v2 = 1 .. Len(v2)
  <2>1. w \in Seq(T)
    BY <1>1, WithinTheList
  <2> QED
    BY <1>1, <2>1
<1> HIDE DEF w
<1>4. ASSUME NEW i \in DOMAIN w, NEW j \in DOMAIN w, i < j
      PROVE  w[i].id < w[j].id
  <2>1. h[i] \in DOMAIN v2 /\ h[j] \in DOMAIN v2 /\ h[i] < h[j] /\ w[i] = v2[h[i]] /\ w[j] = v2[h[j]]
    BY <1>2, <1>3, <1>4
  <2> QED
    BY <2>1 DEF InOrder
<1> QED
  BY <1>1, <1>4 DEF InOrder

\* With the invariant of the conversations they are what has a type.
LEMMA ConversationIsTyped ==
    ASSUME Cv!IInv, ThreadsTypes
    PROVE  Cv!TypeOK
<1>1. v7 # None => v7.thread \in 0 .. v3
  BY DEF Cv!IInv
<1>2. \A i, j \in DOMAIN v2 : i < j => v2[i].id < v2[j].id
  BY DEF ThreadsTypes, InOrder
<1> QED
  BY <1>1, <1>2 DEF Cv!IInv, ThreadsTypes, Cv!TypeOK

\* Every step of the conversations keeps them.
LEMMA ThreadsStayTyped ==
    ASSUME Cv!ConversationsAssumption, Cv!IInv, ThreadsTypes, Cv!Next
    PROVE  ThreadsTypes'
<1>1. v1' = v1 /\ Cv!Steps
  BY DEF Cv!Next
<1>2. v3 \in Nat /\ CvMaxThreads[v1] \in Nat /\ CvMaxAsks[v1] \in Nat /\ v13 \in Nat
  BY DEF Cv!IInv, ThreadsTypes, Cv!ConversationsAssumption
<1>3. CASE Cv!Created \/ Cv!Opened
  <2>1. v3' = v3 + 1 /\ v2' = Append(v2, [id |-> v3', asked |-> 0]) /\ v3 < CvMaxThreads[v1] /\ v13' = v13 /\ v12' = v12
        /\ v10' \in {v10, "made"}
    BY <1>3 DEF Cv!Created, Cv!Opened
  <2>2. InOrder'
    BY <2>1, MadeInOrder DEF ThreadsTypes
  <2>3. v3' <= CvMaxThreads[v1]
    BY <1>2, <2>1
  <2> QED
    BY <1>1, <2>1, <2>2, <2>3 DEF ThreadsTypes
<1>4. CASE Cv!ServerAnswers
  <2>1. UNCHANGED <<v3, v10, v12, v13>> /\ InOrder'
    BY <1>4, FiledInOrder DEF Cv!ServerAnswers, ThreadsTypes
  <2> QED
    BY <1>1, <2>1 DEF ThreadsTypes
<1>5. CASE Cv!Discard
  <2>1. UNCHANGED <<v3, v10, v13>> /\ InOrder' /\ v12' = "sent"
    BY <1>5, LeftInOrder DEF Cv!Discard, ThreadsTypes
  <2> QED
    BY <1>1, <2>1 DEF ThreadsTypes
<1>6. CASE Cv!Send \/ Cv!AskAgain
  <2>1. UNCHANGED <<v2, v3, v10, v12>> /\ v13 < CvMaxAsks[v1] /\ v13' = v13 + 1
    BY <1>6 DEF Cv!Send, Cv!AskAgain, Cv!Sends
  <2>2. v13' \in Nat /\ v13' <= CvMaxAsks[v1]
    BY <1>2, <2>1
  <2> QED
    BY <1>1, <2>1, <2>2 DEF ThreadsTypes, InOrder
<1>7. ASSUME UNCHANGED <<v2, v3, v13>>, v10' \in {v10, "idle", "sent", "failed"}, v12' \in {v12, "idle", "gone", "failed"}
      PROVE  ThreadsTypes'
  BY <1>1, <1>7 DEF ThreadsTypes, InOrder
<1>8. CASE Cv!ListArrives \/ Cv!ListFails
  BY <1>7, <1>8 DEF Cv!ListArrives, Cv!ListFails, Cv!AfterRead
<1>9. CASE (\E i \in DOMAIN Cv!Known : Cv!Pick(i)) \/ (\E step \in {-1, 1} : Cv!StepTab(step))
  BY <1>7, <1>9 DEF Cv!Pick, Cv!StepTab
<1>10. CASE \/ Cv!ListRead \/ Cv!ReadAgain \/ Cv!TypeWords \/ Cv!AskSucceeds \/ Cv!AskFails
            \/ Cv!OpenNew \/ Cv!OpenFails \/ Cv!Confirm \/ Cv!Keep \/ Cv!Discarded \/ Cv!DiscardFails
  BY <1>7, <1>10 DEF Cv!ListRead, Cv!ReadAgain, Cv!TypeWords, Cv!AskSucceeds, Cv!AskFails, Cv!OpenNew, Cv!OpenFails,
                     Cv!Confirm, Cv!Keep, Cv!Discarded, Cv!DiscardFails
<1> QED
  BY <1>1, <1>3, <1>4, <1>5, <1>6, <1>8, <1>9, <1>10 DEF Cv!Steps

(***************************************************************************)
(* The types of the records                                                *)
(***************************************************************************)
\* What is answered was put, and an open round was put.
PutThenTaken ==
    /\ v10.taken \subseteq v10.put
    /\ v1 = "waiting" => Rr!Last(v8).questions \subseteq v10.put

\* With the records' invariant it is what has a type.
LEMMA ReviewOfRecordsIsTyped ==
    ASSUME Rr!RecordsAssumption, Rr!IInv, PutThenTaken
    PROVE  Rr!TypeOK
<1>1. v4 \in 1 .. 3
  BY RecordIsTyped DEF Rr!IInv
<1> QED
  BY <1>1 DEF Rr!IInv, Rr!RecordsAreTyped, Rr!TypeOK, PutThenTaken

\* At first nothing is put.
LEMMA PutInitially ==
    ASSUME Rr!Init
    PROVE  PutThenTaken
  BY DEF Rr!Init, PutThenTaken

\* Every step of the review keeps it.
LEMMA PutBeforeTaken ==
    ASSUME Rr!RecordsAssumption, Rr!IInv, PutThenTaken, Rr!Next
    PROVE  PutThenTaken'
<1>1. v8 \in Seq(Rr!RecordSet) /\ v10 \in [put : SUBSET Rr!QuestionSet, taken : SUBSET Rr!QuestionSet]
  BY DEF Rr!IInv, Rr!RecordsAreTyped
<1>2. CASE Rr!Ask
  <2>1. PICK s \in (SUBSET v7) \ {{}} : /\ Rr!Files("awaiting_answers", {Rr!Question(c) : c \in s})
                                        /\ v10' = [v10 EXCEPT !.put = @ \cup {Rr!Question(c) : c \in s}]
    BY <1>2 DEF Rr!Ask
  <2> DEFINE asked == {Rr!Question(c) : c \in s}
             r == Rr!Record("awaiting_answers", asked)
  <2>2. v8' = Append(v8, r) /\ v10' = [v10 EXCEPT !.put = @ \cup asked]
    BY <2>1 DEF Rr!Files
  <2>3. asked \in SUBSET Rr!QuestionSet
    BY <1>2, <2>1 DEF Rr!IInv, Rr!RecordsAreTyped, Rr!Ask, Rr!Question, Rr!QuestionSet
  <2> HIDE DEF asked
  <2>4. r \in Rr!RecordSet /\ r.questions = asked
    BY <2>3, RecordIsTyped DEF Rr!IInv, Rr!Record
  <2> HIDE DEF r
  <2>5. Rr!Last(v8') = r
    BY <1>1, <2>2, <2>4, AnotherRecord
  <2>6. v10'.put = v10.put \cup asked /\ v10'.taken = v10.taken
    BY <1>1, <2>2
  <2> QED
    BY <2>4, <2>5, <2>6 DEF PutThenTaken
<1>3. ASSUME NEW stop \in BOOLEAN, Rr!Answer(stop)
      PROVE  PutThenTaken'
  <2>1. v1 = "waiting" /\ v10' = [v10 EXCEPT !.taken = @ \cup Rr!Last(v8).questions] /\ v1' # "waiting"
    BY <1>3, Zenon DEF Rr!Answer, Rr!CanAnswer
  <2> DEFINE asks == Rr!Last(v8).questions
  <2>2. asks \subseteq v10.put
    BY <2>1 DEF PutThenTaken
  <2> HIDE DEF asks
  <2>3. v10'.put = v10.put /\ v10'.taken = v10.taken \cup asks
    BY <1>1, <2>1 DEF asks
  <2> QED
    BY <2>1, <2>2, <2>3 DEF PutThenTaken
<1>4. CASE Rr!Judge \/ Rr!Complete \/ Rr!Cancel \/ Rr!Fail \/ \E word \in {"cancelled", "failed"} : Rr!Dies(word)
  <2>1. v10' = v10 /\ v1' # "waiting"
    BY <1>4 DEF Rr!Judge, Rr!Complete, Rr!Cancel, Rr!Fail, Rr!Dies
  <2> QED
    BY <2>1 DEF PutThenTaken
<1> QED
  BY <1>2, <1>3, <1>4 DEF Rr!Next

(***************************************************************************)
(* The types of the delta                                                  *)
(***************************************************************************)
\* A read of the review before is asked for where there is one.
DeltaTypes == Rd!TypeOK /\ (v4 = Asked => v3 > 1)

\* The tab opens on a review of the line, with every movement listed.
LEMMA DeltaTypedInitially ==
    ASSUME Rd!DeltaAssumption, Rd!Init
    PROVE  DeltaTypes
<1>1. v3 \in 1 .. RdLineage /\ v4 = (IF v3 = 1 THEN None ELSE Asked) /\ v5 = "all" /\ v6 = 0
  BY DEF Rd!Init
<1>2. RdLineage \in Nat /\ None # Asked
  BY DEF Rd!DeltaAssumption
<1>3. v4 = Asked => v3 > 1
  BY <1>1, <1>2
<1> QED
  BY <1>1, <1>3 DEF Rd!TypeOK, DeltaTypes

\* And stays so.
LEMMA DeltaTyped ==
    ASSUME Rd!DeltaAssumption, DeltaTypes, Rd!Next
    PROVE  DeltaTypes'
<1>1. RdLineage \in Nat /\ None # Asked
  BY DEF Rd!DeltaAssumption
<1>2. CASE \E s \in Rd!Range(Rd!States) \cup {"all"} : Rd!SetFilter(s)
  BY <1>2 DEF Rd!SetFilter, DeltaTypes, Rd!TypeOK
<1>3. CASE Rd!EarlierArrives
  <2>1. v4 = Asked /\ v4' \in {v3 - 1, None} /\ UNCHANGED <<v3, v5, v6>> /\ v3 \in 1 .. RdLineage /\ v3 > 1
    BY <1>3 DEF Rd!EarlierArrives, DeltaTypes, Rd!TypeOK
  <2>2. v4' \in {None} \cup 1 .. RdLineage
    BY <1>1, <2>1
  <2> QED
    BY <2>1, <2>2 DEF DeltaTypes, Rd!TypeOK
<1>4. CASE Rd!LineageArrives
  BY <1>4 DEF Rd!LineageArrives, DeltaTypes, Rd!TypeOK
<1>5. ASSUME NEW r \in 1 .. RdLineage, Rd!Jump(r)
      PROVE  DeltaTypes'
  <2>1. v3' = r /\ v4' = (IF r = 1 THEN None ELSE IF v6 # 0 THEN r - 1 ELSE Asked) /\ UNCHANGED <<v5, v6>>
    BY <1>5 DEF Rd!Jump
  <2>2. v4' \in {None, Asked} \cup 1 .. RdLineage /\ (v4' = Asked => v3' > 1)
    BY <1>1, <2>1
  <2> QED
    BY <2>1, <2>2 DEF DeltaTypes, Rd!TypeOK
<1> QED
  BY <1>2, <1>3, <1>4, <1>5 DEF Rd!Next

(***************************************************************************)
(* The types of the panel of a finding                                     *)
(***************************************************************************)
\* The types of the panel of a finding, beside those of its search.
PanelTypes ==
    /\ v4 \in FpCandidates \cup {None}
    /\ v5 \in BOOLEAN /\ v6 \in Fp!Tabs
    /\ v7 \in FpCandidates \cup {None, "words"}
    /\ v10 \in 0 .. FpMaxSearches

\* With the panel's invariant they are what has a type.
LEMMA PanelIsTyped ==
    ASSUME Fp!IInv, PanelTypes
    PROVE  Fp!TypeOK
<1>1. v8 = None \/ v8.state \in {"pending", "nodes", "no node", "failed"}
  BY DEF Fp!IInv
<1> QED
  BY <1>1 DEF PanelTypes, Fp!TypeOK

\* The drawer is shut at first.
LEMMA PanelTypedInitially ==
    ASSUME Fp!PanelAssumption, Fp!Init
    PROVE  PanelTypes
<1>1. v4 \in FpCandidates \cup {None} /\ v5 = FALSE /\ v6 = "case" /\ v7 = None /\ v10 = 0 /\ FpMaxSearches \in Nat
  BY DEF Fp!Init, Fp!PanelAssumption
<1>2. v5 \in BOOLEAN
  BY <1>1, Zenon
<1> QED
  BY <1>1, <1>2 DEF PanelTypes, Fp!Tabs

\* What is sent for is counted.
LEMMA SearchesAreCounted ==
    ASSUME Fp!PanelAssumption, PanelTypes, v10 < FpMaxSearches,
           NEW c \in FpCandidates \cup {None}, UNCHANGED <<v7, v10>> \/ Fp!Remake(c)
    PROVE  v7' \in FpCandidates \cup {None, "words"} /\ v10' \in 0 .. FpMaxSearches
<1>1. v10' = v10 \/ v10' = v10 + 1
  BY DEF Fp!Remake, Fp!Searching
<1>2. v7' = v7 \/ v7' = c
  BY DEF Fp!Remake
<1> QED
  BY <1>1, <1>2 DEF PanelTypes, Fp!PanelAssumption

\* Every step of the panel keeps them.
LEMMA PanelTyped ==
    ASSUME Fp!PanelAssumption, PanelTypes, Fp!Next
    PROVE  PanelTypes'
<1>1. CASE Fp!OpenContext
  <2>1. UNCHANGED <<v4, v6>> /\ v5' = TRUE /\ v10 < FpMaxSearches /\ (UNCHANGED <<v7, v10>> \/ Fp!Remake(v4))
    BY <1>1 DEF Fp!OpenContext
  <2>2. v4 \in FpCandidates \cup {None}
    BY DEF PanelTypes
  <2>3. v7' \in FpCandidates \cup {None, "words"} /\ v10' \in 0 .. FpMaxSearches
    BY <2>1, <2>2, SearchesAreCounted
  <2>4. v5' \in BOOLEAN
    BY <2>1, Zenon
  <2> QED
    BY <2>1, <2>3, <2>4 DEF PanelTypes
<1>2. CASE Fp!CloseContext
  <2>1. UNCHANGED <<v4, v6, v10>> /\ v5' = FALSE /\ v7' = None
    BY <1>2 DEF Fp!CloseContext
  <2>2. v5' \in BOOLEAN
    BY <2>1, Zenon
  <2> QED
    BY <2>1, <2>2 DEF PanelTypes
<1>3. ASSUME NEW t \in Fp!Tabs, Fp!PickTab(t)
      PROVE  PanelTypes'
  <2>1. UNCHANGED <<v4, v5>> /\ v6' = t /\ v10 < FpMaxSearches
    BY <1>3 DEF Fp!PickTab
  <2>2. v4 \in FpCandidates \cup {None}
    BY DEF PanelTypes
  <2>3. CASE t = "structure"
    <3>1. Fp!Remake(v4)
      BY <1>3, <2>3, Zenon DEF Fp!PickTab
    <3> QED
      BY <2>1, <2>2, <3>1, SearchesAreCounted DEF PanelTypes
  <2>4. CASE t # "structure"
    <3>1. v7' = None /\ v10' = v10
      BY <1>3, <2>4 DEF Fp!PickTab
    <3> QED
      BY <2>1, <3>1 DEF PanelTypes
  <2> QED
    BY <2>3, <2>4
<1>4. ASSUME NEW c \in FpCandidates \cup {None}, Fp!OpenRow(c)
      PROVE  PanelTypes'
  <2>1. UNCHANGED <<v5, v6>> /\ v4' = c /\ v10 < FpMaxSearches /\ (UNCHANGED <<v7, v10>> \/ Fp!Remake(c))
    BY <1>4 DEF Fp!OpenRow
  <2> QED
    BY <2>1, SearchesAreCounted DEF PanelTypes
<1>5. ASSUME NEW w \in {None, "words"}, Fp!TypeQuery(w)
      PROVE  PanelTypes'
  BY <1>5 DEF Fp!TypeQuery, PanelTypes
<1>6. CASE Fp!Search
  <2>1. UNCHANGED <<v4, v5, v6, v7>> /\ v10' = v10 + 1 /\ v10 < FpMaxSearches
    BY <1>6 DEF Fp!Search, Fp!Searching
  <2>2. v10' \in 0 .. FpMaxSearches
    BY <2>1 DEF PanelTypes, Fp!PanelAssumption
  <2> QED
    BY <2>1, <2>2 DEF PanelTypes
<1>7. ASSUME NEW k, Fp!Arrives(k)
      PROVE  PanelTypes'
  BY <1>7 DEF Fp!Arrives, PanelTypes
<1> QED
  BY <1>1, <1>2, <1>3, <1>4, <1>5, <1>6, <1>7 DEF Fp!Next

(***************************************************************************)
(* The types of the map                                                    *)
(***************************************************************************)
\* The types of the map, beside those its invariant keeps: a request is on it once, and what a
\* search matched is elements.
MatchSet == [ids : Seq(AeElements), at : Nat \ {0}]

ExplorerTypes ==
    /\ \A i, j \in 1 .. Len(v2) : v2[i] = v2[j] => i = j
    /\ v3 \in AeElements \cup {None} /\ v4 \in AeElements \cup {None}
    /\ v6 \subseteq Ae!Kinds /\ v7 \in BOOLEAN /\ v8 \in BOOLEAN
    /\ v11 \in MatchSet
    /\ v15 \in 0 .. AeMaxActs

\* With the invariant of the map they are what has a type.
LEMMA TheMapIsTyped ==
    ASSUME Ae!IInv, ExplorerTypes
    PROVE  Ae!TypeOK
<1>1. v2 \in Seq(AeRequests)
  BY DEF Ae!IInv
<1>2. Len(v2) = Ae!Cardinality(Ae!ToSet(v2))
  <2>1. Len(v2) = Cardinality(Ae!ToSet(v2))
    BY <1>1, DistinctAreCounted DEF ExplorerTypes, Ae!ToSet
  <2> DEFINE R == Ae!ToSet(v2)
  <2> HIDE DEF R
  <2>2. Ae!Cardinality(R) = Cardinality(R)
    BY DEF Ae!Cardinality, Cardinality
  <2> QED
    BY <2>1, <2>2 DEF R
<1>3. Ae!ToSet(v2) \subseteq AeRequests
  BY <1>1 DEF Ae!ToSet
<1>4. v12 \in AeRequests \cup {None}
  BY <1>1, TheTraceWasAnswered DEF Ae!IInv, Ae!TraceIsTheLast
<1> QED
  BY <1>2, <1>3, <1>4 DEF Ae!IInv, ExplorerTypes, Ae!TypeOK

\* The map holds elements.
LEMMA NodesAreElements ==
    ASSUME Ae!ExplorerAssumption, NEW x \in Seq(AeRequests), NEW a
    PROVE  Ae!Nodes(x, a) \subseteq AeElements
<1>1. \A r \in Ae!Results(x, a) : r \in AeRequests \cup {Context}
  BY DEF Ae!Results, Ae!ToSet
<1> QED
  BY <1>1 DEF Ae!ExplorerAssumption, Ae!Nodes

\* What a term brings is a list of them.
LEMMA MatchesAreElements ==
    ASSUME Ae!ExplorerAssumption, NEW t, NEW N \in SUBSET AeElements
    PROVE  Ae!ByTerm(t, N) \in Seq(AeElements) /\ (Ae!ByTerm(t, N) # <<>> => Head(Ae!ByTerm(t, N)) \in AeElements)
<1> DEFINE S == {n \in N : n \in AeFound[CHOOSE r \in AeRequests : AeOp[r] = "search" /\ AeOn[r] = t]}
<1>1. S \subseteq AeElements /\ Ae!ByTerm(t, N) = Ae!SetToSeq(S)
  BY DEF Ae!ByTerm
<1>2. IsFiniteSet(AeElements)
  BY DEF Ae!ExplorerAssumption, Ae!IsFiniteSet, IsFiniteSet
<1> HIDE DEF S
<1>3. IsFiniteSet(S) /\ Cardinality(S) \in Nat
  BY <1>1, <1>2, FS_Subset, FS_CardinalityType
<1>4. ExistsBijection(1 .. Cardinality(S), S)
  BY <1>3, FS_CardinalityType
<1>5. PICK g \in [1 .. Cardinality(S) -> S] : \A i, j \in 1 .. Cardinality(S) : g[i] = g[j] => i = j
  BY <1>4 DEF ExistsBijection, Bijection, Injection, IsInjective
<1>6. Ae!IsInjective(g)
  BY <1>5 DEF Ae!IsInjective
<1>7. Ae!Cardinality(S) = Cardinality(S)
  BY DEF Ae!Cardinality, Cardinality
<1>8. Ae!SetToSeq(S) \in [1 .. Cardinality(S) -> S]
  BY <1>5, <1>6, <1>7 DEF Ae!SetToSeq
<1> DEFINE w == Ae!SetToSeq(S)
<1> HIDE DEF w
<1>9. w \in [1 .. Cardinality(S) -> AeElements]
  BY <1>1, <1>8 DEF w
<1>10. w \in Seq(AeElements)
  BY <1>3, <1>9
<1>11. w # <<>> => Head(w) \in AeElements
  BY <1>10
<1> QED
  BY <1>1, <1>10, <1>11 DEF w

\* Nothing matched is of the type.
LEMMA NoMatch == [ids |-> <<>>, at |-> 1] \in MatchSet
  BY DEF MatchSet

\* So what a render selects is an element, or what was selected.
LEMMA RenderedIsTyped ==
    ASSUME Ae!ExplorerAssumption, NEW x \in Seq(AeRequests), NEW a, NEW l, NEW q,
           NEW m \in MatchSet, NEW s \in AeElements \cup {None}, Ae!Renders(x, a, l, q, m, s)
    PROVE  v11' \in MatchSet /\ v3' \in AeElements \cup {None}
<1> DEFINE found == IF q = None THEN <<>> ELSE Ae!ByTerm(q, Ae!Nodes(x, a))
<1>1. /\ v11' = IF found # <<>> THEN [ids |-> found, at |-> 1] ELSE m
      /\ v3' = IF found # <<>> THEN Head(found) ELSE s
  BY DEF Ae!Renders
<1>2. found \in Seq(AeElements) /\ (found # <<>> => Head(found) \in AeElements)
  <2>1. CASE q = None
    BY <2>1
  <2>2. CASE q # None
    BY <2>2, NodesAreElements, MatchesAreElements
  <2> QED
    BY <2>1, <2>2
<1> HIDE DEF found
<1>3. [ids |-> found, at |-> 1] \in MatchSet
  BY <1>2 DEF MatchSet
<1> QED
  BY <1>1, <1>2, <1>3

\* The requests on the map are on it once, whatever is asked again or dropped.
LEMMA RequestsAreThereOnce ==
    ASSUME Ae!IInv, ExplorerTypes, NEW r \in AeRequests
    PROVE  /\ \A i, j \in 1 .. Len(Ae!Without(r)) : Ae!Without(r)[i] = Ae!Without(r)[j] => i = j
           /\ \A i, j \in 1 .. Len(Ae!Explored(r)) : Ae!Explored(r)[i] = Ae!Explored(r)[j] => i = j
<1> DEFINE w == Within(v2, AeRequests \ {r})
<1>1. v2 \in Seq(AeRequests) /\ \A i, j \in 1 .. Len(v2) : v2[i] = v2[j] => i = j
  BY DEF Ae!IInv, ExplorerTypes
<1>2. \A i, j \in 1 .. Len(w) : w[i] = w[j] => i = j
  BY <1>1, DistinctAreLeft
<1>3. w \in Seq(AeRequests) /\ \A i \in 1 .. Len(w) : w[i] # r
  <2>1. /\ w \in Seq(AeRequests)
        /\ \E h \in [1 .. Len(w) -> 1 .. Len(v2)] : \A k \in 1 .. Len(w) : w[k] = v2[h[k]] /\ v2[h[k]] \in AeRequests \ {r}
    BY <1>1, WithinTheList
  <2> HIDE DEF w
  <2> QED
    BY <2>1
<1>4. Ae!Without(r) = w /\ Ae!Explored(r) = Append(w, r)
  BY WithinOfTheMap DEF Ae!Without, Ae!Explored
<1> HIDE DEF w
<1>5. \A i, j \in 1 .. Len(Append(w, r)) : Append(w, r)[i] = Append(w, r)[j] => i = j
  BY <1>2, <1>3, DistinctWithOneMore
<1> QED
  BY <1>2, <1>4, <1>5

\* The map opens on what an earlier visit asked.
LEMMA MapTypedInitially ==
    ASSUME Ae!ExplorerAssumption, Ae!Init
    PROVE  ExplorerTypes
<1>1. v2 = AeRemembered /\ v3 = None /\ v4 = None /\ v6 = {} /\ v11 = [ids |-> <<>>, at |-> 1] /\ v15 = 0
  BY DEF Ae!Init
<1>2. v7 \in BOOLEAN /\ v8 \in BOOLEAN
  BY Zenon DEF Ae!Init
<1>3. AeMaxActs \in Nat /\ \A i, j \in 1 .. Len(AeRemembered) : AeRemembered[i] = AeRemembered[j] => i = j
  BY DEF Ae!ExplorerAssumption
<1> QED
  BY <1>1, <1>2, <1>3, NoMatch DEF ExplorerTypes

\* A step of the reader is counted.
LEMMA MapStepsCounted ==
    ASSUME Ae!ExplorerAssumption, ExplorerTypes, Ae!Acts
    PROVE  v15' \in 0 .. AeMaxActs
  BY DEF Ae!ExplorerAssumption, ExplorerTypes, Ae!Acts

\* A step that renders the map anew.
LEMMA RendersTyped ==
    ASSUME Ae!ExplorerAssumption, Ae!IInv, ExplorerTypes, NEW q, NEW m \in MatchSet, NEW s \in AeElements \cup {None},
           v2' \in Seq(AeRequests), \A i, j \in 1 .. Len(v2') : v2'[i] = v2'[j] => i = j,
           v4' \in AeElements \cup {None}, UNCHANGED <<v6, v7, v8>>, Ae!Acts \/ v15' = v15,
           Ae!Renders(v2', v1', v5, q, m, s)
    PROVE  ExplorerTypes'
<1>1. v11' \in MatchSet /\ v3' \in AeElements \cup {None}
  BY RenderedIsTyped
<1>2. v15' \in 0 .. AeMaxActs
  BY MapStepsCounted DEF ExplorerTypes
<1>3. Ae!Kinds' = Ae!Kinds /\ MatchSet' = MatchSet
  BY DEF Ae!Kinds, MatchSet
<1> QED
  BY <1>1, <1>2, <1>3 DEF ExplorerTypes

\* A step that leaves the list of requests alone.
LEMMA FiltersTyped ==
    ASSUME Ae!ExplorerAssumption, ExplorerTypes, v2' = v2, v3' \in AeElements \cup {None}, v4' \in AeElements \cup {None},
           v6' \subseteq Ae!Kinds, v7' \in BOOLEAN, v8' \in BOOLEAN, v11' \in MatchSet, Ae!Acts \/ v15' = v15
    PROVE  ExplorerTypes'
<1>1. v15' \in 0 .. AeMaxActs
  BY MapStepsCounted DEF ExplorerTypes
<1>2. Ae!Kinds' = Ae!Kinds /\ MatchSet' = MatchSet
  BY DEF Ae!Kinds, MatchSet
<1> QED
  BY <1>1, <1>2 DEF ExplorerTypes

\* The match the arrows go to is one of those on the map.
LEMMA NextMatch ==
    ASSUME Ae!ExplorerAssumption, Ae!IInv, ExplorerTypes, NEW by \in {-1, 1}, Ae!Step(by)
    PROVE  v11' \in MatchSet /\ v3' \in AeElements
<1> DEFINE M == Ae!Matches
           n == Len(M)
           next == ((Ae!At - 1 + by + n) % n) + 1
<1>1. v11' = [ids |-> M, at |-> next] /\ v3' = M[next] /\ n > 1
  BY DEF Ae!Step
<1>2. v11.ids \in Seq(AeElements) /\ v11.at \in Nat \ {0}
  BY DEF ExplorerTypes, MatchSet
<1>3. M \in Seq(AeElements) /\ n \in Nat
  <2>1. Within(v11.ids, Ae!Nodes(v2, v1)) \in Seq(AeElements)
    BY <1>2, WithinTheList
  <2> QED
    BY <2>1, WithinOfTheMap DEF Ae!Matches
<1>4. Ae!At \in Nat
  BY <1>2, <1>3 DEF Ae!At
<1> DEFINE k == Ae!At - 1 + by + n
<1>5. k \in Int
  BY <1>3, <1>4
<1> HIDE DEF M, k
<1>6. n \in Nat /\ n > 1 /\ (k % n) \in 0 .. n - 1
  <2>1. n \in Nat /\ n > 0
    BY <1>1, <1>3
  <2> HIDE DEF n
  <2> QED
    BY <1>1, <1>5, <2>1
<1>7. next = (k % n) + 1
  BY DEF k
<1> HIDE DEF next, n
<1>8. next \in 1 .. n /\ next \in Nat \ {0}
  BY <1>6, <1>7
<1>9. M[next] \in AeElements
  BY <1>3, <1>8, ElementsOf DEF n
<1> QED
  BY <1>1, <1>3, <1>8, <1>9 DEF MatchSet

\* Every step of the map keeps them.
LEMMA MapTyped ==
    ASSUME Ae!ExplorerAssumption, Ae!IInv, ExplorerTypes, Ae!Next
    PROVE  ExplorerTypes'
<1>t. /\ v2 \in Seq(AeRequests) /\ v9 \in Ae!Terms \cup {None}
      /\ \A i, j \in 1 .. Len(v2) : v2[i] = v2[j] => i = j
      /\ v3 \in AeElements \cup {None} /\ v4 \in AeElements \cup {None}
      /\ v6 \subseteq Ae!Kinds /\ v7 \in BOOLEAN /\ v8 \in BOOLEAN /\ v11 \in MatchSet
      /\ Ae!Nodes(v2, v1) \subseteq AeElements
  BY NodesAreElements DEF Ae!IInv, ExplorerTypes
<1>1. ASSUME NEW r \in AeRequests, Ae!Explore(r) \/ Ae!Drop(r)
      PROVE  ExplorerTypes'
  <2>1. /\ v2' \in {Ae!Explored(r), Ae!Without(r)} /\ UNCHANGED <<v4, v6, v7, v8>> /\ Ae!Acts
        /\ Ae!Renders(v2', v1', v5, v10, v11, v3)
    BY <1>1 DEF Ae!Explore, Ae!Drop, Ae!filters
  <2>2. v2' \in Seq(AeRequests) /\ \A i, j \in 1 .. Len(v2') : v2'[i] = v2'[j] => i = j
    BY <2>1, TheListOfRequests, RequestsAreThereOnce
  <2> QED
    BY <1>t, <2>1, <2>2, RendersTyped
<1>2. ASSUME NEW r \in AeRequests \cup {Context}, Ae!Answers(r)
      PROVE  ExplorerTypes'
  <2>1. UNCHANGED <<v2, v4, v6, v7, v8, v15>> /\ Ae!Renders(v2', v1', v5, v10, v11, v3)
    BY <1>2 DEF Ae!Answers, Ae!filters
  <2> QED
    BY <1>t, <2>1, RendersTyped
<1>3. CASE Ae!ResetMap
  <2>1. /\ v2' = <<>> /\ v4' = None /\ UNCHANGED <<v6, v7, v8>> /\ Ae!Acts
        /\ Ae!Renders(v2', v1', v5, v10, v11, None)
    BY <1>3 DEF Ae!ResetMap, Ae!filters
  <2>2. v2' \in Seq(AeRequests) /\ \A i, j \in 1 .. Len(v2') : v2'[i] = v2'[j] => i = j
    BY <2>1
  <2> QED
    BY <1>t, <2>1, <2>2, RendersTyped
<1>4. CASE Ae!Submit
  <2> DEFINE found == Ae!ByTerm(v9, Ae!Nodes(v2, v1))
             r == CHOOSE q \in AeRequests : AeOp[q] = "search" /\ AeOn[q] = v9
  <2>1. /\ v9 # None /\ Ae!Acts /\ UNCHANGED <<v4, v6, v7, v8>>
        /\ IF found # <<>>
           THEN v11' = [ids |-> found, at |-> 1] /\ v3' = Head(found) /\ v2' = v2
           ELSE /\ v2' = Ae!Explored(r) /\ v1' = Ae!AnswerOf(r)
                /\ Ae!Renders(v2', v1', v5, v9, [ids |-> <<>>, at |-> 1], v3)
    BY <1>4 DEF Ae!Submit, Ae!filters, Ae!asked
  <2>2. found \in Seq(AeElements) /\ (found # <<>> => Head(found) \in AeElements)
    BY <1>t, MatchesAreElements
  <2>3. r \in AeRequests
    BY <1>t, <2>1 DEF Ae!Terms
  <2> HIDE DEF found, r
  <2>4. CASE found # <<>>
    <3>1. v11' \in MatchSet /\ v3' \in AeElements \cup {None}
      BY <2>1, <2>2, <2>4 DEF MatchSet
    <3> QED
      BY <1>t, <2>1, <2>4, <3>1, FiltersTyped
  <2>5. CASE found = <<>>
    <3>1. v2' \in Seq(AeRequests) /\ \A i, j \in 1 .. Len(v2') : v2'[i] = v2'[j] => i = j
      BY <2>1, <2>3, <2>5, TheListOfRequests, RequestsAreThereOnce
    <3>2. Ae!Renders(v2', v1', v5, v9, [ids |-> <<>>, at |-> 1], v3)
      BY <2>1, <2>5
    <3> QED
      BY <1>t, <2>1, <3>1, <3>2, NoMatch, RendersTyped
  <2> QED
    BY <2>4, <2>5
<1>5. ASSUME NEW by \in {-1, 1}, Ae!Step(by)
      PROVE  ExplorerTypes'
  <2>1. UNCHANGED <<v2, v4, v6, v7, v8>> /\ Ae!Acts
    BY <1>5 DEF Ae!Step, Ae!asked, Ae!filters
  <2>2. v11' \in MatchSet /\ v3' \in AeElements
    BY <1>5, NextMatch
  <2> QED
    BY <1>t, <2>1, <2>2, FiltersTyped
<1>6. CASE Ae!TakeOffer
  <2>1. UNCHANGED <<v2, v3, v4, v11>> /\ Ae!Acts
    BY <1>6 DEF Ae!TakeOffer, Ae!asked, Ae!search
  <2>2. (v6' = {} /\ v7' = FALSE /\ v8' = FALSE) \/ UNCHANGED <<v6, v7, v8>>
    BY <1>6 DEF Ae!TakeOffer, Ae!filters
  <2>3. v6' \subseteq Ae!Kinds /\ v7' \in BOOLEAN /\ v8' \in BOOLEAN
    <3>1. v6' \subseteq Ae!Kinds
      BY <1>t, <2>2
    <3>2. v7' \in BOOLEAN /\ v8' \in BOOLEAN
      BY <1>t, <2>2, Zenon
    <3> QED
      BY <3>1, <3>2
  <2> QED
    BY <1>t, <2>1, <2>3, FiltersTyped
<1>7. CASE Ae!HideTests \/ Ae!PublicOnly
  <2>1. UNCHANGED <<v2, v3, v4, v6, v11>> /\ Ae!Acts
    BY <1>7 DEF Ae!HideTests, Ae!PublicOnly, Ae!asked, Ae!search
  <2>2. v7' = ~v7 \/ v7' = v7
    BY <1>7 DEF Ae!HideTests, Ae!PublicOnly
  <2>3. v8' = ~v8 \/ v8' = v8
    BY <1>7 DEF Ae!HideTests, Ae!PublicOnly
  <2>4. v7' \in BOOLEAN /\ v8' \in BOOLEAN
    BY <1>t, <2>2, <2>3
  <2> QED
    BY <1>t, <2>1, <2>4, FiltersTyped
<1>8. CASE \E k \in Ae!Kinds : Ae!ToggleKind(k)
  <2>1. PICK k \in Ae!Kinds : Ae!ToggleKind(k)
    BY <1>8
  <2>2. UNCHANGED <<v2, v3, v4, v7, v8, v11>> /\ Ae!Acts
    BY <2>1 DEF Ae!ToggleKind, Ae!asked, Ae!search
  <2>3. v6' = v6 \ {k} \/ v6' = v6 \cup {k}
    BY <2>1 DEF Ae!ToggleKind
  <2>4. v6' \subseteq Ae!Kinds
    BY <1>t, <2>3
  <2> QED
    BY <1>t, <2>2, <2>4, FiltersTyped
<1>9. CASE \/ \E n \in AeElements : Ae!Select(n)
           \/ \E l \in Ae!ToSet(Ae!Lenses) : Ae!PickLens(l)
           \/ \E t \in Ae!Terms \cup {None} : Ae!Type(t)
           \/ Ae!Deselect \/ Ae!SetPathStart
  <2>1. UNCHANGED <<v2, v6, v7, v8>> /\ Ae!Acts
    BY <1>9 DEF Ae!Select, Ae!PickLens, Ae!Type, Ae!Deselect, Ae!SetPathStart, Ae!asked, Ae!filters
  <2>2. v11' \in {v11, [ids |-> <<>>, at |-> 1]}
    BY <1>9 DEF Ae!Select, Ae!PickLens, Ae!Type, Ae!Deselect, Ae!SetPathStart, Ae!search
  <2>3. v3' \in AeElements \cup {None} /\ v4' \in AeElements \cup {None}
    BY <1>t, <1>9 DEF Ae!Select, Ae!PickLens, Ae!Type, Ae!Deselect, Ae!SetPathStart
  <2> QED
    BY <1>t, <2>1, <2>2, <2>3, NoMatch, FiltersTyped
<1>10. CASE \E r \in AeRequests \cup {Context} : Ae!DoesNotAnswer(r) \/ Ae!TryAgain(r)
  <2>1. UNCHANGED <<v2, v3, v4, v6, v7, v8, v11>> /\ (Ae!Acts \/ v15' = v15)
    BY <1>10 DEF Ae!DoesNotAnswer, Ae!TryAgain, Ae!filters, Ae!search
  <2> QED
    BY <1>t, <2>1, FiltersTyped
<1> QED
  BY <1>1, <1>2, <1>3, <1>4, <1>5, <1>6, <1>7, <1>8, <1>9, <1>10 DEF Ae!Next

(***************************************************************************)
(* The types of the camera                                                 *)
(***************************************************************************)
\* Where the cards stand.
PlaceTypes == v2 \in AcGraphs \cup {None} /\ v3 \in AcGraphs \cup {None} /\ v4 \in BOOLEAN
\* What is selected and what frames the view.
FrameTypes ==
    /\ v5 \in Ac!Nodes \cup {None} /\ v8 \in Ac!Nodes \cup {None} /\ v6 \in {"fit", "reader", "card"}
    /\ v7 \in BOOLEAN /\ v9 \in BOOLEAN
\* The screen it fills.
ScreenTypes == v10 \in BOOLEAN /\ v11 \in BOOLEAN /\ v12 \in BOOLEAN
\* The hand on it.
HandTypes == v13 \subseteq AcPointers /\ v14 \in AcPointers \cup {None} /\ v15 \in BOOLEAN
\* All of the camera, beside what its invariant keeps.
CameraTypes == PlaceTypes /\ FrameTypes /\ ScreenTypes /\ HandTypes /\ v18 \in 0 .. AcMaxActs

\* Whoever reads the state of the camera reads what the code keeps.
LEMMA CameraIsTyped == ASSUME Ac!IInv, CameraTypes PROVE Ac!TypeOK
<1>1. v17 \in BOOLEAN /\ v1 \in AcGraphs
  BY DEF Ac!IInv, Ac!ThePressIsRemembered
<1>2. \A b \in {v4, v7, v9, v10, v11, v12, v15, v17} : b \in BOOLEAN
  BY <1>1 DEF CameraTypes, PlaceTypes, FrameTypes, ScreenTypes, HandTypes
<1> QED
  BY <1>1, <1>2 DEF Ac!TypeOK, CameraTypes, PlaceTypes, FrameTypes, HandTypes

\* The map opens with its cards placed, nothing selected and no pointer down.
LEMMA CameraTypedInitially == ASSUME Ac!CameraAssumption, Ac!Init PROVE CameraTypes
<1>1. v4 \in BOOLEAN
  BY DEF Ac!Init
<1>2. v18 \in 0 .. AcMaxActs
  BY DEF Ac!Init, Ac!CameraAssumption
<1> QED
  BY <1>1, <1>2 DEF Ac!Init, CameraTypes, PlaceTypes, FrameTypes, ScreenTypes, HandTypes

\* The reader does no more than they are let.
LEMMA ActsAreBounded ==
    ASSUME Ac!CameraAssumption, v18 \in 0 .. AcMaxActs, Ac!Acts \/ v18' = v18
    PROVE  v18' \in 0 .. AcMaxActs
  BY DEF Ac!Acts, Ac!CameraAssumption

\* A card of the graph drawn is one of the cards there are.
LEMMA CardsAreNodes == ASSUME Ac!CameraAssumption, NEW g \in AcGraphs PROVE AcCards[g] \subseteq Ac!Nodes
  BY DEF Ac!CameraAssumption

\* What changes on the map moves the camera, if at all, to a fit or to a card.
LEMMA FramesAreTyped ==
    ASSUME NEW g, NEW at, NEW s, NEW c, NEW renewed, Ac!Frames(g, at, s, c, renewed), FrameTypes
    PROVE  v7' \in BOOLEAN /\ v6' \in {"fit", "reader", "card"}
<1>1. v7' \in BOOLEAN
  BY DEF Ac!Frames, FrameTypes
<1>2. v6' \in {"fit", "reader", "card"}
  BY DEF Ac!Frames, FrameTypes
<1> QED
  BY <1>1, <1>2

\* What a step leaves alone keeps its type.
LEMMA PlaceKeepsItsType == ASSUME PlaceTypes, UNCHANGED Ac!place PROVE PlaceTypes'
  BY DEF PlaceTypes, Ac!place
\* So does the screen.
LEMMA ScreenKeepsItsType == ASSUME ScreenTypes, UNCHANGED Ac!screen PROVE ScreenTypes'
  BY DEF ScreenTypes, Ac!screen
\* And the hand.
LEMMA HandKeepsItsType == ASSUME HandTypes, UNCHANGED <<v13, v14, v15>> PROVE HandTypes'
  BY DEF HandTypes
\* A hand that is still has its pointers where they were.
LEMMA TheHandIsStill == ASSUME UNCHANGED Ac!hand PROVE UNCHANGED <<v13, v14, v15>>
  BY DEF Ac!hand

\* Every step keeps them.
LEMMA CameraStaysTyped ==
    ASSUME Ac!CameraAssumption, Ac!IInv, CameraTypes, Ac!Next \/ UNCHANGED Ac!vars
    PROVE  CameraTypes'
<1>0. v1 \in AcGraphs /\ PlaceTypes /\ FrameTypes /\ ScreenTypes /\ HandTypes /\ v18 \in 0 .. AcMaxActs
  BY DEF CameraTypes, Ac!IInv
<1>a. SUFFICES PlaceTypes' /\ FrameTypes' /\ ScreenTypes' /\ HandTypes' /\ (Ac!Acts \/ v18' = v18)
  BY <1>0, ActsAreBounded DEF CameraTypes
<1>1. ASSUME NEW g \in AcGraphs, Ac!Redraw(g) PROVE PlaceTypes' /\ FrameTypes' /\ ScreenTypes' /\ HandTypes' /\ (Ac!Acts \/ v18' = v18)
  <2>1. UNCHANGED <<v2, v3, v8, v9>> /\ UNCHANGED Ac!screen /\ UNCHANGED Ac!hand /\ Ac!Acts
    BY <1>1 DEF Ac!Redraw
  <2>2. v4' \in BOOLEAN
    BY <1>1 DEF Ac!Redraw
  <2>3. v5' \in Ac!Nodes \cup {None}
    BY <1>1, CardsAreNodes DEF Ac!Redraw
  <2>4. Ac!Frames(g, Ac!Placement(g, v2, v3), v5', v8, Ac!Placement(g, v2, v3) # Ac!Placement(v1, v2, v3))
    BY <1>1 DEF Ac!Redraw
  <2>5. v7' \in BOOLEAN /\ v6' \in {"fit", "reader", "card"}
    BY <1>0, <2>4, FramesAreTyped
  <2> QED
    BY <1>0, <2>1, <2>2, <2>3, <2>5, ScreenKeepsItsType, HandKeepsItsType, TheHandIsStill DEF PlaceTypes, FrameTypes
<1>2. ASSUME NEW g \in AcGraphs, Ac!Placed(g) \/ Ac!Refused(g)
      PROVE PlaceTypes' /\ FrameTypes' /\ ScreenTypes' /\ HandTypes' /\ (Ac!Acts \/ v18' = v18)
  <2>1. UNCHANGED <<v5, v8, v9>> /\ UNCHANGED Ac!screen /\ UNCHANGED Ac!hand /\ v18' = v18
    BY <1>2 DEF Ac!Placed, Ac!Refused
  <2>2. v2' \in AcGraphs \cup {None} /\ v3' \in AcGraphs \cup {None} /\ v4' = FALSE
    BY <1>0, <1>2 DEF Ac!Placed, Ac!Refused, PlaceTypes
  <2>3. PlaceTypes'
    BY <2>2 DEF PlaceTypes
  <2>4. v7' \in BOOLEAN /\ v6' \in {"fit", "reader", "card"}
    <3>1. CASE Ac!Placed(g)
      <4>1. Ac!Frames(v1, Ac!Placement(v1, g, v3), v5, v8, TRUE)
        BY <3>1 DEF Ac!Placed
      <4> QED
        BY <1>0, <4>1, FramesAreTyped
    <3>2. CASE Ac!Refused(g)
      <4>1. Ac!Frames(v1, v1, v5, v8, Ac!Placement(v1, v2, v3) # v1)
        BY <3>2 DEF Ac!Refused
      <4> QED
        BY <1>0, <4>1, FramesAreTyped
    <3> QED
      BY <1>2, <3>1, <3>2
  <2> QED
    BY <1>0, <2>1, <2>3, <2>4, ScreenKeepsItsType, HandKeepsItsType, TheHandIsStill DEF FrameTypes
<1>3. ASSUME NEW n, Ac!Select(n) PROVE PlaceTypes' /\ FrameTypes' /\ ScreenTypes' /\ HandTypes' /\ (Ac!Acts \/ v18' = v18)
  <2>1. UNCHANGED <<v8, v9>> /\ UNCHANGED Ac!place /\ UNCHANGED Ac!screen /\ UNCHANGED Ac!hand /\ Ac!Acts
    BY <1>3 DEF Ac!Select
  <2>2. v5' \in Ac!Nodes \cup {None}
    BY <1>0, <1>3, CardsAreNodes DEF Ac!Select
  <2>3. Ac!Frames(v1, Ac!Placement(v1, v2, v3), n, v8, FALSE)
    BY <1>3 DEF Ac!Select
  <2>4. v7' \in BOOLEAN /\ v6' \in {"fit", "reader", "card"}
    BY <1>0, <2>3, FramesAreTyped
  <2> QED
    BY <1>0, <2>1, <2>2, <2>4, PlaceKeepsItsType, ScreenKeepsItsType, HandKeepsItsType, TheHandIsStill DEF FrameTypes
<1>4. ASSUME NEW n, Ac!Click(n) PROVE PlaceTypes' /\ FrameTypes' /\ ScreenTypes' /\ HandTypes' /\ (Ac!Acts \/ v18' = v18)
  <2>1. UNCHANGED Ac!place /\ UNCHANGED Ac!screen /\ UNCHANGED <<v9, v13, v14, v15>> /\ v18' = v18
    BY <1>4 DEF Ac!Click
  <2>2. FrameTypes'
    <3>1. CASE v17
      BY <1>0, <1>4, <2>1, <3>1 DEF Ac!Click, FrameTypes
    <3>2. CASE ~v17
      <4>1. v5' = n /\ v8' = (IF n # None THEN n ELSE v8) /\ n \in AcCards[v1] \cup {None}
        BY <1>4, <3>2 DEF Ac!Click
      <4>2. v5' \in Ac!Nodes \cup {None} /\ v8' \in Ac!Nodes \cup {None}
        BY <1>0, <4>1, CardsAreNodes DEF FrameTypes
      <4>3. Ac!Frames(v1, Ac!Placement(v1, v2, v3), n, v8', FALSE)
        BY <1>4, <3>2 DEF Ac!Click
      <4>4. v7' \in BOOLEAN /\ v6' \in {"fit", "reader", "card"}
        BY <1>0, <4>3, FramesAreTyped
      <4> QED
        BY <1>0, <2>1, <4>2, <4>4 DEF FrameTypes
    <3> QED
      BY <3>1, <3>2
  <2> QED
    BY <1>0, <2>1, <2>2, PlaceKeepsItsType, ScreenKeepsItsType, HandKeepsItsType
<1>5. ASSUME NEW p \in AcPointers, Ac!PressCard(p)
      PROVE PlaceTypes' /\ FrameTypes' /\ ScreenTypes' /\ HandTypes' /\ (Ac!Acts \/ v18' = v18)
  <2>1. UNCHANGED Ac!place /\ UNCHANGED Ac!screen /\ UNCHANGED <<v5, v6, v7, v8, v9, v13, v14, v15>> /\ Ac!Acts
    BY <1>5 DEF Ac!PressCard
  <2>2. FrameTypes'
    BY <1>0, <2>1 DEF FrameTypes
  <2> QED
    BY <1>0, <2>1, <2>2, PlaceKeepsItsType, ScreenKeepsItsType, HandKeepsItsType
<1>6. ASSUME NEW p \in AcPointers, Ac!PressGround(p)
      PROVE PlaceTypes' /\ FrameTypes' /\ ScreenTypes' /\ HandTypes' /\ (Ac!Acts \/ v18' = v18)
  <2>1. /\ UNCHANGED Ac!place /\ UNCHANGED Ac!screen /\ UNCHANGED <<v5, v6, v9>> /\ Ac!Acts
        /\ v8' = None /\ v7' = TRUE /\ v13' = v13 \cup {p} /\ v14' \in {None, p} /\ v15' \in {TRUE, v15}
    BY <1>6 DEF Ac!PressGround
  <2>2. FrameTypes'
    BY <1>0, <2>1 DEF FrameTypes
  <2>3. v15' \in BOOLEAN
    BY <1>0, <2>1 DEF HandTypes
  <2>4. HandTypes'
    BY <1>0, <2>1, <2>3 DEF HandTypes
  <2> QED
    BY <1>0, <2>1, <2>2, <2>4, PlaceKeepsItsType, ScreenKeepsItsType
<1>7. ASSUME NEW p \in AcPointers, Ac!Move(p)
      PROVE PlaceTypes' /\ FrameTypes' /\ ScreenTypes' /\ HandTypes' /\ (Ac!Acts \/ v18' = v18)
  <2>1. UNCHANGED Ac!place /\ UNCHANGED Ac!screen /\ UNCHANGED <<v5, v8, v13, v14, v15>> /\ v18' = v18
    BY <1>7 DEF Ac!Move
  <2>2. v6' \in {"card", "reader"}
    BY <1>7 DEF Ac!Move
  <2>3. v7' \in {TRUE, v7}
    BY <1>7 DEF Ac!Move
  <2>4. v9' \in BOOLEAN
    <3>1. v9' \in BOOLEAN \/ v9' = v9
      BY <1>7 DEF Ac!Move
    <3> QED
      BY <1>0, <3>1 DEF FrameTypes
  <2>5. v7' \in BOOLEAN
    BY <1>0, <2>3 DEF FrameTypes
  <2>6. FrameTypes'
    BY <1>0, <2>1, <2>2, <2>4, <2>5 DEF FrameTypes
  <2> QED
    BY <1>0, <2>1, <2>6, PlaceKeepsItsType, ScreenKeepsItsType, HandKeepsItsType
<1>8. ASSUME NEW p \in AcPointers, Ac!Release(p)
      PROVE PlaceTypes' /\ FrameTypes' /\ ScreenTypes' /\ HandTypes' /\ (Ac!Acts \/ v18' = v18)
  <2>1. /\ UNCHANGED Ac!place /\ UNCHANGED Ac!screen /\ UNCHANGED <<v5, v6, v7, v8, v9>> /\ v18' = v18
        /\ v13' \subseteq v13 /\ v14' \in {None, v14}
    BY <1>8 DEF Ac!Release
  <2>2. v15' \in BOOLEAN
    BY <1>8 DEF Ac!Release
  <2>3. FrameTypes' /\ HandTypes'
    BY <1>0, <2>1, <2>2 DEF FrameTypes, HandTypes
  <2> QED
    BY <1>0, <2>1, <2>3, PlaceKeepsItsType, ScreenKeepsItsType
<1>9. CASE Ac!Zoom \/ Ac!Fit \/ Ac!CentreOn
  <2>1. UNCHANGED Ac!place /\ UNCHANGED Ac!screen /\ UNCHANGED Ac!hand /\ UNCHANGED <<v5, v8>> /\ Ac!Acts
    BY <1>9 DEF Ac!Zoom, Ac!Fit, Ac!CentreOn
  <2>2. v6' \in {"fit", "reader", "card"} /\ v7' \in {TRUE, v7}
    BY <1>9 DEF Ac!Zoom, Ac!Fit, Ac!CentreOn
  <2>3. v9' \in BOOLEAN
    BY <1>0, <1>9 DEF Ac!Zoom, Ac!Fit, Ac!CentreOn, FrameTypes
  <2>4. v7' \in BOOLEAN
    BY <1>0, <2>2 DEF FrameTypes
  <2>5. FrameTypes'
    BY <1>0, <2>1, <2>2, <2>3, <2>4 DEF FrameTypes
  <2> QED
    BY <1>0, <2>1, <2>5, PlaceKeepsItsType, ScreenKeepsItsType, HandKeepsItsType, TheHandIsStill
<1>10. CASE Ac!ToggleFullscreen \/ Ac!BrowserFills \/ Ac!Escape \/ Ac!FramesFullscreen
  <2>1. UNCHANGED Ac!place /\ UNCHANGED Ac!hand /\ UNCHANGED <<v5, v7, v8>> /\ (Ac!Acts \/ v18' = v18)
    BY <1>10 DEF Ac!ToggleFullscreen, Ac!BrowserFills, Ac!Escape, Ac!FramesFullscreen
  <2>2. v6' \in {"fit", v6} /\ v9' \in {FALSE, v9}
    BY <1>10 DEF Ac!ToggleFullscreen, Ac!BrowserFills, Ac!Escape, Ac!FramesFullscreen
  <2>3. v9' \in BOOLEAN
    BY <1>0, <2>2 DEF FrameTypes
  <2>4. FrameTypes'
    BY <1>0, <2>1, <2>2, <2>3 DEF FrameTypes
  <2>5. v10' \in BOOLEAN
    BY <1>0, <1>10 DEF Ac!ToggleFullscreen, Ac!BrowserFills, Ac!Escape, Ac!FramesFullscreen, ScreenTypes
  <2>6. v11' \in BOOLEAN
    BY <1>0, <1>10 DEF Ac!ToggleFullscreen, Ac!BrowserFills, Ac!Escape, Ac!FramesFullscreen, ScreenTypes
  <2>7. v12' \in BOOLEAN
    BY <1>0, <1>10 DEF Ac!ToggleFullscreen, Ac!BrowserFills, Ac!Escape, Ac!FramesFullscreen, ScreenTypes
  <2> QED
    BY <1>0, <2>1, <2>4, <2>5, <2>6, <2>7, PlaceKeepsItsType, HandKeepsItsType, TheHandIsStill DEF ScreenTypes
<1>11. CASE Ac!NoClick \/ UNCHANGED Ac!vars
  <2>1. UNCHANGED Ac!place /\ UNCHANGED Ac!screen /\ UNCHANGED <<v5, v6, v7, v8, v9, v13, v14, v15>> /\ v18' = v18
    BY <1>11 DEF Ac!NoClick, Ac!vars, Ac!hand
  <2>2. FrameTypes'
    BY <1>0, <2>1 DEF FrameTypes
  <2> QED
    BY <1>0, <2>1, <2>2, PlaceKeepsItsType, ScreenKeepsItsType, HandKeepsItsType
<1> QED
  BY <1>1, <1>2, <1>3, <1>4, <1>5, <1>6, <1>7, <1>8, <1>9, <1>10, <1>11 DEF Ac!Next

(***************************************************************************)
(* The types of the pages together                                         *)
(***************************************************************************)
\* What is of its type on each page, beside what its invariant keeps so.
ReviewTypes ==
    /\ page = "Rf" => FormTypes
    /\ page = "Cv" => ThreadsTypes
    /\ page = "Rr" => PutThenTaken
    /\ page = "Rd" => DeltaTypes
    /\ page = "Fp" => PanelTypes
    /\ page = "Ae" => ExplorerTypes
    /\ page = "Ac" => CameraTypes

\* A page of a review opens with every part of its type.
LEMMA ReviewTypedInitially ==
    ASSUME ReviewInit
    PROVE  ReviewTypes
<1>1. /\ page = "Rf" => Rf!Init
      /\ page = "Cv" => Cv!Init
      /\ page = "Rr" => Rr!Init
      /\ page = "Rd" => Rd!Init
      /\ page = "Fp" => Fp!Init
      /\ page = "Ae" => Ae!Init
      /\ page = "Ac" => Ac!Init
  BY DEF ReviewInit
<1>2. /\ page = "Rf" => FormTypes
      /\ page = "Cv" => ThreadsTypes
      /\ page = "Rr" => PutThenTaken
  BY <1>1, ReviewAssumption, FormTypedInitially, ThreadsTypedInitially, PutInitially DEF ReviewAssumption
<1>3. /\ page = "Rd" => DeltaTypes
      /\ page = "Fp" => PanelTypes
      /\ page = "Ae" => ExplorerTypes
      /\ page = "Ac" => CameraTypes
  BY <1>1, ReviewAssumption, DeltaTypedInitially, PanelTypedInitially, MapTypedInitially, CameraTypedInitially
  DEF ReviewAssumption
<1> QED
  BY <1>2, <1>3 DEF ReviewTypes

\* When nothing changes, nothing changes its type.
LEMMA ReviewTypesStand ==
    ASSUME UNCHANGED vars
    PROVE  /\ FormTypes => FormTypes'
           /\ ThreadsTypes => ThreadsTypes'
           /\ PutThenTaken => PutThenTaken'
           /\ DeltaTypes => DeltaTypes'
           /\ PanelTypes => PanelTypes'
           /\ ExplorerTypes => ExplorerTypes'
<1>1. FormTypes => FormTypes'
  BY DEF vars, FormTypes
<1>2. ThreadsTypes => ThreadsTypes'
  BY DEF vars, ThreadsTypes, InOrder
<1>3. PutThenTaken => PutThenTaken'
  BY DEF vars, PutThenTaken, Rr!Last
<1>4. DeltaTypes => DeltaTypes'
  BY DEF vars, DeltaTypes, Rd!TypeOK, Rd!Range, Rd!States
<1>5. PanelTypes => PanelTypes'
  BY DEF vars, PanelTypes, Fp!Tabs
<1>6. ExplorerTypes => ExplorerTypes'
  BY DEF vars, ExplorerTypes, MatchSet, Ae!Kinds
<1> QED
  BY <1>1, <1>2, <1>3, <1>4, <1>5, <1>6

\* Every step of a page of a review leaves every part with its type.
LEMMA ReviewStaysTyped ==
    ASSUME ReviewInvariant, ReviewTypes, ReviewNext \/ UNCHANGED vars
    PROVE  ReviewTypes'
<1>1. /\ page' = page
      /\ page = "Rf" => Rf!Next \/ UNCHANGED vars
      /\ page = "Cv" => Cv!Next \/ UNCHANGED vars
      /\ page = "Rr" => Rr!Next \/ UNCHANGED vars
      /\ page = "Rd" => Rd!Next \/ UNCHANGED vars
      /\ page = "Fp" => Fp!Next \/ UNCHANGED vars
      /\ page = "Ae" => Ae!Next \/ UNCHANGED vars
      /\ page = "Ac" => Ac!Next \/ UNCHANGED Ac!vars
  BY ReviewSteps, ReviewStutters
<1>2. page = "Rf" => FormTypes'
  BY <1>1, ReviewAssumption, FormStaysTyped, ReviewTypesStand DEF ReviewAssumption, ReviewInvariant, ReviewTypes
<1>3. page = "Cv" => ThreadsTypes'
  BY <1>1, ReviewAssumption, ThreadsStayTyped, ReviewTypesStand DEF ReviewAssumption, ReviewInvariant, ReviewTypes
<1>4. page = "Rr" => PutThenTaken'
  BY <1>1, ReviewAssumption, PutBeforeTaken, ReviewTypesStand DEF ReviewAssumption, ReviewInvariant, ReviewTypes
<1>5. page = "Rd" => DeltaTypes'
  BY <1>1, ReviewAssumption, DeltaTyped, ReviewTypesStand DEF ReviewAssumption, ReviewTypes
<1>6. page = "Fp" => PanelTypes'
  BY <1>1, ReviewAssumption, PanelTyped, ReviewTypesStand DEF ReviewAssumption, ReviewTypes
<1>7. page = "Ae" => ExplorerTypes'
  BY <1>1, ReviewAssumption, MapTyped, ReviewTypesStand DEF ReviewAssumption, ReviewInvariant, ReviewTypes
<1>8. page = "Ac" => CameraTypes'
  BY <1>1, ReviewAssumption, CameraStaysTyped DEF ReviewAssumption, ReviewInvariant, ReviewTypes
<1> QED
  BY <1>1, <1>2, <1>3, <1>4, <1>5, <1>6, <1>7, <1>8 DEF ReviewTypes

\* With the invariants they are the types of a review's pages.
LEMMA ReviewIsTyped ==
    ASSUME ReviewInvariant, ReviewTypes
    PROVE  ReviewTypeOK
<1>1. page = "Dk" => Dk!TypeOK
  BY DEF ReviewInvariant, Dk!IInv
<1>2. /\ page = "Rf" => Rf!TypeOK
      /\ page = "Cv" => Cv!TypeOK
  BY FormIsTyped, ConversationIsTyped DEF ReviewInvariant, ReviewTypes
<1>3. page = "Rr" => Rr!TypeOK
  BY ReviewAssumption, ReviewOfRecordsIsTyped DEF ReviewAssumption, ReviewInvariant, ReviewTypes
<1>4. /\ page = "Rd" => Rd!TypeOK
      /\ page = "Fp" => Fp!TypeOK
  BY PanelIsTyped DEF ReviewInvariant, ReviewTypes, DeltaTypes
<1>5. /\ page = "Ae" => Ae!TypeOK
      /\ page = "Ac" => Ac!TypeOK
  BY TheMapIsTyped, CameraIsTyped DEF ReviewInvariant, ReviewTypes
<1> QED
  BY <1>1, <1>2, <1>3, <1>4, <1>5 DEF ReviewTypeOK
=============================================================================

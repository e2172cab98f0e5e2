------------------------ MODULE WorkspacePagesProofs ------------------------
(***************************************************************************)
(* Each page of WorkspacePages and of RunPages keeps its invariant, and    *)
(* the invariant says what the page tells: of the workspace, of the choice *)
(* a run is started with, and of the runs.                                 *)
(***************************************************************************)
EXTENDS WorkspacePages, RunPages, ListsProofs, FiniteSetTheorems

(***************************************************************************)
(* Notices                                                                 *)
(***************************************************************************)

\* What pushing a fourth notice leaves of the three there were.
LEMMA LastTwoOfThree ==
    ASSUME NEW A, NEW s \in Seq(A), Len(s) = 3
    PROVE  /\ SubSeq(s, 2, 3) \in Seq(A) /\ Len(SubSeq(s, 2, 3)) = 2
           /\ SubSeq(s, 2, 3)[1] = s[2] /\ SubSeq(s, 2, 3)[2] = s[3]
OBVIOUS

\* A list that is no longer than one of at most k is of at most k.
LEMMA NoLonger ==
    ASSUME NEW m \in Nat, NEW n \in Nat, NEW k \in Nat, n \in 0 .. k, m <= n
    PROVE  m \in 0 .. k
OBVIOUS

\* No notice is there at first.
LEMMA ToastsInitially == ASSUME To!ToastsAssumption, To!Init PROVE To!IInv
  BY DEF To!ToastsAssumption, To!Init, To!IInv, To!TypeOK, To!InTheirOrder, To!TimersAreOfReceipts, To!FailuresOutlastTheirMoment

\* What a notice that arrives finds: the last two, in their places.
LEMMA KeptNotices ==
    ASSUME To!IInv
    PROVE  /\ To!Kept \in Seq(To!Notices) /\ Len(To!Kept) \in 0 .. 2
           /\ \E d \in 0 .. 1 : /\ Len(v1) = Len(To!Kept) + d /\ (d = 1 => Len(To!Kept) = 2)
                                /\ \A i \in 1 .. Len(To!Kept) : To!Kept[i] = v1[i + d]
<1>1. v1 \in Seq(To!Notices) /\ Len(v1) \in Nat /\ Len(v1) \in 0 .. 3
  BY DEF To!IInv, To!TypeOK
<1>2. CASE Len(v1) = 3
  <2>1. To!Kept = SubSeq(v1, 2, 3)
    BY <1>2 DEF To!Kept
  <2>2. Len(v1) = Len(To!Kept) + 1 /\ \A i \in 1 .. Len(To!Kept) : To!Kept[i] = v1[i + 1]
    <3>1. DOMAIN To!Kept = 1 .. 2
      BY <1>1, <1>2, <2>1, LastTwoOfThree
    <3>2. \A i \in 1 .. 2 : i = 1 \/ i = 2
      OBVIOUS
    <3> QED
      BY <1>1, <1>2, <2>1, <3>1, <3>2, LastTwoOfThree
  <2>3. To!Kept \in Seq(To!Notices) /\ Len(To!Kept) = 2
    BY <1>1, <1>2, <2>1, LastTwoOfThree
  <2> QED
    BY <1>2, <2>2, <2>3
<1>3. CASE Len(v1) # 3
  <2>1. Len(v1) \in Nat /\ Len(v1) \in 0 .. 2
    BY <1>1, <1>3
  <2>2. To!Kept = SubSeq(v1, 1, Len(v1))
    <3>1. ~ (Len(v1) > 2)
      BY <2>1
    <3> QED
      BY <3>1 DEF To!Kept
  <2>3. To!Kept = v1
    BY <1>1, <2>2, TheWholeList
  <2>4. Len(v1) = Len(To!Kept) + 0 /\ \A i \in 1 .. Len(To!Kept) : To!Kept[i] = v1[i + 0]
    BY <2>1, <2>3
  <2> QED
    BY <1>1, <2>1, <2>3, <2>4
<1> QED
  BY <1>2, <1>3

\* A new notice goes after the others, and the oldest go when there are too many.
LEMMA PushKeeps ==
    ASSUME To!ToastsAssumption, To!IInv, NEW tone \in To!Tones, To!Push(tone)
    PROVE  To!IInv'
<1> DEFINE new == [id |-> v4 + 1, tone |-> tone]
           k == To!Kept
<1>1. v4 \in Nat /\ v4' = v4 + 1 /\ v4' \in 0 .. ToMaxNotices
  BY DEF To!ToastsAssumption, To!IInv, To!TypeOK, To!Push
<1>2. PICK d \in 0 .. 1 :
          /\ k \in Seq(To!Notices) /\ Len(k) \in 0 .. 2 /\ Len(v1) = Len(k) + d /\ (d = 1 => Len(k) = 2)
          /\ \A i \in 1 .. Len(k) : k[i] = v1[i + d]
  BY KeptNotices
<1>3. new \in To!Notices' /\ k \in Seq(To!Notices')
  <2>1. To!Notices \subseteq To!Notices'
    BY <1>1 DEF To!Notices
  <2>2. k \in Seq(To!Notices')
    BY <1>2, <2>1
  <2> QED
    BY <1>1, <2>2 DEF To!Notices
<1>4. v1' = Append(k, new)
  BY <1>1, <1>2 DEF To!Push
<1> HIDE DEF k
<1>5. /\ v1' \in Seq(To!Notices') /\ Len(v1') = Len(k) + 1 /\ v1'[Len(k) + 1] = new
      /\ \A i \in 1 .. Len(k) : v1'[i] = k[i] /\ k[i] = v1[i + d] /\ i + d \in 1 .. Len(v1)
  BY <1>2, <1>3, <1>4, Appended
<1>6. /\ Len(v1) \in Nat /\ Len(v1') \in Nat /\ Len(k) \in Nat
      /\ DOMAIN v1 = 1 .. Len(v1) /\ DOMAIN v1' = 1 .. Len(v1')
      /\ \A i \in 1 .. Len(v1) : v1[i].id \in 1 .. v4 /\ v1[i].tone \in To!Tones
  <2>1. DOMAIN v1 = 1 .. Len(v1) /\ Len(v1) \in Nat /\ \A i \in DOMAIN v1 : v1[i] \in To!Notices
    BY ElementsOf DEF To!IInv, To!TypeOK
  <2> QED
    BY <1>2, <1>5, <2>1, ElementsOf DEF To!Notices
<1>7. To!TypeOK'
  <2>1. v2' \subseteq v2 \cup {v4'} /\ v3' \subseteq v3 \cup {v4'}
    BY DEF To!Push
  <2>2. (v2 \cup v3) \subseteq 1 .. v4
    BY DEF To!IInv, To!TypeOK
  <2>3. v2' \cup v3' \subseteq 1 .. v4'
    BY <1>1, <2>1, <2>2
  <2> QED
    <3>1. Len(v1') \in 0 .. 3
      BY <1>2, <1>5
    <3> QED
      BY <1>1, <1>5, <2>3, <3>1 DEF To!TypeOK
<1>8. \A i \in 1 .. Len(v1') : i = Len(k) + 1 \/ i \in 1 .. Len(k)
  BY <1>2, <1>5
<1>9. To!InTheirOrder'
  <2> SUFFICES ASSUME NEW i \in 1 .. Len(v1'), NEW j \in 1 .. Len(v1'), i < j
               PROVE  v1'[i].id < v1'[j].id
    BY DEF To!InTheirOrder
  <2>1. i \in 1 .. Len(k)
    BY <1>5, <1>6
  <2>2. v1'[i] = v1[i + d] /\ i + d \in 1 .. Len(v1)
    BY <1>5, <2>1
  <2>3. CASE j = Len(k) + 1
    <3>1. v1[i + d].id \in 1 .. v4 /\ v1'[j].id = v4 + 1
      BY <1>5, <1>6, <2>2, <2>3
    <3> QED
      BY <1>1, <2>2, <3>1
  <2>4. CASE j \in 1 .. Len(k)
    <3>1. v1'[j] = v1[j + d] /\ j + d \in 1 .. Len(v1) /\ i + d < j + d
      BY <1>5, <2>1, <2>4
    <3> QED
      BY <2>2, <3>1 DEF To!IInv, To!InTheirOrder
  <2> QED
    BY <1>8, <2>3, <2>4
<1>10. To!TimersAreOfReceipts'
  BY <1>1 DEF To!IInv, To!TypeOK, To!TimersAreOfReceipts, To!Push, To!Tones
<1>11. To!FailuresOutlastTheirMoment'
  <2>1. \A i \in DOMAIN v1' : (v1'[i].tone = "notice") = (v1'[i].id \in v2')
    <3> TAKE i \in DOMAIN v1'
    <3>1. CASE i = Len(k) + 1
      BY <1>1, <1>5, <3>1 DEF To!Push, To!Tones, To!IInv, To!TypeOK
    <3>2. CASE i \in 1 .. Len(k)
      <4>1. v1'[i] = v1[i + d] /\ i + d \in DOMAIN v1
        BY <1>5, <3>2
      <4>2. v1[i + d].id # v4'
        BY <1>1, <1>6, <4>1
      <4>3. (v1'[i].id \in v2') = (v1'[i].id \in v2)
        BY <1>1, <4>1, <4>2 DEF To!Push
      <4> QED
        BY <4>1, <4>3 DEF To!IInv, To!FailuresOutlastTheirMoment
    <3> QED
      BY <1>5, <1>8, <3>1, <3>2
  <2>2. ASSUME NEW id \in v3'
        PROVE  id \in To!Shown' \/ v4' >= id + 3
    <3>1. CASE id = v4'
      BY <1>1, <1>2, <1>5, <3>1 DEF To!Shown
    <3>2. CASE id \in v3 /\ v4 >= id + 3
      BY <1>1, <3>2 DEF To!IInv, To!TypeOK
    <3>3. ASSUME NEW i \in 1 .. Len(v1), v1[i].id = id
          PROVE  id \in To!Shown' \/ v4' >= id + 3
      <4>1. CASE i > d
        <5>1. i - d \in 1 .. Len(k) /\ (i - d) + d = i
          BY <1>2, <3>3, <4>1
        <5>2. v1'[i - d].id = id /\ i - d \in DOMAIN v1'
          BY <1>2, <1>5, <3>3, <5>1
        <5> QED
          BY <5>2 DEF To!Shown
      <4>2. CASE i <= d
        <5>1. d = 1 /\ i = 1
          BY <1>6, <4>2
        <5>2. Len(k) = 2
          BY <1>2, <5>1
        <5>3. Len(v1) = 3
          BY <1>2, <5>1, <5>2
        <5>4. v1[1].id < v1[2].id /\ v1[2].id < v1[3].id
          BY <5>3 DEF To!IInv, To!InTheirOrder
        <5>5. v1[1].id \in 1 .. v4 /\ v1[2].id \in 1 .. v4 /\ v1[3].id \in 1 .. v4
          BY <1>6, <5>3
        <5> QED
          BY <1>1, <3>3, <5>1, <5>4, <5>5
      <4> QED
        BY <1>2, <4>1, <4>2
    <3> QED
      BY <1>6, <3>1, <3>2, <3>3 DEF To!Push, To!IInv, To!FailuresOutlastTheirMoment, To!Shown
  <2> QED
    BY <2>1, <2>2 DEF To!FailuresOutlastTheirMoment
<1> QED
  BY <1>7, <1>9, <1>10, <1>11 DEF To!IInv

\* Taking notices away leaves the others in their order, and their timers.
LEMMA WithoutKeeps ==
    ASSUME To!ToastsAssumption, To!IInv, NEW id \in 1 .. v4, To!Without(id), v4' = v4,
           v3' = v3 \ {id} \/ (v3' = v3 /\ id \in v2)
    PROVE  To!IInv'
<1> DEFINE S == [id : Nat \ {id}, tone : To!Tones]
<1>1. /\ v1 \in Seq(To!Notices) /\ Len(v1) \in Nat /\ Len(v1) \in 0 .. 3 /\ v4 \in Nat
      /\ v4 \in 0 .. ToMaxNotices /\ v2 \cup v3 \subseteq 1 .. v4
  BY DEF To!IInv, To!TypeOK, To!ToastsAssumption
<1>2. To!Notices' = To!Notices
  BY DEF To!Notices
<1>3. v1' = Within(v1, S)
  BY DEF To!Without, To!Within, Within
<1> HIDE DEF S
<1>4. v1' \in Seq(To!Notices) /\ Len(v1') \in Nat /\ Len(v1') <= Len(v1)
  BY <1>1, <1>3, WithinTheList
<1>5. DOMAIN v1' = 1 .. Len(v1') /\ DOMAIN v1 = 1 .. Len(v1)
  BY <1>1, <1>4, ElementsOf
<1>6. PICK h \in [1 .. Len(v1') -> 1 .. Len(v1)] :
               /\ \A k \in 1 .. Len(v1') : v1'[k] = v1[h[k]] /\ v1[h[k]] \in S
               /\ \A j, k \in 1 .. Len(v1') : j < k => h[j] < h[k]
               /\ \A i \in 1 .. Len(v1) : v1[i] \in S => \E k \in 1 .. Len(v1') : h[k] = i
  BY <1>1, <1>3, WithinTheList
<1>7. \A i \in 1 .. Len(v1) : v1[i] \in S <=> v1[i].id # id
  <2>1. \A i \in 1 .. Len(v1) : v1[i] \in To!Notices
    BY <1>1, ElementsOf
  <2>2. \A t \in To!Notices : t \in S <=> t.id # id
    BY <1>1 DEF S, To!Notices
  <2> QED
    BY <2>1, <2>2
<1>8. To!TypeOK'
  <2>1. Len(v1') \in 0 .. 3
    BY <1>1, <1>4, NoLonger
  <2>2. v2' \cup v3' \subseteq 1 .. v4
    BY <1>1 DEF To!Without
  <2>3. v1' \in Seq(To!Notices') /\ v4' \in 0 .. ToMaxNotices
    BY <1>1, <1>2, <1>4
  <2> QED
    BY <2>1, <2>2, <2>3 DEF To!TypeOK
<1>9. To!InTheirOrder'
  BY <1>6 DEF To!IInv, To!InTheirOrder
<1>10. To!TimersAreOfReceipts'
  BY DEF To!IInv, To!TimersAreOfReceipts, To!Without
<1>11. To!FailuresOutlastTheirMoment'
  <2>1. \A i \in DOMAIN v1' : (v1'[i].tone = "notice") = (v1'[i].id \in v2')
    <3> TAKE k \in DOMAIN v1'
    <3>1. k \in 1 .. Len(v1') /\ h[k] \in 1 .. Len(v1)
      BY <1>5, <1>6
    <3>2. v1'[k] = v1[h[k]] /\ v1[h[k]].id # id
      BY <1>6, <1>7, <3>1
    <3>3. (v1[h[k]].tone = "notice") = (v1[h[k]].id \in v2)
      BY <1>5, <3>1 DEF To!IInv, To!FailuresOutlastTheirMoment
    <3> QED
      BY <3>2, <3>3 DEF To!Without
  <2>2. \A f \in v3' : f \in To!Shown' \/ v4' >= f + 3
    <3> TAKE f \in v3'
    <3>1. f \in v3 /\ f # id
      BY DEF To!IInv, To!TimersAreOfReceipts
    <3>2. ASSUME NEW i \in 1 .. Len(v1), v1[i].id = f
          PROVE  f \in To!Shown'
      <4>1. PICK k \in 1 .. Len(v1') : h[k] = i
        BY <1>6, <1>7, <3>1, <3>2
      <4> QED
        BY <1>5, <1>6, <3>2, <4>1 DEF To!Shown
    <3> QED
      BY <1>5, <3>1, <3>2 DEF To!IInv, To!FailuresOutlastTheirMoment, To!Shown
  <2> QED
    BY <2>1, <2>2 DEF To!FailuresOutlastTheirMoment
<1> QED
  BY <1>8, <1>9, <1>10, <1>11 DEF To!IInv

\* The steps of the notices (toast.tsx): pushed, dismissed, timed out.
LEMMA ToastsPreserved ==
    ASSUME To!ToastsAssumption, To!IInv, To!Next \/ UNCHANGED To!vars
    PROVE  To!IInv'
<1>1. ASSUME NEW tone \in To!Tones, To!Push(tone)
      PROVE  To!IInv'
  BY <1>1, PushKeeps
<1>2. ASSUME NEW id \in 1 .. v4, To!Dismiss(id) \/ To!TimesOut(id)
      PROVE  To!IInv'
  BY <1>2, WithoutKeeps DEF To!Dismiss, To!TimesOut
<1>3. CASE UNCHANGED To!vars
  BY <1>3 DEF To!vars, To!IInv, To!TypeOK, To!Notices, To!InTheirOrder, To!TimersAreOfReceipts,
     To!FailuresOutlastTheirMoment, To!Shown
<1> QED
  BY <1>1, <1>2, <1>3 DEF To!Next, To!Say, To!Warn, To!MutationFails, To!Tones

(***************************************************************************)
(* The theme                                                               *)
(***************************************************************************)

\* The page is painted before the application starts, as the preference says.
LEMMA ThemeInitially == ASSUME Th!ThemeAssumption, Th!Init PROVE Th!IInv
  BY DEF Th!ThemeAssumption, Th!Init, Th!IInv, Th!TypeOK, Th!ThePaintIsTheChoice, Th!ApartOnlyWhenSplit,
     Th!Preferences, Th!Drawn, Th!Read, Th!Resolve, Th!Controls

\* A control that takes a preference paints the page in it.
LEMMA TakesKeeps ==
    ASSUME Th!ThemeAssumption, Th!IInv, NEW c \in Th!Controls, NEW p \in Th!Preferences, Th!Takes(c, p),
           v1' \in {"landing", "shell", "settings"},
           c = "toggle" => v1' = v1,
           c = "choice" => v1' = "settings"
    PROVE  Th!IInv'
<1>1. /\ v2 \in [{"toggle", "choice"} -> Th!Preferences \cup {None}] /\ v2["toggle"] \in Th!Preferences
      /\ v5 \in {"light", "dark"} /\ v7 \in BOOLEAN /\ (c = "toggle" \/ c = "choice")
      /\ None \notin Th!Preferences
  BY DEF Th!IInv, Th!TypeOK, Th!Controls, Th!Preferences, Th!ThemeAssumption
<1>2. /\ v2' = [v2 EXCEPT ![c] = p] /\ v5' = v5 /\ v4' = v4
      /\ v6' = IF p = "system" THEN v5 ELSE p
      /\ v7' = (v7 \/ (v2'["choice"] # None /\ v2'["choice"] # v2'["toggle"]))
      /\ v3' = IF v4 THEN p ELSE v3
  BY DEF Th!Takes, Th!Resolve
<1>3. v2' \in [{"toggle", "choice"} -> Th!Preferences \cup {None}]
  BY <1>1, <1>2
<1>4. Th!TypeOK'
  <2>1. v2'["toggle"] \in Th!Preferences
    BY <1>1, <1>2
  <2>2. v2'["choice"] \in IF v1' = "settings" THEN Th!Preferences ELSE {None}
    <3>1. CASE c = "choice"
      BY <1>1, <1>2, <3>1
    <3>2. CASE c = "toggle"
      BY <1>1, <1>2, <3>2 DEF Th!IInv, Th!TypeOK
    <3> QED
      BY <1>1, <3>1, <3>2
  <2>3. v3' \in IF v4' THEN Th!Preferences ELSE {None}
    BY <1>2 DEF Th!IInv, Th!TypeOK
  <2>4. v6' \in {"light", "dark"} /\ v7' \in BOOLEAN
    BY <1>1, <1>2 DEF Th!Preferences
  <2> QED
    BY <1>2, <1>3, <2>1, <2>2, <2>3, <2>4 DEF Th!IInv, Th!TypeOK, Th!Controls
<1>5. Th!ApartOnlyWhenSplit'
  BY <1>2 DEF Th!ApartOnlyWhenSplit
<1>6. Th!ThePaintIsTheChoice'
  <2>1. CASE c = "toggle"
    BY <1>1, <1>2, <2>1 DEF Th!ThePaintIsTheChoice, Th!Resolve
  <2>2. CASE c = "choice"
    <3>1. v2'["choice"] = p
      BY <1>1, <1>2, <2>2
    <3> QED
      BY <1>1, <1>2, <3>1 DEF Th!ThePaintIsTheChoice, Th!Resolve
  <2> QED
    BY <1>1, <2>1, <2>2
<1> QED
  BY <1>4, <1>5, <1>6 DEF Th!IInv

\* What is read of storage is a preference, whatever is stored.
LEMMA ReadIsAPreference ==
    ASSUME Th!IInv
    PROVE  Th!Read \in Th!Preferences
BY DEF Th!IInv, Th!TypeOK, Th!Read, Th!Preferences

\* A page that is loaded again reads and paints what it would have.
LEMMA LoadedKeeps ==
    ASSUME Th!ThemeAssumption, Th!IInv, NEW s \in {"landing", "shell", "settings"}, v1' = s,
           v2' = Th!Drawn(s, Th!Read), v6' = Th!Resolve(Th!Read, v5),
           v3' = IF v4 THEN Th!Read ELSE v3, v4' = v4, v5' = v5, v7' \in BOOLEAN
    PROVE  Th!IInv'
<1> DEFINE p == Th!Read
<1>1. p \in Th!Preferences
  BY ReadIsAPreference
<1> HIDE DEF p
<1>2. /\ v2' = [c \in {"toggle", "choice"} |-> IF c = "toggle" \/ s = "settings" THEN p ELSE None]
      /\ v6' = (IF p = "system" THEN v5 ELSE p) /\ v3' = IF v4 THEN p ELSE v3
  BY DEF p, Th!Drawn, Th!Controls, Th!Resolve
<1>3. v5 \in {"light", "dark"} /\ v3 \in (IF v4 THEN Th!Preferences ELSE {None}) /\ v4 \in BOOLEAN
  BY DEF Th!IInv, Th!TypeOK
<1>4. Th!TypeOK'
  BY <1>1, <1>2, <1>3 DEF Th!TypeOK, Th!Preferences, Th!Controls
<1>5. Th!ApartOnlyWhenSplit' /\ Th!ThePaintIsTheChoice'
  BY <1>2 DEF Th!ApartOnlyWhenSplit, Th!ThePaintIsTheChoice, Th!Resolve
<1> QED
  BY <1>4, <1>5 DEF Th!IInv

\* The steps of the theme (theme.ts): chosen, changed in another tab, by the machine.
LEMMA ThemePreserved ==
    ASSUME Th!ThemeAssumption, Th!IInv, Th!Next \/ UNCHANGED Th!vars
    PROVE  Th!IInv'
<1>1. ASSUME NEW s \in {"landing", "shell", "settings"}, Th!Loaded(s)
      PROVE  Th!IInv'
  BY <1>1, LoadedKeeps DEF Th!Loaded
<1>2. ASSUME NEW s \in {"landing", "shell", "settings"}, Th!Walks(s)
      PROVE  Th!IInv'
  <2>1. CASE "landing" \in {s, v1}
    <3>1. v7' \in BOOLEAN
      BY <1>2, <2>1 DEF Th!Walks, Th!IInv, Th!TypeOK
    <3> QED
      BY <1>2, <2>1, <3>1, LoadedKeeps DEF Th!Walks
  <2>2. CASE "landing" \notin {s, v1} /\ s = "settings"
    <3>1. Th!Takes("choice", Th!Read) /\ v1' = "settings" /\ "choice" \in Th!Controls
      BY <1>2, <2>2 DEF Th!Walks, Th!Controls
    <3> QED
      BY <3>1, TakesKeeps, ReadIsAPreference
  <2>3. CASE "landing" \notin {s, v1} /\ s # "settings"
    <3>1. /\ v1' = s /\ v2' = [c \in {"toggle", "choice"} |-> IF c = "toggle" THEN v2["toggle"] ELSE None]
          /\ UNCHANGED <<v3, v4, v5, v6, v7>>
      BY <1>2, <2>3 DEF Th!Walks, Th!Drawn, Th!Controls
    <3> QED
      BY <2>3, <3>1 DEF Th!IInv, Th!TypeOK, Th!ApartOnlyWhenSplit, Th!ThePaintIsTheChoice, Th!Controls
  <2> QED
    BY <2>1, <2>2, <2>3
<1>3. CASE Th!Cycle
  <2>1. PICK p \in Th!Preferences : Th!Takes("toggle", p) /\ v1' = v1
    BY <1>3 DEF Th!Cycle, Th!Preferences
  <2>2. "toggle" \in Th!Controls /\ v1' \in {"landing", "shell", "settings"}
    BY <2>1 DEF Th!Controls, Th!IInv, Th!TypeOK
  <2> QED
    BY <2>1, <2>2, TakesKeeps
<1>4. CASE Th!MachineChanges
  <2>1. /\ v5' \in {"light", "dark"} /\ UNCHANGED <<v1, v2, v3, v4, v7>>
        /\ v6' = IF \E c \in {"toggle", "choice"} : v2[c] = "system" THEN v5' ELSE v6
    BY <1>4 DEF Th!MachineChanges, Th!Controls
  <2>2. Th!TypeOK'
    BY <2>1 DEF Th!IInv, Th!TypeOK
  <2>3. Th!ApartOnlyWhenSplit'
    BY <2>1 DEF Th!IInv, Th!ApartOnlyWhenSplit
  <2>4. Th!ThePaintIsTheChoice'
    <3> SUFFICES ASSUME ~v7
                 PROVE  v6' = Th!Resolve(v2["toggle"], v5')
      BY <2>1 DEF Th!ThePaintIsTheChoice
    <3>1. v2["choice"] \in {None, v2["toggle"]} /\ v6 = Th!Resolve(v2["toggle"], v5)
      BY DEF Th!IInv, Th!ApartOnlyWhenSplit, Th!ThePaintIsTheChoice
    <3> QED
      BY <2>1, <3>1 DEF Th!Resolve, Th!ThemeAssumption
  <2> QED
    BY <2>2, <2>3, <2>4 DEF Th!IInv
<1>5. ASSUME NEW p \in Th!Preferences, Th!SetPreference(p)
      PROVE  Th!IInv'
  <2>1. Th!Takes("choice", p) /\ v1' = v1 /\ v1 = "settings" /\ "choice" \in Th!Controls
    BY <1>5 DEF Th!SetPreference, Th!Controls, Th!IInv, Th!TypeOK
  <2> QED
    BY <2>1, TakesKeeps
<1>6. ASSUME NEW p \in Th!Preferences, Th!OtherTab(p)
      PROVE  Th!IInv'
  BY <1>6 DEF Th!OtherTab, Th!IInv, Th!TypeOK, Th!ApartOnlyWhenSplit, Th!ThePaintIsTheChoice
<1>7. CASE UNCHANGED Th!vars
  BY <1>7 DEF Th!vars, Th!IInv, Th!TypeOK, Th!ApartOnlyWhenSplit, Th!ThePaintIsTheChoice
<1> QED
  BY <1>1, <1>2, <1>3, <1>4, <1>5, <1>6, <1>7 DEF Th!Next

(***************************************************************************)
(* Cases, and the filter of the policies                                   *)
(***************************************************************************)

\* No scope is being saved at first.
LEMMA CasesInitially == ASSUME Ca!Init PROVE Ca!IInv
  BY DEF Ca!Init, Ca!IInv, Ca!TheFormIsOfTheOpenCase, Ca!ScopesAreSavedWhereTheyWereTyped

\* What shows another case takes the form of this one down.
LEMMA ShowsKeeps ==
    ASSUME Ca!IInv, NEW l, NEW s, Ca!Shows(l, s), v3' = l, v7' = s, v2' = v2
    PROVE  Ca!IInv'
<1>1. v8' # Ca!Closed => v2' /\ v8'.on = Ca!Open'
  <2> SUFFICES ASSUME v8' # Ca!Closed
               PROVE  v2 /\ v8'.on = Ca!SelectedId(l, s)
    BY DEF Ca!Open, Ca!SelectedId, Ca!Listed
  <2>1. v8' = v8 /\ v8 # Ca!Closed /\ Ca!SelectedId(l, s) = Ca!Open
    BY DEF Ca!Shows, Ca!FormAfter
  <2> QED
    BY <2>1 DEF Ca!IInv, Ca!TheFormIsOfTheOpenCase
<1>2. \/ v9' = v9
      \/ v9 # None /\ v9' = [v9 EXCEPT !.drawn = FALSE]
  BY DEF Ca!Shows
<1>3. v9 # None => DOMAIN v9 = {"on", "of", "scope", "done", "drawn"} /\ v9.on = v9.of
  BY DEF Ca!IInv, Ca!ScopesAreSavedWhereTheyWereTyped
<1>4. v9' # None => DOMAIN v9' = {"on", "of", "scope", "done", "drawn"} /\ v9'.on = v9'.of
  BY <1>2, <1>3
<1> QED
  BY <1>1, <1>4 DEF Ca!IInv, Ca!TheFormIsOfTheOpenCase, Ca!ScopesAreSavedWhereTheyWereTyped, Ca!Closed

\* The steps of the cases page: what is saved is saved on the case it was typed for.
LEMMA CasesPreserved ==
    ASSUME Ca!IInv, Ca!Next \/ UNCHANGED Ca!vars
    PROVE  Ca!IInv'
<1> USE DEF Ca!IInv
<1>0. v9 # None => DOMAIN v9 = {"on", "of", "scope", "done", "drawn"} /\ v9.on = v9.of
  BY DEF Ca!ScopesAreSavedWhereTheyWereTyped
<1>a. v3' = v3 /\ v7' = v7 => Ca!Open' = Ca!Open
  BY DEF Ca!Open, Ca!SelectedId, Ca!Listed
<1>1. CASE Ca!ListArrives
  <2>1. CASE v2
    BY <1>1, <2>1, ShowsKeeps DEF Ca!ListArrives
  <2>2. CASE ~v2
    BY <1>1, <2>2 DEF Ca!ListArrives, Ca!TheFormIsOfTheOpenCase, Ca!ScopesAreSavedWhereTheyWereTyped, Ca!Closed
  <2> QED
    BY <2>1, <2>2
<1>2. ASSUME NEW c \in CaCases, Ca!Select(c)
      PROVE  Ca!IInv'
  BY <1>2, ShowsKeeps DEF Ca!Select
<1>3. CASE Ca!Leave
  <2>1. v8' = Ca!Closed /\ (v9' = None \/ (v9 # None /\ v9' = [v9 EXCEPT !.drawn = FALSE]))
    BY <1>3 DEF Ca!Leave
  <2>2. v9' # None => DOMAIN v9' = {"on", "of", "scope", "done", "drawn"} /\ v9'.on = v9'.of
    BY <1>0, <2>1
  <2> QED
    BY <2>1, <2>2 DEF Ca!TheFormIsOfTheOpenCase, Ca!ScopesAreSavedWhereTheyWereTyped, Ca!Closed
<1>4. CASE Ca!Edit \/ Ca!Cancel
  <2>1. v9' = v9 /\ v2' = v2 /\ v2 /\ Ca!Open' = Ca!Open
    BY <1>4, <1>a DEF Ca!Edit, Ca!Cancel, Ca!lists
  <2>2. v8' = Ca!Closed \/ v8'.on = Ca!Open
    BY <1>4 DEF Ca!Edit, Ca!Cancel
  <2> QED
    BY <2>1, <2>2 DEF Ca!TheFormIsOfTheOpenCase, Ca!ScopesAreSavedWhereTheyWereTyped, Ca!Closed
<1>5. CASE Ca!Save
  BY <1>5 DEF Ca!Save, Ca!lists, Ca!TheFormIsOfTheOpenCase, Ca!ScopesAreSavedWhereTheyWereTyped,
     Ca!Closed, Ca!Open, Ca!SelectedId, Ca!Listed
<1>6. CASE Ca!ServerRescopes
  <2>1. v9' = [v9 EXCEPT !.done = TRUE] /\ v9 # None
    BY <1>6 DEF Ca!ServerRescopes
  <2>2. DOMAIN v9' = {"on", "of", "scope", "done", "drawn"} /\ v9'.on = v9'.of
    BY <1>0, <2>1
  <2> QED
    BY <1>6, <2>2 DEF Ca!ServerRescopes, Ca!lists, Ca!TheFormIsOfTheOpenCase,
       Ca!ScopesAreSavedWhereTheyWereTyped, Ca!Closed, Ca!Open, Ca!SelectedId, Ca!Listed
<1>7. CASE Ca!Saved
  BY <1>7 DEF Ca!Saved, Ca!TheFormIsOfTheOpenCase, Ca!ScopesAreSavedWhereTheyWereTyped,
     Ca!Closed, Ca!Open, Ca!SelectedId, Ca!Listed
<1>8. CASE Ca!ServerLists \/ Ca!SaveFails
  BY <1>8 DEF Ca!ServerLists, Ca!SaveFails, Ca!lists, Ca!TheFormIsOfTheOpenCase,
     Ca!ScopesAreSavedWhereTheyWereTyped, Ca!Closed, Ca!Open, Ca!SelectedId, Ca!Listed
<1>9. ASSUME NEW c \in CaCases, Ca!ServerReads(c) \/ Ca!HistoryArrives(c)
      PROVE  Ca!IInv'
  BY <1>9 DEF Ca!ServerReads, Ca!HistoryArrives, Ca!lists, Ca!TheFormIsOfTheOpenCase,
     Ca!ScopesAreSavedWhereTheyWereTyped, Ca!Closed, Ca!Open, Ca!SelectedId, Ca!Listed
<1>10. ASSUME NEW c \in CaCases, NEW s \in CaScopes, Ca!ReviewSeals(c, s)
       PROVE  Ca!IInv'
  BY <1>10 DEF Ca!ReviewSeals, Ca!lists, Ca!TheFormIsOfTheOpenCase,
     Ca!ScopesAreSavedWhereTheyWereTyped, Ca!Closed, Ca!Open, Ca!SelectedId, Ca!Listed
<1>11. ASSUME NEW s \in CaScopes, Ca!Type(s)
       PROVE  Ca!IInv'
  <2>1. v8' # Ca!Closed => v2' /\ v8'.on = Ca!Open'
    BY <1>11 DEF Ca!Type, Ca!lists, Ca!TheFormIsOfTheOpenCase, Ca!Closed, Ca!Open, Ca!SelectedId, Ca!Listed
  <2> QED
    BY <1>11, <2>1 DEF Ca!Type, Ca!TheFormIsOfTheOpenCase, Ca!ScopesAreSavedWhereTheyWereTyped, Ca!Closed
<1>12. ASSUME NEW fresh \in BOOLEAN, Ca!Return(fresh)
       PROVE  Ca!IInv'
  BY <1>12 DEF Ca!Return, Ca!TheFormIsOfTheOpenCase, Ca!ScopesAreSavedWhereTheyWereTyped, Ca!Closed
<1>13. CASE UNCHANGED Ca!vars
  BY <1>13 DEF Ca!vars, Ca!lists, Ca!TheFormIsOfTheOpenCase,
     Ca!ScopesAreSavedWhereTheyWereTyped, Ca!Closed, Ca!Open, Ca!SelectedId, Ca!Listed
<1> QED
  BY <1>1, <1>2, <1>3, <1>4, <1>5, <1>6, <1>7, <1>8, <1>9, <1>10, <1>11, <1>12, <1>13 DEF Ca!Next

\* The filter leaves everything at first.
LEMMA FilterInitially == ASSUME Po!Init PROVE Po!FilterIsOfTheChips
  BY DEF Po!Init, Po!FilterIsOfTheChips

\* The filter is only ever set to what a chip of the page says.
LEMMA FilterPreserved ==
    ASSUME Po!FilterIsOfTheChips, Po!Next \/ UNCHANGED Po!vars
    PROVE  Po!FilterIsOfTheChips'
<1>1. ASSUME NEW s \in {"all", "required", "preferred", "guidance"},
             NEW c \in {"all"} \cup {PoScope[p] : p \in Po!Documents}, NEW a \in BOOLEAN,
             Po!Filters([strength |-> s, scope |-> c, authored |-> a])
      PROVE  Po!FilterIsOfTheChips'
  BY <1>1 DEF Po!Filters, Po!FilterIsOfTheChips, Po!Documents
<1>2. v7' = v7 => Po!FilterIsOfTheChips'
  BY DEF Po!FilterIsOfTheChips, Po!Documents
<1>3. ASSUME NEW r, Po!ChooseRoot(r) \/ Po!ServerReads(r) \/ Po!CorpusArrives(r) \/ Po!ReadFails(r)
      PROVE  v7' = v7
  BY <1>3 DEF Po!ChooseRoot, Po!ServerReads, Po!CorpusArrives, Po!ReadFails, Po!card
<1>4. ASSUME NEW p, Po!Edit(p) \/ Po!Toggle(p) \/ Po!AskToDelete(p) \/ Po!Keep(p) \/ Po!Delete(p)
      PROVE  v7' = v7
  BY <1>4 DEF Po!Edit, Po!Toggle, Po!AskToDelete, Po!Keep, Po!Delete, Po!card
<1>5. ASSUME NEW s, Po!Type(s) \/ Po!Saved(s) \/ Po!SaveFails(s) \/ Po!SaveSettles(s) \/ Po!TypeSource(s) \/ Po!Drop(s)
      PROVE  v7' = v7
  BY <1>5 DEF Po!Type, Po!Saved, Po!SaveFails, Po!SaveSettles, Po!TypeSource, Po!Drop, Po!card
<1>6. CASE Po!TryAgain \/ Po!OpenOrClose \/ Po!Discard \/ Po!KeepWriting \/ Po!Save
  BY <1>2, <1>6 DEF Po!TryAgain, Po!OpenOrClose, Po!Discard, Po!KeepWriting, Po!Save, Po!card
<1>7. CASE Po!Deleted \/ Po!DeleteEnds \/ Po!Register \/ Po!Registered \/ Po!Dropped \/ Po!SourceFails
  BY <1>2, <1>7 DEF Po!Deleted, Po!DeleteEnds, Po!Register, Po!Registered, Po!Dropped, Po!SourceFails, Po!card
<1>8. CASE UNCHANGED Po!vars
  BY <1>2, <1>8 DEF Po!vars, Po!card
<1> QED
  BY <1>1, <1>2, <1>3, <1>4, <1>5, <1>6, <1>7, <1>8 DEF Po!Next

\* A step that leaves the editor as it was asks nothing of the reader.
LEMMA EditorsKeptStand ==
    ASSUME Po!DraftsAreInTheEditor, v10' = v10, v11' = v11
    PROVE  Po!DraftsAreInTheEditor' /\ Po!KnownDraftsAreAskedAbout
  BY DEF Po!DraftsAreInTheEditor, Po!KnownDraftsAreAskedAbout, Po!Texts

\* A form is mounted on what it was opened on, and taken down by a panel only.
LEMMA PanelsKeepDrafts ==
    ASSUME Po!DraftsAreInTheEditor, Po!Panels(v3', v4', v6')
    PROVE  Po!DraftsAreInTheEditor' /\ Po!KnownDraftsAreAskedAbout
<1>1. [text |-> "clean", save |-> 0] \in [text : Po!Texts, save : 0 .. 2]
  BY DEF Po!Texts
<1>2. v10' = v10 /\ v11' \in {None, v11, [text |-> "clean", save |-> 0]} /\ (v11' # None => v10 # None)
  BY DEF Po!Panels
<1>3. Po!DraftsAreInTheEditor'
  BY <1>1, <1>2 DEF Po!DraftsAreInTheEditor, Po!Texts
<1>4. Po!Shown(v3', v4', v6') /\ v11 # None => v11' = v11
  BY DEF Po!Panels, Po!DraftsAreInTheEditor
<1>5. Po!KnownDraftsAreAskedAbout
  BY <1>2, <1>4 DEF Po!KnownDraftsAreAskedAbout, Po!Shown
<1> QED
  BY <1>3, <1>5

\* What is asked of the editor while it holds a draft is asked of the reader first.
LEMMA RequestsKeepDrafts ==
    ASSUME Po!DraftsAreInTheEditor, NEW next, Po!Request(next), UNCHANGED Po!query
    PROVE  Po!DraftsAreInTheEditor' /\ Po!KnownDraftsAreAskedAbout
<1>1. [text |-> "clean", save |-> 0] \in [text : Po!Texts, save : 0 .. 2]
  BY DEF Po!Texts
<1>2. v3' = v3 /\ v4' = v4 /\ v6' = v6
  BY DEF Po!query
<1>3. CASE v10 # None /\ v12 /\ (next = None \/ next # v10)
  BY <1>3, EditorsKeptStand DEF Po!Request
<1>4. CASE ~ (v10 # None /\ v12 /\ (next = None \/ next # v10))
  <2>1. /\ v10' = next
        /\ v11' = IF next = None \/ ~ Po!Shown(v3, v4, v6) THEN None
                  ELSE IF next = v10 THEN v11 ELSE [text |-> "clean", save |-> 0]
    BY <1>4 DEF Po!Request
  <2>2. Po!DraftsAreInTheEditor'
    BY <1>1, <2>1 DEF Po!DraftsAreInTheEditor, Po!Texts
  <2>3. v11 # None /\ v12 /\ Po!Shown(v3, v4, v6) => v11' = v11 /\ v10' = v10
    BY <1>4, <2>1 DEF Po!DraftsAreInTheEditor
  <2>4. Po!KnownDraftsAreAskedAbout
    BY <1>2, <2>3 DEF Po!KnownDraftsAreAskedAbout, Po!Shown
  <2> QED
    BY <2>2, <2>4
<1> QED
  BY <1>3, <1>4

\* What is typed or sent is the draft of the form that is open, and stays there.
LEMMA FormsKeepDrafts ==
    ASSUME Po!PoliciesAssumption, Po!DraftsAreInTheEditor, Po!Save \/ \E t \in Po!Texts : Po!Type(t)
    PROVE  Po!DraftsAreInTheEditor' /\ Po!KnownDraftsAreAskedAbout
<1>1. v11 # None /\ v10' = v10
  BY DEF Po!Save, Po!Type
<1>2. v11 \in [text : Po!Texts, save : 0 .. 2] /\ v10 # None
  BY <1>1 DEF Po!DraftsAreInTheEditor
<1>3. v11' \in [text : Po!Texts, save : 0 .. 2]
  <2>1. CASE Po!Save
    <3>1. v11' \in {[v11 EXCEPT !.save = 1], [v11 EXCEPT !.save = 2]}
      BY <2>1 DEF Po!Save
    <3> QED
      BY <1>2, <3>1
  <2>2. ASSUME NEW t \in Po!Texts, Po!Type(t)
        PROVE  v11' \in [text : Po!Texts, save : 0 .. 2]
    BY <1>2, <2>2 DEF Po!Type
  <2> QED
    BY <2>1, <2>2
<1>4. v11' # None
  BY <1>3 DEF Po!PoliciesAssumption
<1> QED
  BY <1>1, <1>2, <1>3, <1>4 DEF Po!DraftsAreInTheEditor, Po!KnownDraftsAreAskedAbout, Po!Texts

\* A discarded draft was asked about, and a settled save is one that was written.
LEMMA EndsKeepDrafts ==
    ASSUME Po!DraftsAreInTheEditor, Po!Discard \/ \E s \in v14 : Po!SaveSettles(s)
    PROVE  Po!DraftsAreInTheEditor' /\ Po!KnownDraftsAreAskedAbout
<1>1. [text |-> "clean", save |-> 0] \in [text : Po!Texts, save : 0 .. 2]
  BY DEF Po!Texts
<1>2. CASE Po!Discard
  <2>1. /\ v13 # None /\ v10' = v13.next
        /\ v11' = IF v13.next = None THEN None
                  ELSE IF v13.next = v10 THEN v11 ELSE [text |-> "clean", save |-> 0]
    BY <1>2 DEF Po!Discard
  <2> QED
    BY <1>1, <2>1 DEF Po!DraftsAreInTheEditor, Po!KnownDraftsAreAskedAbout, Po!Texts
<1>3. ASSUME NEW s \in v14, Po!SaveSettles(s)
      PROVE  Po!DraftsAreInTheEditor' /\ Po!KnownDraftsAreAskedAbout
  <2>1. v11' = None /\ v14' # v14
    BY <1>3 DEF Po!SaveSettles
  <2> QED
    BY <2>1 DEF Po!DraftsAreInTheEditor, Po!KnownDraftsAreAskedAbout
<1> QED
  BY <1>2, <1>3

\* No step takes a draft the page knows of from a page that stays on screen without a word.
LEMMA DraftsKept ==
    ASSUME Po!PoliciesAssumption, Po!DraftsAreInTheEditor, Po!Next \/ UNCHANGED Po!vars
    PROVE  Po!DraftsAreInTheEditor' /\ Po!KnownDraftsAreAskedAbout
<1> DEFINE Kept == Po!DraftsAreInTheEditor' /\ Po!KnownDraftsAreAskedAbout
<1>1. ASSUME NEW r, Po!ChooseRoot(r) \/ Po!CorpusArrives(r) \/ Po!ReadFails(r)
      PROVE  Kept
  <2>1. CASE Po!ChooseRoot(r)
    <3>1. v3' = r /\ v4' = v4 /\ Po!Panels(r, v4, v6')
      BY <2>1 DEF Po!ChooseRoot
    <3> QED
      BY <3>1, PanelsKeepDrafts
  <2>2. CASE Po!CorpusArrives(r)
    <3>1. v3' = v3 /\ Po!Panels(v3, v4', v6')
      BY <2>2 DEF Po!CorpusArrives
    <3> QED
      BY <3>1, PanelsKeepDrafts
  <2>3. CASE Po!ReadFails(r)
    <3>1. v3' = v3 /\ v4' = v4 /\ Po!Panels(v3, v4, v6')
      BY <2>3 DEF Po!ReadFails
    <3> QED
      BY <3>1, PanelsKeepDrafts
  <2> QED
    BY <1>1, <2>1, <2>2, <2>3
<1>2. ASSUME NEW r, Po!ServerReads(r) \/ Po!Filters(r)
      PROVE  Kept
  BY <1>2, EditorsKeptStand DEF Po!ServerReads, Po!Filters, Po!editor
<1>3. ASSUME NEW p, Po!Edit(p)
      PROVE  Kept
  BY <1>3, RequestsKeepDrafts DEF Po!Edit
<1>4. ASSUME NEW p, Po!Toggle(p) \/ Po!AskToDelete(p) \/ Po!Keep(p) \/ Po!Delete(p)
      PROVE  Kept
  BY <1>4, EditorsKeptStand DEF Po!Toggle, Po!AskToDelete, Po!Keep, Po!Delete, Po!editor
<1>5. ASSUME NEW s, Po!Saved(s) \/ Po!SaveFails(s) \/ Po!TypeSource(s) \/ Po!Drop(s)
      PROVE  Kept
  <2>1. UNCHANGED Po!editor
    BY <1>5 DEF Po!Saved, Po!SaveFails, Po!TypeSource, Po!Drop
  <2> QED
    BY <2>1, EditorsKeptStand DEF Po!editor
<1>6. CASE Po!OpenOrClose
  BY <1>6, RequestsKeepDrafts DEF Po!OpenOrClose
<1>7. CASE Po!TryAgain \/ Po!KeepWriting
  BY <1>7, EditorsKeptStand DEF Po!TryAgain, Po!KeepWriting, Po!editor
<1>8. CASE Po!Deleted \/ Po!DeleteEnds \/ Po!Register \/ Po!Registered \/ Po!Dropped \/ Po!SourceFails
  BY <1>8, EditorsKeptStand
  DEF Po!Deleted, Po!DeleteEnds, Po!Register, Po!Registered, Po!Dropped, Po!SourceFails, Po!editor
<1>9. CASE UNCHANGED Po!vars
  BY <1>9, EditorsKeptStand DEF Po!vars, Po!editor
<1>10. ASSUME NEW t \in Po!Texts, Po!Type(t)
       PROVE  Kept
  BY <1>10, FormsKeepDrafts
<1>11. ASSUME NEW s \in v14, Po!SaveSettles(s)
       PROVE  Kept
  BY <1>11, EndsKeepDrafts
<1>12. CASE Po!Discard
  BY <1>12, EndsKeepDrafts
<1>13. CASE Po!Next
  <2> DEFINE Reads == \E r \in Po!Corpora : Po!ChooseRoot(r) \/ Po!ServerReads(r) \/ Po!CorpusArrives(r) \/ Po!ReadFails(r)
             Chips == \E s \in {"all", "required", "preferred", "guidance"}, c \in {"all"} \cup {PoScope[p] : p \in Po!Documents} :
                          \E a \in BOOLEAN : Po!Filters([strength |-> s, scope |-> c, authored |-> a])
             Cards == \E p \in Po!Documents : Po!Edit(p) \/ Po!Toggle(p) \/ Po!AskToDelete(p) \/ Po!Keep(p) \/ Po!Delete(p)
             Types == \E t \in Po!Texts : Po!Type(t)
             Saves == \E s \in v14 : Po!Saved(s) \/ Po!SaveFails(s) \/ Po!SaveSettles(s)
             Folders == \E s \in PoSources : Po!TypeSource(s) \/ Po!Drop(s)
  <2>1. Reads \/ Cards => Kept
    BY <1>1, <1>2, <1>3, <1>4
  <2>2. Chips => Kept
    BY <1>2
  <2>3. Types \/ Saves \/ Folders => Kept
    BY <1>5, <1>10, <1>11
  <2>4. CASE Po!Save
    BY <2>4, FormsKeepDrafts
  <2>5. \/ Reads \/ Chips \/ Cards \/ Types \/ Saves \/ Folders
        \/ Po!TryAgain \/ Po!OpenOrClose \/ Po!Discard \/ Po!KeepWriting \/ Po!Save
        \/ Po!Deleted \/ Po!DeleteEnds \/ Po!Register \/ Po!Registered \/ Po!Dropped \/ Po!SourceFails
    BY <1>13 DEF Po!Next
  <2> HIDE DEF Reads, Chips, Cards, Types, Saves, Folders
  <2> QED
    BY <1>6, <1>7, <1>8, <1>12, <2>1, <2>2, <2>3, <2>4, <2>5
<1> QED
  BY <1>9, <1>13

\* Nothing is typed before the editor is opened.
LEMMA PoliciesInitially == ASSUME Po!Init PROVE Po!IInv
  BY FilterInitially DEF Po!Init, Po!IInv, Po!DraftsAreInTheEditor

\* A chip that is drawn leaves a policy on screen, since it counts those it would leave.
LEMMA ChipsLead ==
    ASSUME Po!FilterIsOfTheChips
    PROVE  Po!ChipsLeadSomewhere
<1> DEFINE c == v4[v3]
<1>1. /\ v7 \in [strength : {"all", "required", "preferred", "guidance"},
                 scope : {"all"} \cup {PoScope[p] : p \in Po!Documents}, authored : BOOLEAN]
  BY DEF Po!FilterIsOfTheChips
<1>2. ASSUME NEW s \in {"required", "preferred", "guidance"}
      PROVE  /\ Po!StrengthCount(c, v7, s) = Po!Cardinality(Po!Visible(c, [v7 EXCEPT !.strength = s]))
             /\ Po!StrengthChip(c, v7, s) /\ s # v7.strength
                    => Po!Cardinality(Po!Visible(c, [v7 EXCEPT !.strength = s])) > 0
  <2> DEFINE f == [v7 EXCEPT !.strength = s]
  <2>1. f.strength = s /\ f.scope = v7.scope /\ f.authored = v7.authored /\ s # "all"
    BY <1>1, <1>2
  <2> HIDE DEF f
  <2>2. {p \in c : Po!Matches(p, v7, "strength") /\ s \in {"all", PoStrength[p]}} = Po!Visible(c, f)
    BY <2>1 DEF Po!Visible, Po!Matches
  <2> QED
    BY <2>1, <2>2 DEF f, Po!StrengthCount, Po!StrengthChip
<1>3. Po!AuthoredCount(c, v7) = Po!Cardinality(Po!Visible(c, [v7 EXCEPT !.authored = TRUE]))
  <2> DEFINE f == [v7 EXCEPT !.authored = TRUE]
  <2>1. f.strength = v7.strength /\ f.scope = v7.scope /\ f.authored = TRUE
    BY <1>1
  <2> HIDE DEF f
  <2>2. {p \in c \cap PoAuthored : Po!Matches(p, v7, "authored")} = Po!Visible(c, f)
    BY <2>1 DEF Po!Visible, Po!Matches
  <2> QED
    BY <2>2 DEF f, Po!AuthoredCount
<1> QED
  BY <1>2, <1>3 DEF Po!ChipsLeadSomewhere

(***************************************************************************)
(* The settings                                                            *)
(***************************************************************************)
\* The facts of the type that the steps below use, with their domains.
LEMMA SettingsTyped ==
    ASSUME Ms!SettingsAssumption, Ms!TypeOK
    PROVE  /\ v1 \in [MsRoles -> MsChoices \cup {None}] /\ v6 \subseteq Ms!Queries
           /\ v8 \in [MsRoles -> Ms!Mutations] /\ v9 \in [MsRoles -> Ms!Mutations]
           /\ DOMAIN v5 = Ms!Queries /\ DOMAIN v7 = Ms!Queries
           /\ \A q \in Ms!Queries : v5[q] \in {None} \cup Ms!Readings(q) /\ v7[q] \in {None, Asked} \cup Ms!Readings(q)
           /\ \A q \in Ms!Queries : {None, Asked} \cap Ms!Readings(q) = {}
           /\ "workspace" \notin MsRoles /\ None # Asked /\ Ms!Queries = MsRoles \cup {"workspace"}
  BY DEF Ms!TypeOK, Ms!SettingsAssumption, Ms!Queries

\* Nothing is on screen and no press was made at first.
LEMMA SettingsInitially == ASSUME Ms!SettingsAssumption, Ms!Init PROVE Ms!IInv
<1>1. Ms!TypeOK
  <2>1. v8 \in [MsRoles -> Ms!Mutations] /\ v9 \in [MsRoles -> Ms!Mutations]
    BY DEF Ms!Init, Ms!Idle, Ms!Mutations
  <2> QED
    BY <2>1 DEF Ms!SettingsAssumption, Ms!Init, Ms!TypeOK
<1>2. Ms!PressesFoundTheReadings
  BY DEF Ms!Init, Ms!Idle, Ms!PressesFoundTheReadings
<1>3. Ms!ReadingsFollowTheChoice
  BY DEF Ms!SettingsAssumption, Ms!Init, Ms!ReadingsFollowTheChoice, Ms!Queries
<1> QED
  BY <1>1, <1>2, <1>3 DEF Ms!IInv

\* Asking again: what is on its way is from before only where nothing was on screen.
LEMMA AgainKeeps ==
    ASSUME Ms!SettingsAssumption, Ms!TypeOK, NEW Q \in SUBSET Ms!Queries, Ms!Again(Q), v5' = v5
    PROVE  /\ DOMAIN v7' = Ms!Queries /\ v6' \subseteq v6
           /\ \A q \in Ms!Queries : \/ v7'[q] = Asked
                                    \/ v7'[q] = v7[q] /\ (q \notin Q \/ (v7[q] # None /\ v5[q] = None))
           /\ \A q \in v6 \ v6' : q \in Q /\ v5[q] = None
  BY DEF Ms!Again, Ms!TypeOK

\* A step that asks again for some readings, and moves no mutation to where it has been taken.
LEMMA AskingKeeps ==
    ASSUME Ms!SettingsAssumption, Ms!IInv, NEW Q \in SUBSET Ms!Queries, Ms!Again(Q),
           UNCHANGED <<v1, v2, v3, v4, v5, v10, v11>>, v12' \in 0 .. MsMaxActs,
           v8' \in [MsRoles -> Ms!Mutations], v9' \in [MsRoles -> Ms!Mutations],
           \A r \in MsRoles : /\ v8'[r].at # "idle" \/ v9'[r].at # "idle" => v8[r].at # "idle" \/ v9[r].at # "idle"
                              /\ "taken" \notin {v8'[r].at, v9'[r].at}
                                     => "taken" \notin {v8[r].at, v9[r].at} \/ Q = Ms!Queries
    PROVE  Ms!IInv'
<1>1. /\ DOMAIN v7' = Ms!Queries /\ v6' \subseteq v6
      /\ \A q \in Ms!Queries : \/ v7'[q] = Asked
                               \/ v7'[q] = v7[q] /\ (q \notin Q \/ (v7[q] # None /\ v5[q] = None))
      /\ \A q \in v6 \ v6' : q \in Q /\ v5[q] = None
  BY AgainKeeps DEF Ms!IInv
<1>2. Ms!TypeOK'
  BY <1>1 DEF Ms!IInv, Ms!TypeOK, Ms!Readings, Ms!Mutations
<1>3. Ms!PressesFoundTheReadings'
  BY DEF Ms!IInv, Ms!PressesFoundTheReadings
<1>4. Ms!ReadingsFollowTheChoice'
  <2> SUFFICES ASSUME NEW r \in MsRoles \ v11, "taken" \notin {v8'[r].at, v9'[r].at}, NEW q \in {r, "workspace"}
               PROVE  /\ v7'[q] \notin {None, Asked} => Ms!TellsTheChoice(q, r, v7'[q])
                      /\ v7'[q] = None /\ q \notin v6' => v5[q] # None /\ Ms!TellsTheChoice(q, r, v5[q])
    BY DEF Ms!ReadingsFollowTheChoice, Ms!TellsTheChoice
  <2>1. q \in Ms!Queries /\ None # Asked
    BY DEF Ms!Queries, Ms!SettingsAssumption
  <2>2. CASE v7'[q] = Asked
    BY <2>1, <2>2
  <2>3. CASE v7'[q] = v7[q] /\ (q \notin Q \/ (v7[q] # None /\ v5[q] = None))
    <3>1. CASE "taken" \notin {v8[r].at, v9[r].at}
      <4>1. q \notin v6' /\ v7[q] = None => q \notin v6
        BY <1>1, <2>3
      <4> QED
        BY <2>3, <3>1, <4>1 DEF Ms!IInv, Ms!ReadingsFollowTheChoice
    <3>2. CASE Q = Ms!Queries /\ "taken" \in {v8[r].at, v9[r].at}
      <4>1. v5[q] # None
        BY <3>2 DEF Ms!IInv, Ms!PressesFoundTheReadings
      <4> QED
        BY <2>1, <2>3, <3>2, <4>1
    <3> QED
      BY <3>1, <3>2
  <2> QED
    BY <1>1, <2>1, <2>2, <2>3
<1> QED
  BY <1>2, <1>3, <1>4 DEF Ms!IInv

\* A reading that arrives or fails is awaited no longer.
LEMMA WithoutKeepsStages ==
    ASSUME NEW m \in [MsRoles -> Ms!Mutations], NEW q
    PROVE  /\ Ms!Without(m, q) \in [MsRoles -> Ms!Mutations]
           /\ \A r \in MsRoles : Ms!Without(m, q)[r].at = m[r].at
<1>1. ASSUME NEW r \in MsRoles
      PROVE  /\ [m[r] EXCEPT !.awaits = m[r].awaits \ {q}] \in Ms!Mutations
             /\ [m[r] EXCEPT !.awaits = m[r].awaits \ {q}].at = m[r].at
  <2>1. m[r] \in Ms!Mutations
    OBVIOUS
  <2> QED
    BY <2>1 DEF Ms!Mutations
<1> QED
  BY <1>1 DEF Ms!Without

\* A reading that is asked for, answered or refused.
LEMMA ReadsKeep ==
    ASSUME Ms!SettingsAssumption, Ms!IInv, NEW q \in Ms!Queries, Ms!ServerReads(q)
    PROVE  Ms!IInv'
<1> DEFINE new == IF q = "workspace" THEN v1
                  ELSE [offers |-> v2, answering |-> v3, selected |-> IF v1[q] \in v2 THEN v1[q] ELSE None]
<1>1. v7[q] = Asked /\ v7' = [v7 EXCEPT ![q] = new] /\ UNCHANGED <<v1, v2, v3, v4, v5, v6, v8, v9, v10, v11, v12>>
  BY DEF Ms!ServerReads, Ms!world
<1>2. new \in Ms!Readings(q)
  BY DEF Ms!IInv, Ms!TypeOK, Ms!Readings, Ms!Queries
<1>3. \A r \in MsRoles : q \in {r, "workspace"} => Ms!TellsTheChoice(q, r, new)
  BY DEF Ms!TellsTheChoice, Ms!SettingsAssumption
<1> HIDE DEF new
<1>4. Ms!TypeOK'
  BY <1>1, <1>2 DEF Ms!IInv, Ms!TypeOK, Ms!Readings
<1>5. Ms!PressesFoundTheReadings'
  BY <1>1 DEF Ms!IInv, Ms!PressesFoundTheReadings
<1>6. Ms!ReadingsFollowTheChoice'
  <2> SUFFICES ASSUME NEW r \in MsRoles \ v11, "taken" \notin {v8[r].at, v9[r].at}, NEW p \in {r, "workspace"}
               PROVE  /\ v7'[p] \notin {None, Asked} => Ms!TellsTheChoice(p, r, v7'[p])
                      /\ v7'[p] = None /\ p \notin v6 => v5[p] # None /\ Ms!TellsTheChoice(p, r, v5[p])
    BY <1>1 DEF Ms!ReadingsFollowTheChoice, Ms!TellsTheChoice
  <2>1. p \in Ms!Queries
    BY DEF Ms!Queries
  <2>2. CASE p = q
    <3>1. v7'[p] = new /\ new # None
      BY <1>1, <1>2, <2>2, SettingsTyped DEF Ms!IInv
    <3> QED
      BY <1>3, <2>2, <3>1
  <2>3. CASE p # q
    <3>1. v7'[p] = v7[p]
      BY <1>1, <2>1, <2>3, SettingsTyped DEF Ms!IInv
    <3> QED
      BY <3>1 DEF Ms!IInv, Ms!ReadingsFollowTheChoice
  <2> QED
    BY <2>2, <2>3
<1> QED
  BY <1>4, <1>5, <1>6 DEF Ms!IInv

\* A press that ends asks again for what it changed.
LEMMA EndsKeep ==
    ASSUME Ms!SettingsAssumption, Ms!IInv, NEW q \in Ms!Queries, Ms!Arrives(q) \/ Ms!ReadFails(q)
    PROVE  Ms!IInv'
<1>1. /\ v7[q] # None /\ v7' = [v7 EXCEPT ![q] = None] /\ UNCHANGED <<v1, v2, v3, v4, v10, v11>>
      /\ v8' = Ms!Without(v8, q) /\ v9' = Ms!Without(v9, q) /\ v12' \in 0 .. MsMaxActs
      /\ \/ v7[q] # Asked /\ v5' = [v5 EXCEPT ![q] = v7[q]] /\ v6' = v6 \ {q}
         \/ v5' = v5 /\ v6' = v6 \cup {q}
  BY DEF Ms!Arrives, Ms!ReadFails, Ms!Acts, Ms!world, Ms!IInv, Ms!TypeOK, Ms!SettingsAssumption
<1>2. /\ v8' \in [MsRoles -> Ms!Mutations] /\ v9' \in [MsRoles -> Ms!Mutations]
      /\ \A r \in MsRoles : v8'[r].at = v8[r].at /\ v9'[r].at = v9[r].at
  BY <1>1, WithoutKeepsStages, SettingsTyped DEF Ms!IInv
<1>3. \A p \in Ms!Queries \ {q} : v7'[p] = v7[p] /\ v5'[p] = v5[p] /\ (p \in v6' <=> p \in v6)
  BY <1>1, SettingsTyped DEF Ms!IInv
<1>4. v7'[q] = None /\ (v5[q] # None => v5'[q] # None) /\ (q \notin v6' => v5'[q] = v7[q] /\ v7[q] \notin {None, Asked})
  BY <1>1, SettingsTyped DEF Ms!IInv
<1>5. Ms!TypeOK'
  <2>1. DOMAIN v5' = Ms!Queries /\ DOMAIN v7' = Ms!Queries /\ v6' \subseteq Ms!Queries
    BY <1>1, SettingsTyped DEF Ms!IInv
  <2>2. \A p \in Ms!Queries : v5'[p] \in {None} \cup Ms!Readings(p) /\ v7'[p] \in {None, Asked} \cup Ms!Readings(p)
    <3>1. v5'[q] \in {None} \cup Ms!Readings(q)
      BY <1>1, SettingsTyped DEF Ms!IInv
    <3> QED
      BY <1>3, <1>4, <3>1, SettingsTyped DEF Ms!IInv
  <2> QED
    BY <1>1, <1>2, <2>1, <2>2 DEF Ms!IInv, Ms!TypeOK, Ms!Readings, Ms!Mutations
<1>6. Ms!PressesFoundTheReadings'
  <2>1. \A r \in MsRoles : \A p \in {r, "workspace"} : v5[p] # None => v5'[p] # None
    BY <1>3, <1>4, SettingsTyped DEF Ms!IInv
  <2> QED
    BY <1>1, <1>2, <2>1 DEF Ms!IInv, Ms!PressesFoundTheReadings
<1>7. Ms!ReadingsFollowTheChoice'
  <2> SUFFICES ASSUME NEW r \in MsRoles \ v11, "taken" \notin {v8[r].at, v9[r].at}, NEW p \in {r, "workspace"}
               PROVE  /\ v7'[p] \notin {None, Asked} => Ms!TellsTheChoice(p, r, v7'[p])
                      /\ v7'[p] = None /\ p \notin v6' => v5'[p] # None /\ Ms!TellsTheChoice(p, r, v5'[p])
    BY <1>1, <1>2 DEF Ms!ReadingsFollowTheChoice, Ms!TellsTheChoice
  <2>1. p \in Ms!Queries
    BY DEF Ms!Queries
  <2>2. CASE p = q
    <3>1. v7[p] \notin {None, Asked} => Ms!TellsTheChoice(p, r, v7[p])
      BY DEF Ms!IInv, Ms!ReadingsFollowTheChoice
    <3> QED
      BY <1>4, <2>2, <3>1
  <2>3. CASE p # q
    BY <1>3, <2>1, <2>3 DEF Ms!IInv, Ms!ReadingsFollowTheChoice
  <2> QED
    BY <2>2, <2>3
<1> QED
  BY <1>5, <1>6, <1>7 DEF Ms!IInv

\* A step of the mutations of one role, the others as they were: pressed with both readings on
\* screen or too early, or taken with the choice it makes.
LEMMA MutationsKeep ==
    ASSUME Ms!SettingsAssumption, Ms!IInv, NEW r \in MsRoles,
           UNCHANGED <<v2, v3, v4, v5, v6, v7, v10>>, v12' \in 0 .. MsMaxActs,
           v8' \in [MsRoles -> Ms!Mutations], v9' \in [MsRoles -> Ms!Mutations],
           v1' \in [MsRoles -> MsChoices \cup {None}], v11' \in SUBSET MsRoles, v11 \subseteq v11',
           \A s \in MsRoles \ {r} : v8'[s] = v8[s] /\ v9'[s] = v9[s] /\ v1'[s] = v1[s],
           \/ v8[r].at # "idle" \/ v9[r].at # "idle"
           \/ r \in v11' \/ \A q \in {r, "workspace"} : v5[q] # None,
           \/ r \in v11'
           \/ "taken" \notin {v8'[r].at, v9'[r].at} => "taken" \notin {v8[r].at, v9[r].at} /\ v1'[r] = v1[r]
    PROVE  Ms!IInv'
<1>1. Ms!TypeOK'
  BY DEF Ms!IInv, Ms!TypeOK, Ms!Readings, Ms!Mutations
<1>2. Ms!PressesFoundTheReadings'
  BY DEF Ms!IInv, Ms!PressesFoundTheReadings
<1>3. Ms!ReadingsFollowTheChoice'
  <2> SUFFICES ASSUME NEW s \in MsRoles \ v11', "taken" \notin {v8'[s].at, v9'[s].at}, NEW q \in {s, "workspace"}
               PROVE  /\ v7[q] \notin {None, Asked} => Ms!TellsTheChoice(q, s, v7[q])'
                      /\ v7[q] = None /\ q \notin v6 => v5[q] # None /\ Ms!TellsTheChoice(q, s, v5[q])'
    BY DEF Ms!ReadingsFollowTheChoice, Ms!TellsTheChoice
  <2>1. "taken" \notin {v8[s].at, v9[s].at} /\ v1'[s] = v1[s]
    OBVIOUS
  <2> QED
    BY <2>1 DEF Ms!IInv, Ms!ReadingsFollowTheChoice, Ms!TellsTheChoice
<1> QED
  BY <1>1, <1>2, <1>3 DEF Ms!IInv

\* One mutation of a role moves on and the other stands.
LEMMA MovedOn ==
    ASSUME NEW m \in [MsRoles -> Ms!Mutations], NEW r \in MsRoles, NEW it \in Ms!Mutations
    PROVE  /\ [m EXCEPT ![r] = it] \in [MsRoles -> Ms!Mutations] /\ [m EXCEPT ![r] = it][r] = it
           /\ \A s \in MsRoles \ {r} : [m EXCEPT ![r] = it][s] = m[s]
OBVIOUS

\* A press of a choice or of the clearing one, which finds the readings as they are.
LEMMA SelectsKeep ==
    ASSUME Ms!SettingsAssumption, Ms!IInv, NEW r \in MsRoles,
           (\E c \in MsChoices : Ms!Select(r, c)) \/ Ms!Clear(r)
    PROVE  Ms!IInv'
<1>1. /\ v8 \in [MsRoles -> Ms!Mutations] /\ v9 \in [MsRoles -> Ms!Mutations] /\ v11 \subseteq MsRoles
      /\ v1 \in [MsRoles -> MsChoices \cup {None}]
  BY DEF Ms!IInv, Ms!TypeOK
<1>2. UNCHANGED <<v1, v2, v3, v4, v5, v6, v7, v10>> /\ v12' \in 0 .. MsMaxActs
  BY DEF Ms!Select, Ms!Clear, Ms!Acts, Ms!world, Ms!page, Ms!IInv, Ms!TypeOK, Ms!SettingsAssumption
<1>3. /\ v11' \in SUBSET MsRoles /\ v11 \subseteq v11'
      /\ r \in v11' \/ \A q \in {r, "workspace"} : v5[q] # None
  BY <1>1 DEF Ms!Select, Ms!Clear, Ms!Early
<1>4. \E it \in Ms!Mutations : \/ v8[r] = Ms!Idle /\ v8' = [v8 EXCEPT ![r] = it] /\ v9' = v9
                               \/ v9[r] = Ms!Idle /\ v9' = [v9 EXCEPT ![r] = it] /\ v8' = v8
  <2>1. ASSUME NEW c \in MsChoices, Ms!Select(r, c)
        PROVE  /\ [at |-> "sent", choice |-> c, awaits |-> {}] \in Ms!Mutations
               /\ v8[r] = Ms!Idle /\ v8' = [v8 EXCEPT ![r] = [at |-> "sent", choice |-> c, awaits |-> {}]] /\ v9' = v9
    BY <2>1 DEF Ms!Select, Ms!Mutations
  <2>2. ASSUME Ms!Clear(r)
        PROVE  /\ [Ms!Idle EXCEPT !.at = "sent"] \in Ms!Mutations
               /\ v9[r] = Ms!Idle /\ v9' = [v9 EXCEPT ![r] = [Ms!Idle EXCEPT !.at = "sent"]] /\ v8' = v8
    BY <2>2 DEF Ms!Clear, Ms!Mutations, Ms!Idle
  <2> QED
    BY <2>1, <2>2
<1>5. /\ v8' \in [MsRoles -> Ms!Mutations] /\ v9' \in [MsRoles -> Ms!Mutations]
      /\ \A s \in MsRoles \ {r} : v8'[s] = v8[s] /\ v9'[s] = v9[s]
  BY <1>1, <1>4, MovedOn
<1>6. "taken" \notin {v8'[r].at, v9'[r].at} => "taken" \notin {v8[r].at, v9[r].at}
  BY <1>1, <1>4 DEF Ms!Idle
<1> QED
  BY <1>1, <1>2, <1>3, <1>5, <1>6, MutationsKeep

\* The server takes a press: what was read before it is no longer so, and is asked again.
LEMMA ServerTakesKeeps ==
    ASSUME Ms!SettingsAssumption, Ms!IInv, NEW r \in MsRoles,
           Ms!ServerSelects(r) \/ Ms!ServerClears(r) \/ Ms!Settles(r) \/ Ms!MutationFails(r)
    PROVE  Ms!IInv'
<1>1. /\ v8 \in [MsRoles -> Ms!Mutations] /\ v9 \in [MsRoles -> Ms!Mutations] /\ v11 \subseteq MsRoles
      /\ v1 \in [MsRoles -> MsChoices \cup {None}]
      /\ v8[r] \in Ms!Mutations /\ v9[r] \in Ms!Mutations /\ v8[r].choice \in MsChoices \cup {None}
  BY DEF Ms!IInv, Ms!TypeOK, Ms!Mutations
<1>2. UNCHANGED <<v2, v3, v4, v5, v6, v7, v10>> /\ v12' \in 0 .. MsMaxActs
  BY DEF Ms!ServerSelects, Ms!ServerClears, Ms!Settles, Ms!MutationFails, Ms!Acts, Ms!world, Ms!page,
     Ms!IInv, Ms!TypeOK, Ms!SettingsAssumption
<1>3. /\ Ms!Idle \in Ms!Mutations /\ [v8[r] EXCEPT !.at = "taken"] \in Ms!Mutations
      /\ [v9[r] EXCEPT !.at = "taken"] \in Ms!Mutations
      /\ Ms!Idle.at = "idle" /\ [v8[r] EXCEPT !.at = "taken"].at = "taken" /\ [v9[r] EXCEPT !.at = "taken"].at = "taken"
  BY <1>1 DEF Ms!Mutations, Ms!Idle
<1>4. /\ v11' \in SUBSET MsRoles /\ v11 \subseteq v11'
      /\ \E it \in Ms!Mutations :
         \/ v8[r].at # "idle" /\ v8' = [v8 EXCEPT ![r] = it] /\ v9' = v9
            /\ (r \in v11' \/ (v8[r].at # "taken" /\ (it.at # "taken" => v1' = v1)))
         \/ v9[r].at # "idle" /\ v9' = [v9 EXCEPT ![r] = it] /\ v8' = v8
            /\ (r \in v11' \/ (v9[r].at # "taken" /\ (it.at # "taken" => v1' = v1)))
  <2>1. CASE Ms!ServerSelects(r)
    <3>1. v8[r].at = "sent" /\ v9' = v9 /\ v11' = v11
      BY <2>1 DEF Ms!ServerSelects
    <3>2. \/ v8' = [v8 EXCEPT ![r] = Ms!Idle] /\ v1' = v1
          \/ v8' = [v8 EXCEPT ![r] = [v8[r] EXCEPT !.at = "taken"]]
      BY <2>1 DEF Ms!ServerSelects
    <3> QED
      BY <1>1, <1>3, <3>1, <3>2
  <2>2. CASE Ms!ServerClears(r)
    <3>1. v9[r].at = "sent" /\ v8' = v8 /\ v11' = v11 /\ v9' = [v9 EXCEPT ![r] = [v9[r] EXCEPT !.at = "taken"]]
      BY <2>2 DEF Ms!ServerClears
    <3> QED
      BY <1>1, <1>3, <3>1
  <2>3. CASE Ms!Settles(r)
    BY <1>1, <1>3, <2>3 DEF Ms!Settles
  <2>4. CASE Ms!MutationFails(r)
    <3>1. v1' = v1
      BY <2>4 DEF Ms!MutationFails
    <3>2. \/ /\ v8[r].at \in {"sent", "taken"} /\ v8' = [v8 EXCEPT ![r] = Ms!Idle] /\ v9' = v9
             /\ v11' = IF v8[r].at = "taken" THEN v11 \cup {r} ELSE v11
          \/ /\ v9[r].at \in {"sent", "taken"} /\ v9' = [v9 EXCEPT ![r] = Ms!Idle] /\ v8' = v8
             /\ v11' = IF v9[r].at = "taken" THEN v11 \cup {r} ELSE v11
      BY <2>4 DEF Ms!MutationFails
    <3> QED
      BY <1>1, <1>3, <3>1, <3>2
  <2> QED
    BY <2>1, <2>2, <2>3, <2>4
<1>5. /\ v8' \in [MsRoles -> Ms!Mutations] /\ v9' \in [MsRoles -> Ms!Mutations]
      /\ \A s \in MsRoles \ {r} : v8'[s] = v8[s] /\ v9'[s] = v9[s]
  BY <1>1, <1>4, MovedOn
<1>6. r \in v11' \/ ("taken" \notin {v8'[r].at, v9'[r].at} => "taken" \notin {v8[r].at, v9[r].at} /\ v1' = v1)
  BY <1>1, <1>4, MovedOn
<1>7. v1' \in [MsRoles -> MsChoices \cup {None}] /\ \A s \in MsRoles \ {r} : v1'[s] = v1[s]
  BY <1>1 DEF Ms!ServerSelects, Ms!ServerClears, Ms!Settles, Ms!MutationFails
<1>8. v8[r].at # "idle" \/ v9[r].at # "idle"
  BY <1>1, <1>4
<1> QED
  BY <1>2, <1>4, <1>5, <1>6, <1>7, <1>8, MutationsKeep

\* The page hears that a choice was made, or a clearing, and reads everything again.
LEMMA TakenKeeps ==
    ASSUME Ms!SettingsAssumption, Ms!IInv, NEW r \in MsRoles, Ms!Selected(r) \/ Ms!Cleared(r)
    PROVE  Ms!IInv'
<1>1. v8 \in [MsRoles -> Ms!Mutations] /\ v9 \in [MsRoles -> Ms!Mutations]
  BY DEF Ms!IInv, Ms!TypeOK
<1>2. UNCHANGED <<v1, v2, v3, v4, v5, v10, v11>> /\ v12' \in 0 .. MsMaxActs /\ Ms!Again(Ms!Queries)
  BY DEF Ms!Selected, Ms!Cleared, Ms!Refresh, Ms!world, Ms!IInv, Ms!TypeOK
<1>3. \E it \in Ms!Mutations : /\ it.at = "read"
                               /\ \/ v8[r].at = "taken" /\ v8' = [v8 EXCEPT ![r] = it] /\ v9' = v9
                                  \/ v9[r].at = "taken" /\ v9' = [v9 EXCEPT ![r] = it] /\ v8' = v8
  <2>1. ASSUME NEW m \in Ms!Mutations
        PROVE  /\ [[m EXCEPT !.at = "read"] EXCEPT !.awaits = Ms!UnderWay'] \in Ms!Mutations
               /\ [[m EXCEPT !.at = "read"] EXCEPT !.awaits = Ms!UnderWay'].at = "read"
    BY DEF Ms!Mutations, Ms!UnderWay
  <2>2. v8[r] \in Ms!Mutations /\ v9[r] \in Ms!Mutations
    BY <1>1
  <2> QED
    BY <2>1, <2>2 DEF Ms!Selected, Ms!Cleared
<1>4. /\ v8' \in [MsRoles -> Ms!Mutations] /\ v9' \in [MsRoles -> Ms!Mutations]
      /\ \A s \in MsRoles \ {r} : v8'[s] = v8[s] /\ v9'[s] = v9[s]
      /\ v8[r].at # "idle" \/ v9[r].at # "idle"
  BY <1>1, <1>3, MovedOn
<1> QED
  BY <1>2, <1>4, AskingKeeps

\* The steps of the settings page (settings-page.tsx).
LEMMA SettingsPreserved ==
    ASSUME Ms!SettingsAssumption, Ms!IInv, Ms!Next \/ UNCHANGED Ms!vars
    PROVE  Ms!IInv'
<1>1. ASSUME NEW q \in Ms!Queries, Ms!ServerReads(q) \/ Ms!Arrives(q) \/ Ms!ReadFails(q)
      PROVE  Ms!IInv'
  BY <1>1, ReadsKeep, EndsKeep
<1>2. ASSUME NEW Q \in SUBSET Ms!Queries, Ms!Again(Q), UNCHANGED <<v1, v2, v3, v4, v5, v8, v9, v10, v11>>, Ms!Acts
      PROVE  Ms!IInv'
  <2>1. v12' \in 0 .. MsMaxActs /\ v8' \in [MsRoles -> Ms!Mutations] /\ v9' \in [MsRoles -> Ms!Mutations]
    BY <1>2 DEF Ms!IInv, Ms!TypeOK, Ms!Acts, Ms!SettingsAssumption
  <2> QED
    BY <1>2, <2>1, AskingKeeps
<1>3. ASSUME NEW q \in Ms!Queries, Ms!TryAgain(q)
      PROVE  Ms!IInv'
  BY <1>2, <1>3 DEF Ms!TryAgain, Ms!world
<1>4. CASE Ms!Recheck
  BY <1>2, <1>4 DEF Ms!Recheck, Ms!Refresh, Ms!world
<1>5. ASSUME NEW r \in MsRoles, \/ \E c \in MsChoices : Ms!Select(r, c)
                                \/ Ms!Clear(r) \/ Ms!ServerSelects(r) \/ Ms!ServerClears(r) \/ Ms!Selected(r)
                                \/ Ms!Cleared(r) \/ Ms!Settles(r) \/ Ms!MutationFails(r)
      PROVE  Ms!IInv'
  BY <1>5, SelectsKeep, ServerTakesKeeps, TakenKeeps
<1>6. ASSUME NEW r \in MsRoles, NEW found \in SUBSET MsChoices, Ms!Type(r, found)
      PROVE  Ms!IInv'
  <2>1. UNCHANGED <<v1, v2, v3, v4, v5, v6, v7, v8, v9, v11>> /\ v12' \in 0 .. MsMaxActs
        /\ v10' \in [MsRoles -> SUBSET MsChoices]
    BY <1>6 DEF Ms!Type, Ms!Acts, Ms!world, Ms!page, Ms!IInv, Ms!TypeOK, Ms!SettingsAssumption
  <2> QED
    BY <2>1 DEF Ms!IInv, Ms!TypeOK, Ms!Readings, Ms!Mutations, Ms!PressesFoundTheReadings,
       Ms!ReadingsFollowTheChoice, Ms!TellsTheChoice
<1>7. ASSUME NEW P \in SUBSET Ms!Providers, NEW C \in SUBSET MsChoices, Ms!ProvidersChange(P, C)
      PROVE  Ms!IInv'
  <2>1. UNCHANGED <<v1, v4, v5, v6, v7, v8, v9, v10, v11>> /\ v12' \in 0 .. MsMaxActs
        /\ v3' \subseteq Ms!Providers /\ v2' \subseteq MsChoices
    BY <1>7 DEF Ms!ProvidersChange, Ms!Acts, Ms!page, Ms!IInv, Ms!TypeOK, Ms!SettingsAssumption
  <2> QED
    BY <2>1 DEF Ms!IInv, Ms!TypeOK, Ms!Readings, Ms!Mutations, Ms!PressesFoundTheReadings,
       Ms!ReadingsFollowTheChoice, Ms!TellsTheChoice
<1>8. CASE UNCHANGED Ms!vars
  BY <1>8 DEF Ms!vars, Ms!world, Ms!page, Ms!IInv, Ms!TypeOK, Ms!Readings, Ms!Mutations,
     Ms!PressesFoundTheReadings, Ms!ReadingsFollowTheChoice, Ms!TellsTheChoice
<1> QED
  BY <1>1, <1>3, <1>4, <1>5, <1>6, <1>7, <1>8 DEF Ms!Next

\* When nothing is under way each role is drawn with the choice the server holds.
LEMMA SettledPageTells ==
    ASSUME Ms!SettingsAssumption, Ms!IInv
    PROVE  Ms!TheSettledPageTellsTheChoice
<1> SUFFICES ASSUME Ms!AtRest, NEW r \in MsRoles \ v11
             PROVE  Ms!Marked(r) \subseteq {v1[r]} /\ Ms!Identity(r) = v1[r]
  BY DEF Ms!TheSettledPageTellsTheChoice
<1>1. \A q \in {r, "workspace"} : v5[q] # None /\ Ms!TellsTheChoice(q, r, v5[q])
  <2>1. "taken" \notin {v8[r].at, v9[r].at}
    BY DEF Ms!AtRest, Ms!Idle
  <2>2. \A q \in {r, "workspace"} : v7[q] = None /\ q \notin v6
    BY DEF Ms!AtRest, Ms!Queries
  <2> QED
    BY <2>1, <2>2 DEF Ms!IInv, Ms!ReadingsFollowTheChoice
<1>2. Ms!Identity(r) = v1[r]
  BY <1>1 DEF Ms!Identity, Ms!TellsTheChoice
<1>3. Ms!Marked(r) \subseteq {v1[r]}
  <2>1. v5[r].offers \subseteq MsChoices /\ v5[r].selected \in {v1[r], None}
    BY <1>1, SettingsTyped DEF Ms!IInv, Ms!Readings, Ms!TellsTheChoice
  <2>2. \A c \in Ms!Marked(r) : c \in v5[r].offers /\ c = v5[r].selected
    BY <1>1 DEF Ms!Marked, Ms!Tiles, Ms!Offered
  <2> QED
    BY <2>1, <2>2 DEF Ms!SettingsAssumption
<1> QED
  BY <1>2, <1>3

(***************************************************************************)
(* Builds and the chunks of a tab                                          *)
(***************************************************************************)

\* The first build is on disk, and in the ledger.
LEMMA GraceInitially == ASSUME Gw!GraceAssumption, Gw!Init PROVE Gw!IInv
<1>1. Gw!TypeOK
  <2>1. v3 \in Seq(SUBSET Gw!Chunks) /\ Len(v3) \in 0 .. Gw!Retained + 1
    <3>1. v3 = <<>> /\ Len(<<>>) = 0 /\ 0 \in 0 .. 1 + 1
      BY DEF Gw!Init
    <3>2. <<>> \in Seq(SUBSET Gw!Chunks)
      OBVIOUS
    <3> QED
      BY <3>1, <3>2 DEF Gw!Retained
  <2>2. v7 \in 0 .. GwMaxBuilds /\ v8 \in 0 .. GwMaxActs
    BY DEF Gw!Init, Gw!GraceAssumption
  <2> QED
    BY <2>1, <2>2 DEF Gw!Init, Gw!TypeOK
<1> QED
  BY <1>1 DEF Gw!Init, Gw!IInv, Gw!TheBuildIsWritten, Gw!TheDocumentIsRecorded, Gw!TabsAreOfTheLedger,
     Gw!TabsOutliveARebuild

\* The newest of a list, and one put before it.
LEMMA FirstOne ==
    ASSUME NEW A, NEW s \in Seq(A)
    PROVE  /\ Gw!FirstOf(s, 1) \in Seq(A) /\ Len(Gw!FirstOf(s, 1)) \in 0 .. 1
           /\ s # <<>> => DOMAIN Gw!FirstOf(s, 1) = {1} /\ Gw!FirstOf(s, 1)[1] = s[1]
<1>1. Len(s) \in Nat /\ (s # <<>> => Len(s) # 0 /\ s[1] \in A)
  OBVIOUS
<1>2. CASE Len(s) > 1
  <2>1. Gw!FirstOf(s, 1) = SubSeq(s, 1, 1)
    BY <1>1, <1>2 DEF Gw!FirstOf
  <2>2. SubSeq(s, 1, 1) \in Seq(A) /\ Len(SubSeq(s, 1, 1)) = 1 /\ SubSeq(s, 1, 1)[1] = s[1]
    BY <1>1, <1>2
  <2>3. DOMAIN SubSeq(s, 1, 1) = {1}
    BY <2>2
  <2>4. 1 \in 0 .. 1
    OBVIOUS
  <2> QED
    BY <2>1, <2>2, <2>3, <2>4
<1>3. CASE ~ (Len(s) > 1)
  <2>1. Gw!FirstOf(s, 1) = SubSeq(s, 1, Len(s)) /\ Len(s) \in 0 .. 1
    BY <1>1, <1>3 DEF Gw!FirstOf
  <2>2. Gw!FirstOf(s, 1) = s
    BY <2>1
  <2> QED
    BY <1>1, <2>1, <2>2
<1> QED
  BY <1>2, <1>3

\* The ledger has one build or two.
LEMMA OneOrTwo ==
    ASSUME NEW n \in Nat, n >= 1, ~ (n > 2)
    PROVE  n \in 0 .. 2 /\ ~ (2 < n)
OBVIOUS

\* A build is put first in the ledger and the one before it is kept.
LEMMA PutFirst ==
    ASSUME NEW A, NEW e \in A, NEW s \in Seq(A)
    PROVE  /\ Gw!FirstOf(<<e>> \o s, 2) \in Seq(A) /\ Len(Gw!FirstOf(<<e>> \o s, 2)) \in 0 .. 2
           /\ Gw!FirstOf(<<e>> \o s, 2) # <<>> /\ Gw!FirstOf(<<e>> \o s, 2)[1] = e
<1> DEFINE w == <<e>> \o s
<1>0. SUFFICES /\ Gw!FirstOf(w, 2) \in Seq(A) /\ Len(Gw!FirstOf(w, 2)) \in 0 .. 2
               /\ Gw!FirstOf(w, 2) # <<>> /\ Gw!FirstOf(w, 2)[1] = e
  OBVIOUS
<1>1. w \in Seq(A) /\ Len(w) \in Nat /\ Len(w) >= 1 /\ w[1] = e
  OBVIOUS
<1> HIDE DEF w
<1>2. CASE Len(w) > 2
  <2>1. Gw!FirstOf(w, 2) = SubSeq(w, 1, 2)
    BY <1>1, <1>2 DEF Gw!FirstOf
  <2>2. SubSeq(w, 1, 2) \in Seq(A) /\ Len(SubSeq(w, 1, 2)) = 2 /\ SubSeq(w, 1, 2)[1] = w[1]
    BY <1>1, <1>2
  <2>3. SubSeq(w, 1, 2) # <<>> /\ 2 \in 0 .. 2
    <3>1. SubSeq(w, 1, 2) = <<>> => Len(SubSeq(w, 1, 2)) = 0
      BY NothingIn
    <3>2. 2 \in 0 .. 2 /\ 2 # 0
      OBVIOUS
    <3> QED
      BY <2>2, <3>1, <3>2
  <2> QED
    BY <1>1, <2>1, <2>2, <2>3
<1>3. CASE ~ (Len(w) > 2)
  <2>0. Len(w) \in 0 .. 2 /\ ~ (2 < Len(w))
    BY <1>1, <1>3, OneOrTwo
  <2>1. Gw!FirstOf(w, 2) = SubSeq(w, 1, Len(w))
    BY <2>0 DEF Gw!FirstOf
  <2>2. Gw!FirstOf(w, 2) = w
    BY <1>1, <2>1
  <2>3. w # <<>> /\ Len(w) \in 0 .. 2
    <3>1. Len(w) # 0
      BY <1>1
    <3> QED
      BY <1>1, <2>0, <3>1
  <2> QED
    BY <1>1, <2>2, <2>3
<1> QED
  BY <1>2, <1>3

\* The facts of the type that the steps below use.
LEMMA GraceTyped ==
    ASSUME Gw!GraceAssumption, Gw!TypeOK
    PROVE  /\ v1 \subseteq Gw!Chunks /\ v2 \in GwSources \cup {None} /\ v4 \in BOOLEAN
           /\ v3 \in Seq(SUBSET Gw!Chunks) /\ Len(v3) \in 0 .. 2
           /\ v5 \in {Gw!Idle} \cup Gw!Builds /\ v6 \in [GwTabs -> {Gw!Closed} \cup Gw!Views]
           /\ v7 \in 0 .. GwMaxBuilds /\ GwMaxBuilds \in Nat
           /\ \A s \in GwSources : GwEmits[s] \subseteq Gw!Chunks
  BY DEF Gw!TypeOK, Gw!GraceAssumption, Gw!Chunks, Gw!Retained

\* What a tab shows of an open document.
LEMMA ViewsAreOpen ==
    /\ Gw!Closed \notin Gw!Views
    /\ Gw!Idle \notin Gw!Builds
  BY DEF Gw!Closed, Gw!Views, Gw!Idle, Gw!Builds

\* What may be said of one tab.
Keeps(v) ==
    v # Gw!Closed /\ v.whole /\ ~v.spent =>
        /\ v.refused = {} /\ GwEmits[v.of] \subseteq v1 /\ v.at # "chunk"
        /\ IF v.behind = 0 THEN Gw!Newest(v.of) ELSE v5 = Gw!Idle

\* A tab that does not move keeps its chunks while no chunk of the ledger goes.
LEMMA TabsKept ==
    (\A t \in GwTabs : Keeps(v6[t])) <=> Gw!TabsAreOfTheLedger /\ Gw!TabsOutliveARebuild
BY DEF Keeps, Gw!TabsAreOfTheLedger, Gw!TabsOutliveARebuild

\* Each tab moves to one that is open or closed, and of which as much may be said.
LEMMA TabsKeep ==
    ASSUME Gw!GraceAssumption, Gw!IInv,
           UNCHANGED <<v1, v2, v3, v4, v5, v7>>, v8' \in 0 .. GwMaxActs,
           NEW t \in GwTabs, NEW new \in {Gw!Closed} \cup Gw!Views, v6' = [v6 EXCEPT ![t] = new], Keeps(new)
    PROVE  Gw!IInv'
<1>1. v6' \in [GwTabs -> {Gw!Closed} \cup Gw!Views] /\ \A u \in GwTabs : v6'[u] = IF u = t THEN new ELSE v6[u]
  BY DEF Gw!IInv, Gw!TypeOK
<1>2. \A u \in GwTabs : Keeps(v6'[u])
  BY <1>1, TabsKept DEF Gw!IInv
<1>3. \A u \in GwTabs : Keeps(v6[u])'
  BY <1>2 DEF Keeps, Gw!Newest
<1>4. Gw!TabsAreOfTheLedger' /\ Gw!TabsOutliveARebuild'
  BY <1>3 DEF Keeps, Gw!TabsAreOfTheLedger, Gw!TabsOutliveARebuild
<1> QED
  BY <1>1, <1>4 DEF Gw!IInv, Gw!TypeOK, Gw!TheBuildIsWritten, Gw!TheDocumentIsRecorded, Gw!Newest

\* What is drawn where a tab stands: of a tab that was refused nothing and whose chunks are all
\* there, the screen.
LEMMA DrawnKeeps ==
    ASSUME Gw!GraceAssumption, Gw!IInv, NEW v \in {Gw!Closed} \cup Gw!Views, Keeps(v)
    PROVE  Gw!Drawn(v) \in {Gw!Closed} \cup Gw!Views /\ Keeps(Gw!Drawn(v))
<1>1. CASE v = Gw!Closed \/ Gw!Needed(v) = None \/ Gw!Needed(v) \in v1 \ v.refused
  <2>1. Gw!Drawn(v) = v
    BY <1>1 DEF Gw!Drawn
  <2> QED
    BY <2>1
<1>2. CASE v # Gw!Closed /\ Gw!Needed(v) # None /\ Gw!Needed(v) \notin v1 \ v.refused
  <2> DEFINE w == [v EXCEPT !.at = "chunk", !.refused = v.refused \cup {Gw!Needed(v)}]
  <2>1. Gw!Drawn(v) = w
    BY <1>2 DEF Gw!Drawn
  <2>2. v \in Gw!Views
    BY <1>2
  <2>3. v.of \in GwSources /\ v.route \in GwRoutes
    BY <2>2 DEF Gw!Views
  <2>4. Gw!Needed(v) \in GwEmits[v.of] /\ Gw!Needed(v) \in Gw!Chunks
    BY <1>2, <2>3 DEF Gw!Needed, Gw!GraceAssumption, Gw!Chunks
  <2>5. ~ (v.whole /\ ~v.spent)
    BY <1>2, <2>4 DEF Keeps
  <2>6. w \in Gw!Views /\ w.whole = v.whole /\ w.spent = v.spent
    BY <2>2, <2>4 DEF Gw!Views
  <2> QED
    BY <2>1, <2>5, <2>6 DEF Keeps
<1> QED
  BY <1>1, <1>2

\* A tab that is served the document on disk is of the newest build.
LEMMA ServedKeeps ==
    ASSUME Gw!GraceAssumption, Gw!IInv, NEW r \in GwRoutes
    PROVE  Gw!Served(r) \in {Gw!Closed} \cup Gw!Views /\ Keeps(Gw!Served(r))
<1>1. CASE v2 = None
  BY <1>1 DEF Gw!Served, Keeps
<1>2. CASE v2 # None
  <2> DEFINE w == [at |-> "screen", of |-> v2, route |-> r, refused |-> {}, whole |-> v4, behind |-> 0, spent |-> FALSE]
  <2>1. Gw!Served(r) = w
    BY <1>2 DEF Gw!Served
  <2>2. v2 \in GwSources /\ v4 \in BOOLEAN /\ GwMaxBuilds \in Nat
    BY <1>2, GraceTyped DEF Gw!IInv
  <2>3. w \in Gw!Views
    BY <2>2 DEF Gw!Views
  <2>4. v4 => GwEmits[v2] \subseteq v1 /\ Gw!Newest(v2)
    BY DEF Gw!IInv, Gw!TheDocumentIsRecorded
  <2>5. Keeps(w)
    BY <2>4 DEF Keeps
  <2> QED
    BY <2>1, <2>3, <2>5
<1> QED
  BY <1>1, <1>2

\* The steps of the tabs: opened, reloaded, walked to another route, closed.
LEMMA TabStepsKeep ==
    ASSUME Gw!GraceAssumption, Gw!IInv, NEW t \in GwTabs,
           (\E r \in GwRoutes : Gw!Loads(t, r) \/ Gw!Walks(t, r)) \/ Gw!Throws(t) \/ Gw!TryAgain(t) \/ Gw!Reload(t)
    PROVE  Gw!IInv'
<1>1. UNCHANGED <<v1, v2, v3, v4, v5, v7>> /\ v8' \in 0 .. GwMaxActs
  <2>1. UNCHANGED <<v1, v2, v3, v4, v5, v7>> /\ (v8' = v8 \/ (v8 < GwMaxActs /\ v8' = v8 + 1))
    BY DEF Gw!Loads, Gw!Walks, Gw!Throws, Gw!TryAgain, Gw!Reload, Gw!Acts, Gw!disk
  <2>2. v8 \in 0 .. GwMaxActs /\ GwMaxActs \in Nat
    BY DEF Gw!IInv, Gw!TypeOK, Gw!GraceAssumption
  <2> QED
    BY <2>1, <2>2
<1>2. Keeps(v6[t]) /\ v6[t] \in {Gw!Closed} \cup Gw!Views
  BY TabsKept DEF Gw!IInv, Gw!TypeOK
<1>3. ASSUME NEW a \in {"screen", "fault"}, NEW r \in GwRoutes, v6[t] # Gw!Closed
      PROVE  /\ [v6[t] EXCEPT !.at = a] \in Gw!Views /\ Keeps([v6[t] EXCEPT !.at = a])
             /\ [v6[t] EXCEPT !.route = r, !.at = a] \in Gw!Views /\ Keeps([v6[t] EXCEPT !.route = r, !.at = a])
  <2>1. v6[t] \in Gw!Views
    BY <1>2, <1>3
  <2>2. ASSUME NEW w \in Gw!Views, w.at = a, w.of = v6[t].of, w.refused = v6[t].refused, w.whole = v6[t].whole,
               w.behind = v6[t].behind, w.spent = v6[t].spent
        PROVE  Keeps(w)
    BY <1>2, <1>3, <2>2 DEF Keeps
  <2>3. [v6[t] EXCEPT !.at = a] \in Gw!Views /\ [v6[t] EXCEPT !.route = r, !.at = a] \in Gw!Views
    BY <2>1 DEF Gw!Views
  <2>4. Keeps([v6[t] EXCEPT !.at = a])
    BY <2>1, <2>2, <2>3 DEF Gw!Views
  <2>5. Keeps([v6[t] EXCEPT !.route = r, !.at = a])
    BY <2>1, <2>2, <2>3 DEF Gw!Views
  <2> QED
    BY <2>3, <2>4, <2>5
<1>4. \E new \in {Gw!Closed} \cup Gw!Views : v6' = [v6 EXCEPT ![t] = new] /\ Keeps(new)
  <2>1. ASSUME NEW r \in GwRoutes, Gw!Loads(t, r)
        PROVE  v6' = [v6 EXCEPT ![t] = Gw!Drawn(Gw!Served(r))]
    BY <2>1 DEF Gw!Loads
  <2>2. ASSUME NEW r \in GwRoutes, Gw!Walks(t, r)
        PROVE  v6[t] # Gw!Closed /\ v6' = [v6 EXCEPT ![t] = Gw!Drawn([v6[t] EXCEPT !.route = r, !.at = "screen"])]
    BY <2>2 DEF Gw!Walks
  <2>3. ASSUME Gw!Throws(t)
        PROVE  v6[t] # Gw!Closed /\ v6' = [v6 EXCEPT ![t] = [v6[t] EXCEPT !.at = "fault"]]
    BY <2>3 DEF Gw!Throws
  <2>4. ASSUME Gw!TryAgain(t)
        PROVE  v6[t] # Gw!Closed /\ v6' = [v6 EXCEPT ![t] = Gw!Drawn([v6[t] EXCEPT !.at = "screen"])]
    BY <2>4 DEF Gw!TryAgain, Gw!Closed
  <2>5. ASSUME Gw!Reload(t)
        PROVE  v6[t].route \in GwRoutes /\ v6' = [v6 EXCEPT ![t] = Gw!Drawn(Gw!Served(v6[t].route))]
    BY <1>2, <2>5 DEF Gw!Reload, Gw!Closed, Gw!Views
  <2>6. ASSUME NEW r \in GwRoutes
        PROVE  Gw!Drawn(Gw!Served(r)) \in {Gw!Closed} \cup Gw!Views /\ Keeps(Gw!Drawn(Gw!Served(r)))
    BY ServedKeeps, DrawnKeeps
  <2>7. ASSUME NEW w \in Gw!Views, Keeps(w)
        PROVE  Gw!Drawn(w) \in {Gw!Closed} \cup Gw!Views /\ Keeps(Gw!Drawn(w))
    BY <2>7, DrawnKeeps
  <2>8. CASE \E r \in GwRoutes : Gw!Loads(t, r)
    BY <2>1, <2>6, <2>8
  <2>9. CASE \E r \in GwRoutes : Gw!Walks(t, r)
    BY <1>3, <2>2, <2>7, <2>9
  <2>10. CASE Gw!Throws(t)
    <3>1. \E r \in GwRoutes : TRUE
      BY <1>2, <2>3, <2>10 DEF Gw!Views
    <3> QED
      BY <1>3, <2>3, <2>10, <3>1
  <2>11. CASE Gw!TryAgain(t)
    <3>1. \E r \in GwRoutes : TRUE
      BY <1>2, <2>4, <2>11 DEF Gw!Views
    <3> QED
      BY <1>3, <2>4, <2>7, <2>11, <3>1
  <2>12. CASE Gw!Reload(t)
    BY <2>5, <2>6, <2>12
  <2> QED
    BY <2>8, <2>9, <2>10, <2>11, <2>12
<1> QED
  BY <1>1, <1>4, TabsKeep

\* A build begins: what it retains is what the newest build of the ledger wrote, which is what a
\* tab of that build may still ask for; a tab that was a build behind is past its window.
LEMMA BuildStartKeeps ==
    ASSUME Gw!GraceAssumption, Gw!IInv, NEW s \in GwSources, Gw!BuildStart(s)
    PROVE  Gw!IInv'
<1> DEFINE kept == Gw!FirstOf(v3, 1)
           new == [at |-> "emitting", of |-> s, retained |-> kept, left |-> GwEmits[s], written |-> FALSE]
<1>1. /\ v5 = Gw!Idle /\ v7 < GwMaxBuilds /\ v7' = v7 + 1 /\ v5' = new /\ v2' = None /\ v4' = FALSE
      /\ v1' = v1 \cap Gw!Flat(kept) /\ UNCHANGED <<v3, v8>>
      /\ v6' = [t \in GwTabs |-> IF v6[t] # Gw!Closed /\ v6[t].behind > 0
                                 THEN [v6[t] EXCEPT !.spent = TRUE] ELSE v6[t]]
  BY DEF Gw!BuildStart, Gw!Retained
<1>2. v3 \in Seq(SUBSET Gw!Chunks) /\ GwEmits[s] \subseteq Gw!Chunks /\ v7 \in 0 .. GwMaxBuilds /\ GwMaxBuilds \in Nat
      /\ v6 \in [GwTabs -> {Gw!Closed} \cup Gw!Views]
  BY GraceTyped DEF Gw!IInv
<1>3. /\ kept \in Seq(SUBSET Gw!Chunks)
      /\ v3 # <<>> => DOMAIN kept = {1} /\ kept[1] = v3[1]
  BY <1>2, FirstOne
<1> HIDE DEF kept
<1>4. v3 # <<>> => v3[1] \subseteq Gw!Flat(kept)
  BY <1>3 DEF Gw!Flat
<1>5. new \in Gw!Builds /\ new # Gw!Idle
  BY <1>2, <1>3 DEF Gw!Builds, Gw!Idle
<1>6. \A t \in GwTabs : /\ v6'[t] \in {Gw!Closed} \cup Gw!Views
                        /\ v6'[t] # Gw!Closed /\ v6'[t].whole /\ ~v6'[t].spent
                               => v6'[t] = v6[t] /\ v6[t].behind = 0
  <2> TAKE t \in GwTabs
  <2>1. v6[t] = Gw!Closed \/ (v6[t] \in Gw!Views /\ v6[t].behind \in Nat)
    BY <1>2 DEF Gw!Views
  <2>2. CASE v6[t] # Gw!Closed /\ v6[t].behind > 0
    <3>1. v6'[t] = [v6[t] EXCEPT !.spent = TRUE]
      BY <1>1, <2>2
    <3>2. [v6[t] EXCEPT !.spent = TRUE] \in Gw!Views /\ [v6[t] EXCEPT !.spent = TRUE].spent
      BY <2>1, <2>2 DEF Gw!Views
    <3> QED
      BY <3>1, <3>2
  <2>3. CASE ~ (v6[t] # Gw!Closed /\ v6[t].behind > 0)
    <3>1. v6'[t] = v6[t]
      BY <1>1, <2>3
    <3>2. v6[t] # Gw!Closed => v6[t].behind = 0
      BY <1>2, <2>1, <2>3
    <3> QED
      BY <1>2, <3>1, <3>2
  <2> QED
    BY <2>2, <2>3
<1>7. \A t \in GwTabs : Keeps(v6[t])'
  <2> TAKE t \in GwTabs
  <2> SUFFICES ASSUME v6'[t] # Gw!Closed, v6'[t].whole, ~v6'[t].spent
               PROVE  /\ v6'[t].refused = {} /\ GwEmits[v6'[t].of] \subseteq v1' /\ v6'[t].at # "chunk"
                      /\ v6'[t].behind = 0 /\ v3 # <<>> /\ v3[1] = GwEmits[v6'[t].of]
    BY <1>1 DEF Keeps, Gw!Newest, Gw!Closed
  <2>1. v6'[t] = v6[t] /\ v6[t].behind = 0
    BY <1>6
  <2>2. /\ v6[t].refused = {} /\ GwEmits[v6[t].of] \subseteq v1 /\ v6[t].at # "chunk"
        /\ v3 # <<>> /\ v3[1] = GwEmits[v6[t].of]
    BY <2>1, TabsKept DEF Gw!IInv, Keeps, Gw!Newest
  <2> QED
    BY <1>1, <1>4, <2>1, <2>2
<1>8. Gw!TabsAreOfTheLedger' /\ Gw!TabsOutliveARebuild'
  BY <1>7 DEF Keeps, Gw!TabsAreOfTheLedger, Gw!TabsOutliveARebuild
<1>9. Gw!TheBuildIsWritten' /\ Gw!TheDocumentIsRecorded'
  BY <1>1 DEF Gw!TheBuildIsWritten, Gw!TheDocumentIsRecorded
<1>10. Gw!TypeOK'
  <2>1. v7' \in 0 .. GwMaxBuilds
    BY <1>1, <1>2
  <2>2. v6' \in [GwTabs -> {Gw!Closed} \cup Gw!Views]
    BY <1>1, <1>6
  <2>3. v5' \in {Gw!Idle} \cup Gw!Builds /\ v5'.left \subseteq GwEmits[v5'.of]
    BY <1>1, <1>5
  <2> QED
    BY <1>1, <2>1, <2>2, <2>3 DEF Gw!IInv, Gw!TypeOK
<1> QED
  BY <1>8, <1>9, <1>10 DEF Gw!IInv

\* A build writes: there is more on disk, and no tab is any worse for it.
LEMMA WritesKeep ==
    ASSUME Gw!GraceAssumption, Gw!IInv, (\E c \in Gw!Chunks : Gw!EmitChunk(c)) \/ Gw!WriteIndex \/ Gw!Interrupted
    PROVE  Gw!IInv'
<1>1. /\ v5 # Gw!Idle /\ v5 \in Gw!Builds /\ ~v4 /\ v1 \subseteq Gw!Chunks
      /\ UNCHANGED <<v3, v4, v6, v7, v8>>
  BY GraceTyped DEF Gw!IInv, Gw!TheDocumentIsRecorded, Gw!EmitChunk, Gw!WriteIndex, Gw!Interrupted, Gw!disk
<1>2. v1 \subseteq v1' /\ v1' \subseteq Gw!Chunks
  BY <1>1 DEF Gw!EmitChunk, Gw!WriteIndex, Gw!Interrupted, Gw!disk
<1>3. \A t \in GwTabs : Keeps(v6[t])'
  <2> TAKE t \in GwTabs
  <2>1. Keeps(v6[t])
    BY TabsKept DEF Gw!IInv
  <2> QED
    BY <1>1, <1>2, <2>1 DEF Keeps, Gw!Newest, Gw!Closed
<1>4. Gw!TabsAreOfTheLedger' /\ Gw!TabsOutliveARebuild'
  BY <1>3 DEF Keeps, Gw!TabsAreOfTheLedger, Gw!TabsOutliveARebuild
<1>5. Gw!TheDocumentIsRecorded'
  BY <1>1 DEF Gw!TheDocumentIsRecorded
<1>6. /\ v5' \in {Gw!Idle} \cup Gw!Builds /\ v2' \in GwSources \cup {None}
      /\ v5' # Gw!Idle => /\ v5'.left \subseteq GwEmits[v5'.of] /\ GwEmits[v5'.of] \ v5'.left \subseteq v1'
                          /\ v5'.written => v2' = v5'.of
  <2>1. /\ v5.left \subseteq GwEmits[v5.of] /\ GwEmits[v5.of] \ v5.left \subseteq v1 /\ (v5.written => v2 = v5.of)
        /\ v5.of \in GwSources /\ v2 \in GwSources \cup {None}
    BY <1>1 DEF Gw!IInv, Gw!TypeOK, Gw!TheBuildIsWritten, Gw!Builds
  <2>2. ASSUME NEW c \in Gw!Chunks, Gw!EmitChunk(c)
        PROVE  /\ v5' \in Gw!Builds /\ v5'.left = v5.left \ {c} /\ v5'.of = v5.of /\ v5'.written = v5.written
               /\ v2' = v2 /\ v1' = v1 \cup {c}
    BY <1>1, <2>2 DEF Gw!EmitChunk, Gw!Builds
  <2>3. ASSUME Gw!WriteIndex
        PROVE  v5' \in Gw!Builds /\ v5'.left = v5.left /\ v5'.of = v5.of /\ v2' = v5.of /\ v1' = v1
    BY <1>1, <2>3 DEF Gw!WriteIndex, Gw!Builds
  <2>4. CASE Gw!Interrupted
    BY <2>1, <2>4 DEF Gw!Interrupted, Gw!disk
  <2>5. CASE Gw!WriteIndex
    BY <2>1, <2>3, <2>5
  <2>6. CASE \E c \in Gw!Chunks : Gw!EmitChunk(c)
    BY <2>1, <2>2, <2>6
  <2> QED
    BY <2>4, <2>5, <2>6
<1>7. Gw!TypeOK'
  BY <1>1, <1>2, <1>6 DEF Gw!IInv, Gw!TypeOK
<1>8. Gw!TheBuildIsWritten'
  BY <1>6 DEF Gw!TheBuildIsWritten, Gw!Idle
<1> QED
  BY <1>4, <1>5, <1>7, <1>8 DEF Gw!IInv

\* A build ends: its document is the newest of the ledger, and every tab is a build further behind.
LEMMA WriteBundleKeeps ==
    ASSUME Gw!GraceAssumption, Gw!IInv, Gw!WriteBundle
    PROVE  Gw!IInv'
<1>1. /\ v5 # Gw!Idle /\ v5.left = {} /\ v5.written /\ v3' = Gw!FirstOf(<<GwEmits[v5.of]>> \o v5.retained, 2)
      /\ v5' = Gw!Idle /\ v4' = TRUE /\ UNCHANGED <<v1, v2, v7, v8>>
      /\ v6' = [t \in GwTabs |-> IF v6[t] = Gw!Closed THEN Gw!Closed ELSE [v6[t] EXCEPT !.behind = v6[t].behind + 1]]
  BY DEF Gw!WriteBundle, Gw!Fresh, Gw!Retained
<1>2. v5 \in Gw!Builds /\ v6 \in [GwTabs -> {Gw!Closed} \cup Gw!Views]
  BY <1>1, GraceTyped DEF Gw!IInv
<1>3. v5.of \in GwSources /\ v5.retained \in Seq(SUBSET Gw!Chunks) /\ GwEmits[v5.of] \in SUBSET Gw!Chunks
  BY <1>2, GraceTyped DEF Gw!IInv, Gw!Builds
<1>4. v3' \in Seq(SUBSET Gw!Chunks) /\ Len(v3') \in 0 .. 2 /\ v3' # <<>> /\ v3'[1] = GwEmits[v5.of]
  <2> DEFINE e == GwEmits[v5.of]
             kept == v5.retained
  <2> HIDE DEF e, kept
  <2>1. e \in SUBSET Gw!Chunks /\ kept \in Seq(SUBSET Gw!Chunks)
    BY <1>3 DEF e, kept
  <2>2. v3' = Gw!FirstOf(<<e>> \o kept, 2)
    BY <1>1 DEF e, kept
  <2>3. v3' \in Seq(SUBSET Gw!Chunks) /\ Len(v3') \in 0 .. 2 /\ v3' # <<>> /\ v3'[1] = e
    BY <2>1, <2>2, PutFirst
  <2> QED
    BY <2>3 DEF e
<1>5. v2 = v5.of /\ GwEmits[v5.of] \subseteq v1
  BY <1>1 DEF Gw!IInv, Gw!TheBuildIsWritten
<1>6. Gw!TheDocumentIsRecorded' /\ Gw!TheBuildIsWritten'
  <2>1. v2' = v5.of /\ v2' # None
    BY <1>1, <1>3, <1>5 DEF Gw!GraceAssumption
  <2>2. GwEmits[v2'] \subseteq v1' /\ v3' # <<>> /\ v3'[1] = GwEmits[v2']
    BY <1>1, <1>4, <1>5, <2>1
  <2> QED
    BY <1>1, <2>1, <2>2 DEF Gw!TheDocumentIsRecorded, Gw!TheBuildIsWritten, Gw!Newest, Gw!Idle
<1>7. ASSUME NEW t \in GwTabs
      PROVE  v6'[t] \in {Gw!Closed} \cup Gw!Views /\ Keeps(v6[t])'
  <2>1. CASE v6[t] = Gw!Closed
    <3>1. v6'[t] = Gw!Closed
      BY <1>1, <2>1
    <3> QED
      BY <3>1 DEF Keeps, Gw!Closed
  <2>2. CASE v6[t] # Gw!Closed
    <3> DEFINE w == [v6[t] EXCEPT !.behind = v6[t].behind + 1]
    <3>1. v6'[t] = w /\ v6[t] \in Gw!Views /\ v6[t].behind \in Nat
      BY <1>1, <1>2, <2>2 DEF Gw!Views
    <3>2. /\ w \in Gw!Views /\ w.at = v6[t].at /\ w.of = v6[t].of /\ w.refused = v6[t].refused
          /\ w.whole = v6[t].whole /\ w.spent = v6[t].spent /\ w.behind = v6[t].behind + 1
      BY <3>1 DEF Gw!Views
    <3> HIDE DEF w
    <3>3. w.behind # 0
      BY <3>1, <3>2
    <3>4. Keeps(v6[t])
      BY TabsKept DEF Gw!IInv
    <3> QED
      BY <1>1, <2>2, <3>1, <3>2, <3>3, <3>4 DEF Keeps, Gw!Closed, Gw!Idle
  <2> QED
    BY <2>1, <2>2
<1>8. Gw!TabsAreOfTheLedger' /\ Gw!TabsOutliveARebuild'
  BY <1>7 DEF Keeps, Gw!TabsAreOfTheLedger, Gw!TabsOutliveARebuild
<1>9. Gw!TypeOK'
  <2>1. v6' \in [GwTabs -> {Gw!Closed} \cup Gw!Views]
    BY <1>1, <1>7
  <2>2. Len(v3') \in 0 .. Gw!Retained + 1
    <3>1. 1 + 1 = 2
      OBVIOUS
    <3> QED
      BY <1>4, <3>1 DEF Gw!Retained
  <2> QED
    BY <1>1, <1>4, <2>1, <2>2 DEF Gw!IInv, Gw!TypeOK, Gw!Idle
<1> QED
  BY <1>6, <1>8, <1>9 DEF Gw!IInv

\* What was promised to the tabs goes with the ledger.
LEMMA LedgerLostKeeps ==
    ASSUME Gw!GraceAssumption, Gw!IInv, Gw!LedgerLost
    PROVE  Gw!IInv'
<1>1. /\ v3' = <<>> /\ v5 = Gw!Idle /\ v4' = FALSE /\ UNCHANGED <<v1, v2, v5, v7, v8>>
      /\ v6' = [t \in GwTabs |-> IF v6[t] = Gw!Closed THEN Gw!Closed ELSE [v6[t] EXCEPT !.whole = FALSE]]
  BY DEF Gw!LedgerLost
<1>2. v6 \in [GwTabs -> {Gw!Closed} \cup Gw!Views]
  BY GraceTyped DEF Gw!IInv
<1>3. ASSUME NEW t \in GwTabs
      PROVE  v6'[t] \in {Gw!Closed} \cup Gw!Views /\ (v6'[t] = Gw!Closed \/ ~v6'[t].whole)
  <2>1. CASE v6[t] = Gw!Closed
    BY <1>1, <2>1
  <2>2. CASE v6[t] # Gw!Closed
    <3>1. v6[t] \in Gw!Views /\ v6'[t] = [v6[t] EXCEPT !.whole = FALSE]
      BY <1>1, <1>2, <2>2
    <3>2. [v6[t] EXCEPT !.whole = FALSE] \in Gw!Views /\ ~ [v6[t] EXCEPT !.whole = FALSE].whole
      BY <3>1 DEF Gw!Views
    <3> QED
      BY <3>1, <3>2
  <2> QED
    BY <2>1, <2>2
<1>4. Gw!TabsAreOfTheLedger' /\ Gw!TabsOutliveARebuild'
  BY <1>3 DEF Gw!TabsAreOfTheLedger, Gw!TabsOutliveARebuild, Gw!Closed
<1>5. Gw!TypeOK'
  <2>1. v6' \in [GwTabs -> {Gw!Closed} \cup Gw!Views]
    BY <1>1, <1>3
  <2>2. v3' \in Seq(SUBSET Gw!Chunks) /\ Len(v3') \in 0 .. Gw!Retained + 1
    <3>1. Len(v3') = 0 /\ 0 \in 0 .. 1 + 1 /\ v3' \in Seq(SUBSET Gw!Chunks)
      BY <1>1
    <3> QED
      BY <3>1 DEF Gw!Retained
  <2> QED
    BY <1>1, <2>1, <2>2 DEF Gw!IInv, Gw!TypeOK
<1> QED
  BY <1>1, <1>4, <1>5 DEF Gw!IInv, Gw!TheBuildIsWritten, Gw!TheDocumentIsRecorded, Gw!Idle

\* The steps of the builds and of the tabs (grace-window.ts, error-boundary.tsx).
LEMMA GracePreserved ==
    ASSUME Gw!GraceAssumption, Gw!IInv, Gw!Next \/ UNCHANGED Gw!vars
    PROVE  Gw!IInv'
<1>1. CASE UNCHANGED Gw!vars
  BY <1>1 DEF Gw!vars, Gw!disk, Gw!IInv, Gw!TypeOK, Gw!TheBuildIsWritten, Gw!TheDocumentIsRecorded, Gw!Newest,
     Gw!TabsAreOfTheLedger, Gw!TabsOutliveARebuild
<1>2. ASSUME NEW s \in GwSources, NEW c \in GwEmits[s], Gw!EmitChunk(c)
      PROVE  Gw!IInv'
  <2>1. c \in Gw!Chunks
    BY GraceTyped DEF Gw!IInv
  <2> QED
    BY <1>2, <2>1, WritesKeep
<1>3. CASE Gw!WriteIndex \/ Gw!Interrupted
  BY <1>3, WritesKeep
<1> QED
  BY <1>1, <1>2, <1>3, BuildStartKeeps, WriteBundleKeeps, LedgerLostKeeps, TabStepsKeep DEF Gw!Next

\* A tab of the document on disk that is not excepted is refused nothing.
LEMMA DocumentWhole ==
    ASSUME Gw!IInv
    PROVE  Gw!TheDocumentIsWhole
  BY DEF Gw!IInv, Gw!TheDocumentIsRecorded, Gw!TabsOutliveARebuild, Gw!TheDocumentIsWhole

(***************************************************************************)
(* The shell                                                               *)
(***************************************************************************)

\* What the shell filters its lists with is the filter of Lists.
LEMMA WithinOfTheShell ==
    ASSUME NEW s, NEW S
    PROVE  As!Within(s, S) = Within(s, S)
BY DEF As!Within, Within

\* What is left of a list of one, and of one that holds what is looked for.
LEMMA NoneLeft ==
    ASSUME NEW A, NEW s \in Seq(A), NEW S, \A i \in 1 .. Len(s) : s[i] \notin S
    PROVE  Within(s, S) = <<>>
<1> DEFINE w == Within(s, S)
<1>1. /\ w \in Seq(A) /\ Len(w) \in Nat
      /\ \E h \in [1 .. Len(w) -> 1 .. Len(s)] : \A k \in 1 .. Len(w) : w[k] = s[h[k]] /\ s[h[k]] \in S
  BY WithinTheList
<1> HIDE DEF w
<1>2. ~ \E k \in 1 .. Len(w) : TRUE
  BY <1>1
<1>3. Len(w) = 0
  BY <1>1, <1>2
<1>4. w = <<>>
  BY <1>1, <1>3, NothingLeft
<1> QED
  BY <1>4 DEF w

\* A list of one thing that is looked for is left as it was.
LEMMA OneLeft ==
    ASSUME NEW A, NEW s \in Seq(A), Len(s) = 1, NEW S, s[1] \in S
    PROVE  Within(s, S) = s
<1> DEFINE w == Within(s, S)
<1>1. w \in Seq(A) /\ Len(w) \in Nat /\ Len(w) <= Len(s)
  BY WithinTheList
<1>2. PICK h \in [1 .. Len(w) -> 1 .. Len(s)] :
               /\ \A k \in 1 .. Len(w) : w[k] = s[h[k]] /\ s[h[k]] \in S
               /\ \A i \in 1 .. Len(s) : s[i] \in S => \E k \in 1 .. Len(w) : h[k] = i
  BY WithinTheList
<1> HIDE DEF w
<1>3. PICK k \in 1 .. Len(w) : h[k] = 1
  BY <1>2
<1>4. Len(w) = 1 /\ k = 1
  BY <1>1, <1>3
<1>5. w[1] = s[1]
  BY <1>2, <1>3, <1>4
<1>6. w = s
  BY <1>1, <1>4, <1>5
<1> QED
  BY <1>6 DEF w

\* The last of a list that is left only one thing is that thing, wherever it was.
LEMMA LastLeft ==
    ASSUME NEW A, NEW s \in Seq(A), NEW o, \E i \in 1 .. Len(s) : s[i] = o
    PROVE  Within(s, {o})[Len(Within(s, {o}))] = o
<1> DEFINE S == {o}
           w == Within(s, S)
<1> HIDE DEF S
<1>1. w \in Seq(A) /\ Len(w) \in Nat
  BY WithinTheList
<1>2. PICK h \in [1 .. Len(w) -> 1 .. Len(s)] :
               /\ \A k \in 1 .. Len(w) : w[k] = s[h[k]] /\ s[h[k]] \in S
               /\ \A i \in 1 .. Len(s) : s[i] \in S => \E k \in 1 .. Len(w) : h[k] = i
  BY WithinTheList
<1> HIDE DEF w
<1>3. Len(w) \in 1 .. Len(w)
  BY <1>1, <1>2 DEF S
<1>4. w[Len(w)] = o
  BY <1>2, <1>3 DEF S
<1> QED
  BY <1>4 DEF w, S

\* The order in which the overlays are drawn names each of them.
LEMMA DrawnInOrder ==
    /\ <<"panel", "nav", "palette", "sheet">> \in Seq(As!Overlays)
    /\ \A o \in As!Overlays : \E i \in 1 .. Len(<<"panel", "nav", "palette", "sheet">>) :
           <<"panel", "nav", "palette", "sheet">>[i] = o
<1> DEFINE s == <<"panel", "nav", "palette", "sheet">>
<1>1. s \in Seq(As!Overlays) /\ Len(s) = 4 /\ s[1] = "panel" /\ s[2] = "nav" /\ s[3] = "palette" /\ s[4] = "sheet"
  BY DEF As!Overlays
<1>2. \A o \in As!Overlays : \E i \in 1 .. 4 : s[i] = o
  BY <1>1 DEF As!Overlays
<1> QED
  BY <1>1, <1>2

\* Nothing is open over the first page.
LEMMA ShellInitially == ASSUME As!ShellAssumption, As!Init PROVE As!IInv
<1>1. v2 = <<>> /\ v2 \in Seq(As!Overlays) /\ Len(v2) = 0
  <2>1. <<>> \in Seq(As!Overlays)
    OBVIOUS
  <2> QED
    BY <2>1, NothingIn DEF As!Init
<1>2. \A l \in As!Names : 1 \in 0 .. Len(As!All(l)) /\ -1 \in -1 .. Len(As!All(l))
  <2>1. Len(AsReviews) \in Nat /\ Len(AsRepositories) \in Nat
    BY DEF As!ShellAssumption
  <2>2. \A n \in Nat : n >= 1 => 1 \in 0 .. n /\ -1 \in -1 .. n
    OBVIOUS
  <2> QED
    BY <2>1, <2>2 DEF As!ShellAssumption, As!All
<1>3. As!ShellTypeOK
  BY <1>1, <1>2 DEF As!Init, As!ShellTypeOK, As!Unread
<1>4. As!EachFoundAPageThatScrolls
  <2>1. 0 \in 0 .. 1 /\ 1 .. 0 = {}
    OBVIOUS
  <2> QED
    BY <1>1, <2>1 DEF As!Init, As!EachFoundAPageThatScrolls
<1> QED
  BY <1>3, <1>4 DEF As!IInv

\* Closing nothing changes nothing, and closing the one thing that is open gives the page back.
LEMMA ClosedKeeps ==
    ASSUME As!IInv, NEW S \in SUBSET As!Range(v2), NEW there \in BOOLEAN, As!Closed(S, there)
    PROVE  /\ v2' \in Seq(As!Overlays)
           /\ DOMAIN v3' = As!Overlays /\ \A o \in As!Overlays : DOMAIN v3'[o] = {"overflow", "opener"}
           /\ \A o \in As!Overlays : v3'[o].overflow = v3[o].overflow
           /\ ~v10 => \/ v2' = <<>> /\ v4' = ""
                      \/ S = {} /\ v2' = v2 /\ v4' = v4 /\ (there => v5' = v5)
<1>1. v2 \in Seq(As!Overlays) /\ DOMAIN v3 = As!Overlays /\ \A o \in As!Overlays : DOMAIN v3[o] = {"overflow", "opener"}
  BY DEF As!IInv, As!ShellTypeOK
<1>2. v2' = Within(v2, As!Overlays \ S)
  BY WithinOfTheShell DEF As!Closed
<1>3. v3' = [o \in As!Overlays |-> IF ~there /\ v3[o].opener = "field" THEN [v3[o] EXCEPT !.opener = "page"] ELSE v3[o]]
  BY DEF As!Closed
<1>4. v2' \in Seq(As!Overlays)
  BY <1>1, <1>2, WithinTheList
<1>5. /\ DOMAIN v3' = As!Overlays /\ \A o \in As!Overlays : DOMAIN v3'[o] = {"overflow", "opener"}
      /\ \A o \in As!Overlays : v3'[o].overflow = v3[o].overflow
  BY <1>1, <1>3
<1>6. ASSUME ~v10
      PROVE  \/ v2' = <<>> /\ v4' = ""
             \/ S = {} /\ v2' = v2 /\ v4' = v4 /\ (there => v5' = v5)
  <2>1. Len(v2) \in 0 .. 1 /\ (v4 = IF v2 = <<>> THEN "" ELSE "hidden")
        /\ \A i \in 1 .. Len(v2) : v5 = v2[i] /\ v3[v2[i]].overflow = ""
    BY <1>6 DEF As!IInv, As!EachFoundAPageThatScrolls
  <2>2. CASE S = {}
    <3>1. v4' = v4 /\ (there => v5' = v5)
      BY <2>2 DEF As!Closed
    <3>3. v2' = v2
      <4>1. CASE v2 = <<>>
        <5>1. Len(v2) = 0
          BY <4>1, NothingIn
        <5>2. \A i \in 1 .. Len(v2) : v2[i] \notin As!Overlays \ S
          <6>1. 1 .. 0 = {}
            OBVIOUS
          <6> QED
            BY <5>1, <6>1
        <5>3. Within(v2, As!Overlays \ S) = <<>>
          BY <1>1, <5>2, NoneLeft
        <5> QED
          BY <1>2, <4>1, <5>3
      <4>2. CASE v2 # <<>>
        <5>1. Len(v2) = 1 /\ v2[1] \in As!Overlays \ S
          BY <1>1, <2>1, <2>2, <4>2, OneIn
        <5> QED
          BY <1>1, <1>2, <5>1, OneLeft
      <4> QED
        BY <4>1, <4>2
    <3> QED
      BY <2>2, <3>1, <3>3
  <2>3. CASE S # {}
    <3>1. v2 # <<>>
      <4>1. PICK o \in S : o \in As!Range(v2)
        BY <2>3
      <4>2. PICK i \in DOMAIN v2 : TRUE
        BY <4>1 DEF As!Range
      <4> QED
        BY <4>2
    <3>2. Len(v2) = 1 /\ v2[1] \in As!Overlays /\ DOMAIN v2 = {1}
      BY <1>1, <2>1, <3>1, OneIn
    <3> DEFINE o == v2[1]
    <3>3. S = {o}
      BY <2>3, <3>2 DEF As!Range
    <3>4. \A i \in 1 .. Len(v2) : v2[i] \notin As!Overlays \ S
      BY <3>2, <3>3
    <3>5. v2' = <<>>
      BY <1>1, <1>2, <3>4, NoneLeft
    <3>6. v3[o].overflow = ""
      <4>1. 1 \in 1 .. 1
        OBVIOUS
      <4> QED
        BY <2>1, <3>2, <4>1
    <3> DEFINE order == IF there THEN v2 ELSE <<"panel", "nav", "palette", "sheet">>
    <3>7. order \in Seq(As!Overlays) /\ \E i \in 1 .. Len(order) : order[i] = o
      <4>1. CASE there
        <5>1. 1 \in 1 .. 1
          OBVIOUS
        <5> QED
          BY <1>1, <3>2, <4>1, <5>1
      <4>2. CASE ~there
        BY <3>2, <4>2, DrawnInOrder
      <4> QED
        BY <4>1, <4>2
    <3> HIDE DEF o
    <3>8. v4' = v3[As!Last(Within(order, {o}))].overflow
      BY <2>3, <3>3, WithinOfTheShell DEF As!Closed
    <3> HIDE DEF order
    <3>9. Within(order, {o})[Len(Within(order, {o}))] = o
      BY <3>7, LastLeft
    <3>10. As!Last(Within(order, {o})) = o
      BY <3>9 DEF As!Last
    <3> QED
      BY <3>5, <3>6, <3>8, <3>10
  <2> QED
    BY <2>2, <2>3
<1> QED
  BY <1>4, <1>5, <1>6

\* What is closed leaves the invariant, unless the page went and what was open stayed.
LEMMA ShellCloses ==
    ASSUME As!IInv, NEW S \in SUBSET As!Range(v2), NEW there \in BOOLEAN, As!Closed(S, there),
           As!Rested, v8' = v8, v9' = v9, ~v10' => ~v10 /\ (there \/ v2 = <<>> \/ S # {})
    PROVE  As!IInv'
<1>1. /\ v2' \in Seq(As!Overlays)
      /\ DOMAIN v3' = As!Overlays /\ \A o \in As!Overlays : DOMAIN v3'[o] = {"overflow", "opener"}
      /\ \A o \in As!Overlays : v3'[o].overflow = v3[o].overflow
      /\ ~v10 => \/ v2' = <<>> /\ v4' = ""
                 \/ S = {} /\ v2' = v2 /\ v4' = v4 /\ (there => v5' = v5)
  BY ClosedKeeps
<1>2. As!ShellTypeOK'
  <2>1. v6' = v6 \/ v6' = ""
    BY DEF As!Rested, As!reading
  <2> QED
    BY <1>1, <2>1 DEF As!IInv, As!ShellTypeOK
<1>3. As!EachFoundAPageThatScrolls'
  <2> SUFFICES ASSUME ~v10'
               PROVE  /\ Len(v2') \in 0 .. 1 /\ v4' = IF v2' = <<>> THEN "" ELSE "hidden"
                      /\ \A i \in 1 .. Len(v2') : v5' = v2'[i] /\ v3'[v2'[i]].overflow = ""
    BY DEF As!EachFoundAPageThatScrolls
  <2>1. /\ Len(v2) \in 0 .. 1 /\ (v4 = IF v2 = <<>> THEN "" ELSE "hidden")
        /\ \A i \in 1 .. Len(v2) : v5 = v2[i] /\ v3[v2[i]].overflow = ""
    BY DEF As!IInv, As!EachFoundAPageThatScrolls
  <2>2. CASE v2' = <<>> /\ v4' = ""
    <3>1. Len(v2') = 0
      BY <2>2, NothingIn
    <3>2. 0 \in 0 .. 1 /\ 1 .. 0 = {}
      OBVIOUS
    <3> QED
      BY <2>2, <3>1, <3>2
  <2>3. CASE S = {} /\ v2' = v2 /\ v4' = v4 /\ (there => v5' = v5)
    <3>1. CASE v2 = <<>>
      <4>1. v2' = <<>> /\ v4' = ""
        BY <2>1, <2>3, <3>1
      <4> QED
        BY <2>2, <4>1
    <3>2. CASE v2 # <<>>
      <4>1. v5' = v5
        BY <2>3, <3>2
      <4>2. v2 \in Seq(As!Overlays)
        BY DEF As!IInv, As!ShellTypeOK
      <4>3. \A i \in 1 .. Len(v2) : v2[i] \in As!Overlays
        BY <4>2
      <4> QED
        BY <1>1, <2>1, <2>3, <4>1, <4>3
    <3> QED
      BY <3>1, <3>2
  <2> QED
    BY <1>1, <2>2, <2>3
<1> QED
  BY <1>2, <1>3 DEF As!IInv

\* What is open over a page that was never walked away from has the keyboard.
LEMMA TheKeyboardIsInWhatIsOpen ==
    ASSUME As!IInv, ~v10, v2 # <<>>
    PROVE  v2[1] = v5 /\ v5 \in As!Overlays /\ v5 \in As!Range(v2)
<1>1. v2 \in Seq(As!Overlays) /\ Len(v2) \in 0 .. 1 /\ \A i \in 1 .. Len(v2) : v5 = v2[i]
  BY DEF As!IInv, As!ShellTypeOK, As!EachFoundAPageThatScrolls
<1>2. Len(v2) = 1 /\ v2[1] \in As!Overlays /\ DOMAIN v2 = {1}
  BY <1>1, OneIn
<1>3. 1 \in 1 .. 1
  OBVIOUS
<1> QED
  BY <1>1, <1>2, <1>3 DEF As!Range

\* The walk of one that closes S closes what was open, or nothing was.
LEMMA ShellArrives ==
    ASSUME As!IInv, NEW p, NEW S, As!Arrive(p, S), v8' = v8, v9' = v9,
           ~v10' => ~v10 /\ (v2 = <<>> \/ S \cap As!Range(v2) # {})
    PROVE  As!IInv'
<1> DEFINE T == (S \cap As!Range(v2)) \cup As!Left(p)
<1>1. T \in SUBSET As!Range(v2) /\ As!Closed(T, p = v1) /\ As!Rested
  BY DEF As!Arrive, As!Left
<1>2. S \cap As!Range(v2) # {} => T # {}
  OBVIOUS
<1>3. (p = v1) \in BOOLEAN
  OBVIOUS
<1> HIDE DEF T
<1> QED
  BY <1>1, <1>2, <1>3, ShellCloses

\* An overlay is opened only over a page that nothing else was opened over.
LEMMA OpensKeep ==
    ASSUME As!IInv, NEW o \in As!Overlays, As!PlainShortcut \/ As!Reachable, As!Open(o),
           DOMAIN v9' = As!Names,
           \A l \in As!Names : v9'[l] \in [data : -1 .. Len(As!All(l)), failed : BOOLEAN, asked : BOOLEAN]
    PROVE  As!IInv'
<1>1. /\ v2' = Append(v2, o)
      /\ v3' = [v3 EXCEPT ![o] = [overflow |-> v4, opener |-> v5]]
      /\ v4' = "hidden" /\ v5' = o /\ v6' = v6 /\ v8' = v8 /\ v10' = v10
  BY DEF As!Open, As!reading
<1>2. v2 \in Seq(As!Overlays) /\ DOMAIN v3 = As!Overlays /\ \A u \in As!Overlays : DOMAIN v3[u] = {"overflow", "opener"}
  BY DEF As!IInv, As!ShellTypeOK
<1>3. As!ShellTypeOK'
  <2>1. v2' \in Seq(As!Overlays)
    BY <1>1, <1>2
  <2>2. DOMAIN v3' = As!Overlays /\ \A u \in As!Overlays : DOMAIN v3'[u] = {"overflow", "opener"}
    BY <1>1, <1>2
  <2> QED
    BY <1>1, <2>1, <2>2 DEF As!IInv, As!ShellTypeOK, As!All
<1>4. As!EachFoundAPageThatScrolls'
  <2> SUFFICES ASSUME ~v10
               PROVE  /\ Len(v2') \in 0 .. 1 /\ v4' = IF v2' = <<>> THEN "" ELSE "hidden"
                      /\ \A i \in 1 .. Len(v2') : v5' = v2'[i] /\ v3'[v2'[i]].overflow = ""
    BY <1>1 DEF As!EachFoundAPageThatScrolls
  <2>1. v2 = <<>>
    BY TheKeyboardIsInWhatIsOpen DEF As!PlainShortcut, As!Reachable, As!Overlays
  <2>2. v4 = ""
    BY <2>1 DEF As!IInv, As!EachFoundAPageThatScrolls
  <2>3. v2' = <<o>> /\ Len(v2') = 1 /\ v2' # <<>> /\ v2'[1] = o /\ 1 \in 0 .. 1
    BY <1>1, <2>1
  <2>4. \A i \in 1 .. 1 : i = 1
    OBVIOUS
  <2>5. v3'[o].overflow = ""
    BY <1>1, <1>2, <2>2
  <2> QED
    BY <1>1, <2>3, <2>4, <2>5
<1> QED
  BY <1>3, <1>4 DEF As!IInv

\* A list that is asked for again, answered or refused is still one.
LEMMA ListsStayTyped ==
    ASSUME As!IInv, NEW l \in As!Names
    PROVE  /\ As!Refetched(l) \in [data : -1 .. Len(As!All(l)), failed : BOOLEAN, asked : BOOLEAN]
           /\ [data |-> v8[l], failed |-> FALSE, asked |-> FALSE]
                  \in [data : -1 .. Len(As!All(l)), failed : BOOLEAN, asked : BOOLEAN]
           /\ [v9[l] EXCEPT !.failed = TRUE, !.asked = FALSE]
                  \in [data : -1 .. Len(As!All(l)), failed : BOOLEAN, asked : BOOLEAN]
<1>1. /\ v9[l] \in [data : -1 .. Len(As!All(l)), failed : BOOLEAN, asked : BOOLEAN]
      /\ v8[l] \in 0 .. Len(As!All(l))
  BY DEF As!IInv, As!ShellTypeOK
<1>2. v8[l] \in -1 .. Len(As!All(l))
  BY <1>1
<1> DEFINE r == v9[l]
           D == -1 .. Len(As!All(l))
<1>3. (r.failed /\ r.data >= 0) \in BOOLEAN
  OBVIOUS
<1>4. r \in [data : D, failed : BOOLEAN, asked : BOOLEAN]
  BY <1>1
<1>5. v8[l] \in D
  BY <1>2
<1>6. As!Refetched(l) = [r EXCEPT !.asked = TRUE, !.failed = @ /\ r.data >= 0]
  BY DEF As!Refetched
<1> HIDE DEF r, D
<1>7. [r EXCEPT !.asked = TRUE, !.failed = @ /\ r.data >= 0] \in [data : D, failed : BOOLEAN, asked : BOOLEAN]
  BY <1>4, <1>3
<1>8. [r EXCEPT !.failed = TRUE, !.asked = FALSE] \in [data : D, failed : BOOLEAN, asked : BOOLEAN]
  BY <1>4
<1>9. [data |-> v8[l], failed |-> FALSE, asked |-> FALSE] \in [data : D, failed : BOOLEAN, asked : BOOLEAN]
  BY <1>5
<1> QED
  BY <1>6, <1>7, <1>8, <1>9 DEF r, D

\* The steps of the shell (shell.tsx, command-palette.tsx, motion.ts, keyboard.ts).
LEMMA ShellPreserved ==
    ASSUME As!ShellAssumption, As!IInv, As!Next \/ UNCHANGED As!vars
    PROVE  As!IInv'
<1> USE DEF As!reading, As!server
<1>t. /\ v2 \in Seq(As!Overlays) /\ DOMAIN v9 = As!Names
      /\ \A l \in As!Names : v9[l] \in [data : -1 .. Len(As!All(l)), failed : BOOLEAN, asked : BOOLEAN]
  BY DEF As!IInv, As!ShellTypeOK
<1>1. CASE As!OpensPalette
  <2>1. PICK old \in SUBSET As!Names :
            v9' = [l \in As!Names |-> IF l \in old \/ v9[l].data = -1 THEN As!Refetched(l) ELSE v9[l]]
    BY <1>1 DEF As!OpensPalette
  <2>2. /\ DOMAIN v9' = As!Names
        /\ \A l \in As!Names : v9'[l] \in [data : -1 .. Len(As!All(l)), failed : BOOLEAN, asked : BOOLEAN]
    BY <1>t, <2>1, ListsStayTyped
  <2> QED
    BY <1>1, <2>2, OpensKeep DEF As!OpensPalette, As!Overlays
<1>2. CASE As!OpensSheet \/ \E o \in {"panel", "nav"} : As!OpensDrawer(o)
  <2>1. PICK o \in As!Overlays : (As!PlainShortcut \/ As!Reachable) /\ As!Open(o) /\ v9' = v9
    BY <1>2 DEF As!OpensSheet, As!OpensDrawer, As!Overlays
  <2> QED
    BY <1>t, <2>1, OpensKeep
<1>3. CASE As!Escape
  <2>1. As!Range(v2) \in SUBSET As!Range(v2) /\ TRUE \in BOOLEAN
    OBVIOUS
  <2> QED
    BY <1>3, <2>1, ShellCloses DEF As!Escape
<1>4. ASSUME NEW o, As!Close(o)
      PROVE  As!IInv'
  <2>1. v2 # <<>> /\ As!Last(v2) = o /\ As!Closed({o}, TRUE) /\ As!Rested /\ v8' = v8 /\ v9' = v9 /\ v10' = v10
    BY <1>4 DEF As!Close
  <2>2. {o} \in SUBSET As!Range(v2) /\ TRUE \in BOOLEAN
    <3>1. Len(v2) \in DOMAIN v2
      BY <1>t, <2>1
    <3> QED
      BY <2>1, <3>1 DEF As!Last, As!Range
  <2> QED
    BY <2>1, <2>2, ShellCloses
<1>5. ASSUME NEW p, As!Walks(p)
      PROVE  As!IInv'
  <2>1. As!Arrive(p, {"nav"}) /\ v8' = v8 /\ v9' = v9 /\ v10' = (v10 \/ ("nav" # v5 /\ v2 # <<>>))
    BY <1>5 DEF As!Walks
  <2>2. ~v10' => ~v10 /\ (v2 = <<>> \/ {"nav"} \cap As!Range(v2) # {})
    BY <2>1, TheKeyboardIsInWhatIsOpen
  <2> QED
    BY <2>1, <2>2, ShellArrives
<1>6. ASSUME NEW p, As!BrowserWalks(p)
      PROVE  As!IInv'
  <2>1. As!Arrive(p, {}) /\ v8' = v8 /\ v9' = v9 /\ v10' = (v10 \/ v2 # <<>>)
    BY <1>6 DEF As!BrowserWalks
  <2> QED
    BY <2>1, ShellArrives
<1>7. ASSUME NEW i, As!Goes(i)
      PROVE  As!IInv'
  <2>1. /\ As!Arrive(AsLeads[As!Entries[i + 1]], {"palette"}) /\ v8' = v8 /\ v9' = v9
        /\ v10' = (v10 \/ Len(v2) > 1) /\ (v5 = "palette" \/ As!IsOpen("palette"))
    BY <1>7 DEF As!Goes
  <2>2. ~v10' => ~v10 /\ (v2 = <<>> \/ {"palette"} \cap As!Range(v2) # {})
    BY <2>1, TheKeyboardIsInWhatIsOpen DEF As!IsOpen
  <2> QED
    BY <2>1, <2>2, ShellArrives
<1>8. ASSUME NEW f \in {"page", "field"}, As!Focuses(f)
      PROVE  As!IInv'
  <2>1. As!Reachable /\ v5' = f /\ v2' = v2 /\ v3' = v3 /\ v4' = v4 /\ v6' = v6 /\ v8' = v8 /\ v9' = v9 /\ v10' = v10
    BY <1>8 DEF As!Focuses
  <2>2. As!ShellTypeOK'
    BY <2>1 DEF As!IInv, As!ShellTypeOK, As!All
  <2>3. As!EachFoundAPageThatScrolls'
    <3>1. CASE v2 = <<>>
      <4>1. Len(v2) = 0 /\ 1 .. 0 = {}
        BY <3>1, NothingIn
      <4> QED
        BY <2>1, <4>1 DEF As!IInv, As!EachFoundAPageThatScrolls
    <3>2. CASE v2 # <<>>
      <4>1. v10
        BY <2>1, <3>2, TheKeyboardIsInWhatIsOpen DEF As!Reachable, As!Overlays
      <4> QED
        BY <2>1, <4>1 DEF As!EachFoundAPageThatScrolls
    <3> QED
      BY <3>1, <3>2
  <2> QED
    BY <2>2, <2>3 DEF As!IInv
<1>9. ASSUME v2' = v2, v3' = v3, v4' = v4, v5' = v5, v10' = v10, v6' \in AsNeedles \cup {""},
             v8' \in [As!Names -> Nat], \A l \in As!Names : v8'[l] \in 0 .. Len(As!All(l)),
             DOMAIN v9' = As!Names,
             \A l \in As!Names : v9'[l] \in [data : -1 .. Len(As!All(l)), failed : BOOLEAN, asked : BOOLEAN]
      PROVE  As!IInv'
  <2>1. As!ShellTypeOK'
    BY <1>9 DEF As!IInv, As!ShellTypeOK, As!All
  <2>2. As!EachFoundAPageThatScrolls'
    BY <1>9 DEF As!IInv, As!EachFoundAPageThatScrolls
  <2> QED
    BY <2>1, <2>2 DEF As!IInv
<1>s. /\ v6 \in AsNeedles \cup {""} /\ v8 \in [As!Names -> Nat]
      /\ \A l \in As!Names : v8[l] \in 0 .. Len(As!All(l))
  BY DEF As!IInv, As!ShellTypeOK
<1>10. ASSUME NEW q \in AsNeedles \cup {""}, As!Types(q)
       PROVE  As!IInv'
  BY <1>9, <1>10, <1>s, <1>t DEF As!Types
<1>11. ASSUME NEW i, As!Moves(i)
       PROVE  As!IInv'
  BY <1>9, <1>11, <1>s, <1>t DEF As!Moves
<1>12. ASSUME NEW l \in As!Names, As!Changes(l)
       PROVE  As!IInv'
  <2>1. PICK n \in 0 .. Len(As!All(l)) : v8' = [v8 EXCEPT ![l] = n]
    BY <1>12 DEF As!Changes
  <2>2. v8' \in [As!Names -> Nat] /\ \A m \in As!Names : v8'[m] \in 0 .. Len(As!All(m))
    <3>1. Len(As!All(l)) \in Nat
      BY DEF As!ShellAssumption, As!All, As!Names
    <3>2. n \in Nat
      BY <3>1
    <3>3. v8' \in [As!Names -> Nat]
      BY <1>s, <2>1, <3>2
    <3>4. \A m \in As!Names : v8'[m] = IF m = l THEN n ELSE v8[m]
      BY <1>s, <2>1
    <3> QED
      BY <1>s, <3>3, <3>4
  <2>3. v2' = v2 /\ v3' = v3 /\ v4' = v4 /\ v5' = v5 /\ v10' = v10 /\ v6' = v6 /\ v9' = v9
    BY <1>12 DEF As!Changes
  <2> QED
    BY <1>9, <1>s, <1>t, <2>2, <2>3
<1>13. ASSUME NEW l \in As!Names, As!Reads(l) \/ As!Answered(l)
       PROVE  As!IInv'
  <2>1. /\ v2' = v2 /\ v3' = v3 /\ v4' = v4 /\ v5' = v5 /\ v10' = v10 /\ v6' = v6 /\ v8' = v8
        /\ \/ v9' = [v9 EXCEPT ![l] = As!Refetched(l)]
           \/ v9' = [v9 EXCEPT ![l] = [data |-> v8[l], failed |-> FALSE, asked |-> FALSE]]
           \/ v9' = [v9 EXCEPT ![l].failed = TRUE, ![l].asked = FALSE]
    BY <1>13 DEF As!Reads, As!Answered
  <2>2. [v9 EXCEPT ![l].failed = TRUE, ![l].asked = FALSE] = [v9 EXCEPT ![l] = [v9[l] EXCEPT !.failed = TRUE, !.asked = FALSE]]
    BY <1>t
  <2>3. \E r \in [data : -1 .. Len(As!All(l)), failed : BOOLEAN, asked : BOOLEAN] : v9' = [v9 EXCEPT ![l] = r]
    BY <2>1, <2>2, ListsStayTyped
  <2>4. /\ DOMAIN v9' = As!Names
        /\ \A m \in As!Names : v9'[m] \in [data : -1 .. Len(As!All(m)), failed : BOOLEAN, asked : BOOLEAN]
    BY <1>t, <2>3
  <2> QED
    BY <1>9, <1>s, <2>1, <2>4
<1>14. CASE UNCHANGED As!vars
  BY <1>9, <1>14, <1>s, <1>t DEF As!vars
<1>15. ASSUME As!ClosesDrawer \/ As!ClosesSheet \/ As!ClosesPalette
       PROVE  As!IInv'
  BY <1>4, <1>15 DEF As!ClosesDrawer, As!ClosesSheet, As!ClosesPalette
<1> QED
  BY <1>1, <1>2, <1>3, <1>5, <1>6, <1>7, <1>8, <1>10, <1>11, <1>12, <1>13, <1>14, <1>15 DEF As!Next

\* What is joined holds what each of its parts held, and so does what is left of a list.
LEMMA JoinedRange ==
    ASSUME NEW A, NEW s \in Seq(A), NEW t \in Seq(A)
    PROVE  s \o t \in Seq(A) /\ As!Range(s) \subseteq As!Range(s \o t) /\ As!Range(t) \subseteq As!Range(s \o t)
<1>1. s \o t \in Seq(A) /\ Len(s \o t) = Len(s) + Len(t) /\ Len(s) \in Nat /\ Len(t) \in Nat
  OBVIOUS
<1>2. DOMAIN s = 1 .. Len(s) /\ DOMAIN t = 1 .. Len(t) /\ DOMAIN (s \o t) = 1 .. Len(s) + Len(t)
  BY <1>1
<1>3. \A i \in 1 .. Len(s) : (s \o t)[i] = s[i]
  OBVIOUS
<1>4. \A i \in 1 .. Len(t) : (s \o t)[Len(s) + i] = t[i]
  OBVIOUS
<1>5. \A i \in 1 .. Len(s) : i \in 1 .. Len(s) + Len(t)
  BY <1>1
<1>6. \A i \in 1 .. Len(t) : Len(s) + i \in 1 .. Len(s) + Len(t)
  BY <1>1
<1> QED
  BY <1>1, <1>2, <1>3, <1>4, <1>5, <1>6 DEF As!Range

\* What is in a list and looked for is left in it.
LEMMA WithinRange ==
    ASSUME NEW A, NEW s \in Seq(A), NEW S, NEW e \in As!Range(s), e \in S
    PROVE  Within(s, S) \in Seq(A) /\ e \in As!Range(Within(s, S))
<1> DEFINE w == Within(s, S)
<1>1. w \in Seq(A) /\ Len(w) \in Nat
  BY WithinTheList
<1>2. PICK h \in [1 .. Len(w) -> 1 .. Len(s)] :
               /\ \A k \in 1 .. Len(w) : w[k] = s[h[k]]
               /\ \A i \in 1 .. Len(s) : s[i] \in S => \E k \in 1 .. Len(w) : h[k] = i
  BY WithinTheList
<1> HIDE DEF w
<1>3. PICK i \in 1 .. Len(s) : s[i] = e
  BY DEF As!Range
<1>4. PICK k \in 1 .. Len(w) : h[k] = i
  BY <1>2, <1>3
<1>5. w[k] = e /\ k \in DOMAIN w
  BY <1>1, <1>2, <1>3, <1>4
<1>6. e \in As!Range(w)
  BY <1>5 DEF As!Range
<1> QED
  BY <1>1, <1>6 DEF w

\* The first n of a list of no more than n are all of it.
LEMMA FirstIsAll ==
    ASSUME NEW A, NEW s \in Seq(A), NEW n \in Nat, ~(Len(s) > n)
    PROVE  As!FirstOf(s, n) = s
<1>1. Len(s) \in Nat /\ (IF n < Len(s) THEN n ELSE Len(s)) = Len(s)
  OBVIOUS
<1> QED
  BY <1>1, TheWholeList DEF As!FirstOf

\* What the palette has of a list is a list.
LEMMA ListedIsAList ==
    ASSUME NEW A, NEW s \in Seq(A), NEW n \in 1 .. Len(s)
    PROVE  SubSeq(s, Len(s) - n + 1, Len(s)) \in Seq(A)
  OBVIOUS

\* The search is honest: what was read and matches is found, and what is found is listed or cut.
LEMMA TheSearchHolds ==
    ASSUME As!ShellAssumption, As!IInv
    PROVE  As!TheSearchIsHonest
<1>1. ASSUME As!Says = "nothing matches"
      PROVE  \A l \in As!Names : v9[l].data >= 0 /\ ~v9[l].failed
  <2> SUFFICES ASSUME NEW l \in As!Names
               PROVE  v9[l].data >= 0 /\ ~v9[l].failed
    OBVIOUS
  <2>1. v9[l].data \in -1 .. Len(As!All(l))
    BY DEF As!IInv, As!ShellTypeOK
  <2>2. ~v9[l].failed /\ v9[l].data # -1
    BY <1>1 DEF As!Says
  <2>3. Len(As!All(l)) \in Nat
    BY DEF As!ShellAssumption, As!All, As!Names
  <2> QED
    BY <2>1, <2>2, <2>3
<1> DEFINE A == As!Range(AsSections) \cup As!Range(AsReviews) \cup As!Range(AsRepositories)
           r == As!Listed("reviews")
           p == As!Listed("repositories")
           j == AsSections \o r \o p
<1>2. ASSUME NEW l \in As!Names
      PROVE  As!Listed(l) \in Seq(A)
  <2>1. As!All(l) \in Seq(A)
    <3>1. \A S, T : S \subseteq T => Seq(S) \subseteq Seq(T)
      OBVIOUS
    <3> QED
      BY <3>1 DEF As!ShellAssumption, As!All, As!Names
  <2>2. v9[l].data \in -1 .. Len(As!All(l))
    BY DEF As!IInv, As!ShellTypeOK
  <2>3. CASE v9[l].data < 1
    <3>1. <<>> \in Seq(A)
      OBVIOUS
    <3> QED
      BY <2>3, <3>1 DEF As!Listed
  <2>4. CASE ~(v9[l].data < 1)
    <3> HIDE DEF A
    <3>1. Len(As!All(l)) \in Nat
      BY <2>1
    <3>2. v9[l].data \in 1 .. Len(As!All(l))
      BY <2>2, <2>4, <3>1
    <3> QED
      BY <2>1, <2>4, <3>2, ListedIsAList DEF As!Listed
  <2> QED
    BY <2>3, <2>4
<1>3. AsSections \in Seq(A) /\ r \in Seq(A) /\ p \in Seq(A)
  <2>1. \A S, T : S \subseteq T => Seq(S) \subseteq Seq(T)
    OBVIOUS
  <2>2. AsSections \in Seq(A)
    BY <2>1 DEF As!ShellAssumption
  <2> HIDE DEF A
  <2> QED
    BY <1>2, <2>2 DEF As!Names
<1> HIDE DEF A, r, p
<1>4. AsSections \o r \in Seq(A) /\ j \in Seq(A)
      /\ As!Range(AsSections) \cup As!Range(r) \cup As!Range(p) \subseteq As!Range(j)
  <2>1. /\ AsSections \o r \in Seq(A) /\ As!Range(AsSections) \subseteq As!Range(AsSections \o r)
        /\ As!Range(r) \subseteq As!Range(AsSections \o r)
    BY <1>3, JoinedRange
  <2>2. j \in Seq(A) /\ As!Range(AsSections \o r) \subseteq As!Range(j) /\ As!Range(p) \subseteq As!Range(j)
    BY <1>3, <2>1, JoinedRange
  <2> QED
    BY <2>1, <2>2
<1>5. ASSUME NEW e \in As!Range(AsSections) \cup As!Range(r) \cup As!Range(p),
             v6 = "" \/ e \in AsMatching[v6], ~As!Cut
      PROVE  e \in As!Range(As!Entries)
  <2>1. e \in As!Range(j)
    BY <1>4, <1>5
  <2>2. CASE v6 = ""
    <3>1. ~(Len(r) > AsFirstReviews) /\ ~(Len(p) > AsFirstRepositories)
      BY <1>5, <2>2 DEF As!Cut, r, p
    <3>2. As!FirstOf(r, AsFirstReviews) = r /\ As!FirstOf(p, AsFirstRepositories) = p
      BY <1>3, <3>1, FirstIsAll DEF As!ShellAssumption
    <3>3. As!Entries = j
      BY <2>2, <3>2 DEF As!Entries, r, p
    <3> QED
      BY <2>1, <3>3
  <2>3. CASE v6 # ""
    <3> DEFINE S == AsMatching[v6]
               w == Within(j, S)
    <3>1. As!Found(v6) = w
      BY WithinOfTheShell DEF As!Found, r, p
    <3> HIDE DEF j, S
    <3>2. w \in Seq(A) /\ e \in As!Range(w)
      BY <1>4, <1>5, <2>1, <2>3, WithinRange DEF S
    <3> HIDE DEF w
    <3>3. ~(Len(w) > AsCap)
      BY <1>5, <2>3, <3>1 DEF As!Cut
    <3>4. As!FirstOf(w, AsCap) = w
      BY <3>2, <3>3, FirstIsAll DEF As!ShellAssumption
    <3>5. As!Entries = w
      BY <2>3, <3>1, <3>4 DEF As!Entries
    <3> QED
      BY <3>2, <3>5
  <2> QED
    BY <2>2, <2>3
<1> QED
  BY <1>1, <1>5 DEF As!TheSearchIsHonest, r, p

\* Nothing is open over a page that scrolls, and one thing over one that does not.
LEMMA ThePageComesBack ==
    ASSUME As!IInv
    PROVE  As!ThePageIsGivenBack
<1> SUFFICES ASSUME ~v10
             PROVE  Len(v2) <= 1 /\ (v4 = "hidden") = (v2 # <<>>) /\ (v2 # <<>> => v5 = Head(v2))
  BY DEF As!ThePageIsGivenBack
<1>1. v2 \in Seq(As!Overlays) /\ Len(v2) \in 0 .. 1 /\ v4 = (IF v2 = <<>> THEN "" ELSE "hidden")
      /\ \A i \in 1 .. Len(v2) : v5 = v2[i]
  BY DEF As!IInv, As!ShellTypeOK, As!EachFoundAPageThatScrolls
<1>2. Len(v2) <= 1
  <2>1. Len(v2) \in 0 .. 1
    BY <1>1
  <2>2. \A n \in 0 .. 1 : n <= 1
    OBVIOUS
  <2> QED
    BY <2>1, <2>2, Zenon
<1>3. (v4 = "hidden") = (v2 # <<>>)
  BY <1>1
<1>4. ASSUME v2 # <<>>
      PROVE  v5 = Head(v2)
  <2>1. 1 \in 1 .. Len(v2) /\ Head(v2) = v2[1]
    BY <1>1, <1>4
  <2> QED
    BY <1>1, <2>1
<1> QED
  BY <1>2, <1>3, <1>4

(***************************************************************************)
(* Repositories                                                            *)
(***************************************************************************)
\* What is left of a list is in it, and so are those of it that are not left out.
LEMMA WithinTheSet ==
    ASSUME NEW A, NEW s \in Seq(A), NEW S
    PROVE  Re!ToSet(Within(s, S)) = Re!ToSet(s) \cap S
<1> DEFINE w == Within(s, S)
<1>1. /\ w \in Seq(A)
      /\ \E h \in [1 .. Len(w) -> 1 .. Len(s)] :
            /\ \A k \in 1 .. Len(w) : w[k] = s[h[k]] /\ s[h[k]] \in S
            /\ \A i \in 1 .. Len(s) : s[i] \in S => \E k \in 1 .. Len(w) : h[k] = i
  BY WithinTheList
<1> HIDE DEF w
<1>2. DOMAIN w = 1 .. Len(w) /\ DOMAIN s = 1 .. Len(s)
  BY <1>1, ElementsOf
<1>3. PICK h \in [1 .. Len(w) -> 1 .. Len(s)] :
          /\ \A k \in 1 .. Len(w) : w[k] = s[h[k]] /\ s[h[k]] \in S
          /\ \A i \in 1 .. Len(s) : s[i] \in S => \E k \in 1 .. Len(w) : h[k] = i
  BY <1>1
<1>4. \A k \in 1 .. Len(w) : w[k] \in Re!ToSet(s) \cap S
  BY <1>2, <1>3 DEF Re!ToSet
<1>5. ASSUME NEW i \in 1 .. Len(s), s[i] \in S
      PROVE  \E k \in 1 .. Len(w) : w[k] = s[i]
  <2>1. PICK k \in 1 .. Len(w) : h[k] = i
    BY <1>3, <1>5
  <2>2. w[k] = s[i]
    BY <1>3, <2>1
  <2> QED
    BY <2>2
<1>6. Re!ToSet(w) \subseteq Re!ToSet(s) \cap S
  BY <1>2, <1>4 DEF Re!ToSet
<1>7. Re!ToSet(s) \cap S \subseteq Re!ToSet(w)
  BY <1>2, <1>5 DEF Re!ToSet
<1> QED
  BY <1>6, <1>7 DEF w

\* The listing is of the roots that are indexed: a rank of some of them is one of them.
LEMMA RankedRoots ==
    ASSUME Re!RepositoriesAssumption, NEW s \in Re!SetToAllKPermutations(ReRepos)
    PROVE  s \in Seq(ReRepos)
<1>1. PICK R \in SUBSET ReRepos : s \in Re!SetToSeqs(R)
  BY DEF Re!SetToAllKPermutations
<1>2. IsFiniteSet(R)
  BY <1>1, FS_Subset DEF Re!RepositoriesAssumption, Re!IsFiniteSet, IsFiniteSet
<1>3. Re!Cardinality(R) = Cardinality(R)
  BY DEF Re!Cardinality, Cardinality
<1>4. Cardinality(R) \in Nat
  BY <1>2, FS_CardinalityType
<1>5. s \in [1 .. Cardinality(R) -> R]
  BY <1>1, <1>3 DEF Re!SetToSeqs
<1> QED
  BY <1>1, <1>4, <1>5

\* What is typed of a list of answers.
LEMMA RootsListed ==
    ASSUME NEW l, l \in {None} \cup Seq(Re!Answers)
    PROVE  Re!Rows(l) \in Seq(Re!Answers) /\ Re!Roots(l) \subseteq ReRepos
<1>1. Re!Rows(l) \in Seq(Re!Answers)
  BY DEF Re!Rows
<1>2. DOMAIN Re!Rows(l) = 1 .. Len(Re!Rows(l)) /\ \A i \in 1 .. Len(Re!Rows(l)) : Re!Rows(l)[i] \in Re!Answers
  BY <1>1, ElementsOf
<1>3. Re!Roots(l) \subseteq ReRepos
  BY <1>2 DEF Re!Roots, Re!ToSet, Re!Answers
<1> QED
  BY <1>1, <1>3

\* The first card drawn is of a root that is listed.
LEMMA FirstCard ==
    ASSUME NEW l, l \in {None} \cup Seq(Re!Answers), NEW f, Re!Visible(l, f) # <<>>
    PROVE  Head(Re!Visible(l, f)).root \in Re!Roots(l)
<1> DEFINE w == Re!Visible(l, f)
<1>1. w = Within(Re!Rows(l), [root : f, commit : Re!Commits])
  BY DEF Re!Visible, Re!Within, Within
<1>2. Re!Rows(l) \in Seq(Re!Answers)
  BY RootsListed
<1>3. w \in Seq(Re!Answers) /\ Re!ToSet(w) \subseteq Re!ToSet(Re!Rows(l))
  BY <1>1, <1>2, WithinTheList, WithinTheSet
<1> HIDE DEF w
<1>4. w # <<>> => Head(w) = w[1] /\ 1 \in DOMAIN w
  BY <1>3
<1>5. w # <<>> => Head(w) \in Re!ToSet(Re!Rows(l))
  BY <1>3, <1>4 DEF Re!ToSet
<1> QED
  BY <1>5 DEF w, Re!Roots

\* What is selected is listed, or is nothing.
LEMMA SelectedIsListed ==
    ASSUME NEW l, l \in {None} \cup Seq(Re!Answers), NEW u, NEW h, NEW f
    PROVE  Re!Selected(l, u, h, f) \in Re!Roots(l) \cup {None}
  BY FirstCard DEF Re!Selected

\* What was selected is selected when it is held, for want of a root that is named.
LEMMA HeldIsSelected ==
    ASSUME Re!RepositoriesAssumption, NEW l, l \in {None} \cup Seq(Re!Answers), NEW u, NEW h, NEW f
    PROVE  Re!Selected(l, u, Re!Selected(l, u, h, f), f) = Re!Selected(l, u, h, f)
<1>1. None \notin Re!Roots(l)
  BY RootsListed DEF Re!RepositoriesAssumption
<1> QED
  BY <1>1, FirstCard DEF Re!Selected

\* The invariant of the page where what is open is drawn, held and listed anew.
LEMMA DrawnIsHeld ==
    ASSUME Re!RepositoriesAssumption, v5' \in {None} \cup Seq(Re!Answers), Re!Draws(v5', v9', v11')
    PROVE  Re!OpenIsHeld'
<1>1. v10' = Re!Selected(v5', v9', v10, v11')
  BY DEF Re!Draws
<1>2. Re!Selected(v5', v9', v10', v11') = v10'
  BY <1>1, HeldIsSelected
<1> QED
  BY <1>2 DEF Re!OpenIsHeld, Re!Open

\* Nothing is open to begin with.
LEMMA RepositoriesInitially ==
    ASSUME Re!RepositoriesAssumption, Re!Init
    PROVE  Re!IInv
<1>1. v3 \in Seq(ReRepos) /\ 0 \in Re!Commits
  BY RankedRoots DEF Re!Init, Re!RepositoriesAssumption, Re!Commits
<1>2. Re!ListsAreOfWhatIsIndexed
  BY <1>1 DEF Re!Init, Re!ListsAreOfWhatIsIndexed
<1>3. v5 = None /\ v6 = Asked /\ v10 = None
  BY DEF Re!Init
<1>4. Re!Roots(None) = {}
  BY DEF Re!Roots, Re!Rows, Re!ToSet
<1>5. Re!ListingsGrow
  BY <1>3, <1>4 DEF Re!ListingsGrow
<1>6. Re!Selected(None, v9, None, v11) \in Re!Roots(None) \cup {None}
  BY SelectedIsListed
<1>7. Re!OpenIsHeld
  BY <1>3, <1>4, <1>6 DEF Re!OpenIsHeld, Re!Open
<1> QED
  BY <1>2, <1>5, <1>7 DEF Re!IInv

\* What is open stays where neither the listing, the address, the search nor what was held moves.
LEMMA OpenStays ==
    ASSUME Re!OpenIsHeld, UNCHANGED <<v5, v9, v10, v11>>
    PROVE  Re!OpenIsHeld' /\ Re!TheOpenAtlasStays
<1>1. Re!Open' = Re!Open
  BY DEF Re!Open, Re!Selected, Re!Visible, Re!Roots, Re!Rows
<1> QED
  BY <1>1 DEF Re!OpenIsHeld, Re!TheOpenAtlasStays

\* A reading that is asked for, refused or under way leaves the listing as it was.
LEMMA ReadingsKeep ==
    ASSUME Re!ListsAreOfWhatIsIndexed, Re!ListingsGrow, UNCHANGED <<v1, v2, v3, v4, v5>>, v6' \in {v6, None, Asked}
    PROVE  Re!ListsAreOfWhatIsIndexed' /\ Re!ListingsGrow'
<1>1. Re!ListsAreOfWhatIsIndexed'
  BY DEF Re!ListsAreOfWhatIsIndexed
<1>2. Re!Roots(v5)' = Re!Roots(v5) /\ (v6' = v6 => Re!Roots(v6)' = Re!Roots(v6)) /\ Re!ToSet(v3)' = Re!ToSet(v3)
  BY DEF Re!Roots, Re!Rows
<1>3. Re!ListingsGrow'
  BY <1>2 DEF Re!ListingsGrow
<1> QED
  BY <1>1, <1>3

\* The newest atlas is the first of the list, and the others are listed still.
LEMMA IndexedFirst ==
    ASSUME Re!ListsAreOfWhatIsIndexed, NEW r \in ReRepos, Re!Indexes(r)
    PROVE  v3' \in Seq(ReRepos) /\ v4' \in [ReRepos -> Re!Commits] /\ Re!ToSet(v3) \subseteq Re!ToSet(v3')
<1> DEFINE w == Within(v3, ReRepos \ {r})
<1>1. v3 \in Seq(ReRepos) /\ v4' \in [ReRepos -> Re!Commits]
  BY DEF Re!ListsAreOfWhatIsIndexed, Re!Indexes
<1>2. w \in Seq(ReRepos) /\ Re!ToSet(w) = Re!ToSet(v3) \cap (ReRepos \ {r})
  BY <1>1, WithinTheList, WithinTheSet
<1>3. v3' = <<r>> \o w
  BY DEF Re!Indexes, Re!Within, Within
<1> HIDE DEF w
<1>4. v3' \in Seq(ReRepos) /\ Len(v3') = Len(w) + 1 /\ v3'[1] = r /\ \A i \in 1 .. Len(w) : v3'[i + 1] = w[i]
  BY <1>2, <1>3
<1>5. Len(w) \in Nat /\ DOMAIN w = 1 .. Len(w) /\ DOMAIN v3' = 1 .. Len(w) + 1
  BY <1>2, <1>4, ElementsOf
<1>6. r \in Re!ToSet(v3')
  <2>1. 1 \in DOMAIN v3'
    BY <1>5
  <2> QED
    BY <1>4, <2>1 DEF Re!ToSet
<1>7. Re!ToSet(w) \subseteq Re!ToSet(v3')
  <2> SUFFICES ASSUME NEW i \in DOMAIN w
               PROVE  w[i] \in Re!ToSet(v3')
    BY DEF Re!ToSet
  <2>1. i + 1 \in DOMAIN v3' /\ w[i] = v3'[i + 1]
    BY <1>4, <1>5
  <2> QED
    BY <2>1 DEF Re!ToSet
<1>8. Re!ToSet(v3) \subseteq ReRepos
  BY <1>1, ElementsOf DEF Re!ToSet
<1> QED
  BY <1>1, <1>2, <1>4, <1>6, <1>7, <1>8

\* What is done to a repository keeps every root that is indexed, and what was read of them.
LEMMA IndexesKeep ==
    ASSUME Re!RepositoriesAssumption, Re!ListsAreOfWhatIsIndexed, Re!ListingsGrow,
           \/ Re!ServerClones
           \/ \E r \in ReRepos : Re!ServerIndexes(r) \/ Re!ReviewStarts(r) \/ Re!ServerFetches(r) \/ Re!RemoteMoves(r)
    PROVE  Re!ListsAreOfWhatIsIndexed' /\ Re!ListingsGrow'
<1>1. UNCHANGED <<v5, v6>>
  BY DEF Re!ServerClones, Re!ServerIndexes, Re!ReviewStarts, Re!ServerFetches, Re!RemoteMoves
<1>2. v1' \in [ReRepos -> Re!Commits]
  <2>1. CASE v1' = v1
    BY <2>1 DEF Re!ListsAreOfWhatIsIndexed
  <2>2. ASSUME NEW r \in ReRepos, Re!RemoteMoves(r)
        PROVE  v1' \in [ReRepos -> Re!Commits]
    <3>1. v1 \in [ReRepos -> Re!Commits] /\ v1[r] < ReLastCommit /\ v1' = [v1 EXCEPT ![r] = v1[r] + 1]
      BY <2>2 DEF Re!RemoteMoves, Re!ListsAreOfWhatIsIndexed
    <3>2. v1[r] + 1 \in Re!Commits
      BY <3>1 DEF Re!RepositoriesAssumption, Re!Commits
    <3> QED
      BY <3>1, <3>2
  <2> QED
    BY <2>1, <2>2 DEF Re!ServerClones, Re!ServerIndexes, Re!ReviewStarts, Re!ServerFetches
<1>3. v2' \in [ReRepos -> Re!Commits]
  <2>1. v1 \in [ReRepos -> Re!Commits] /\ v2 \in [ReRepos -> Re!Commits]
    BY DEF Re!ListsAreOfWhatIsIndexed
  <2>2. v2' = v2 \/ \E r \in ReRepos : v2' = [v2 EXCEPT ![r] = v1[r]]
    <3>1. CASE Re!ServerClones
      <4>1. v2' = [v2 EXCEPT ![v14.root] = v1[v14.root]]
        BY <3>1 DEF Re!ServerClones
      <4>2. v14.root \notin ReRepos => v2' = v2
        BY <2>1, <4>1
      <4> QED
        BY <4>1, <4>2
    <3> QED
      BY <3>1 DEF Re!ServerIndexes, Re!ReviewStarts, Re!ServerFetches, Re!RemoteMoves
  <2> QED
    BY <2>1, <2>2
<1>4. v3' \in Seq(ReRepos) /\ v4' \in [ReRepos -> Re!Commits] /\ Re!ToSet(v3) \subseteq Re!ToSet(v3')
  <2>1. CASE v3' = v3 /\ v4' = v4
    BY <2>1 DEF Re!ListsAreOfWhatIsIndexed
  <2>2. (v3' = v3 /\ v4' = v4) \/ \E r \in ReRepos : Re!Indexes(r)
    BY DEF Re!ServerClones, Re!ServerIndexes, Re!ReviewStarts, Re!ServerFetches, Re!RemoteMoves
  <2> QED
    BY <2>1, <2>2, IndexedFirst
<1>5. Re!ListsAreOfWhatIsIndexed'
  BY <1>1, <1>2, <1>3, <1>4 DEF Re!ListsAreOfWhatIsIndexed
<1>6. Re!Roots(v5)' = Re!Roots(v5) /\ Re!Roots(v6)' = Re!Roots(v6) /\ Re!ToSet(v3)' = Re!ToSet(v3')
  BY <1>1 DEF Re!Roots, Re!Rows
<1>7. Re!ListingsGrow'
  BY <1>1, <1>4, <1>6 DEF Re!ListingsGrow
<1> QED
  BY <1>5, <1>7

\* The server lists every root that is indexed, at the commit of its atlas.
LEMMA ListingsAreWhole ==
    ASSUME Re!ListsAreOfWhatIsIndexed, Re!ListingsGrow, Re!ServerLists
    PROVE  Re!ListsAreOfWhatIsIndexed' /\ Re!ListingsGrow'
<1>1. UNCHANGED <<v1, v2, v3, v4, v5>> /\ v6' = [i \in DOMAIN v3 |-> [root |-> v3[i], commit |-> v4[v3[i]]]]
  BY DEF Re!ServerLists, Re!disks
<1>2. v3 \in Seq(ReRepos) /\ v4 \in [ReRepos -> Re!Commits]
  BY DEF Re!ListsAreOfWhatIsIndexed
<1>3. Len(v3) \in Nat /\ DOMAIN v3 = 1 .. Len(v3) /\ \A i \in 1 .. Len(v3) : v3[i] \in ReRepos
  BY <1>2, ElementsOf
<1>4. \A i \in DOMAIN v3 : [root |-> v3[i], commit |-> v4[v3[i]]] \in Re!Answers
  BY <1>2, <1>3 DEF Re!Answers
<1>5. v6' \in Seq(Re!Answers)
  BY <1>1, <1>3, <1>4
<1>6. Re!ListsAreOfWhatIsIndexed'
  BY <1>1, <1>5 DEF Re!ListsAreOfWhatIsIndexed
<1>7. v6' # None => Re!Roots(v6') = Re!ToSet(v3)
  <2>1. DOMAIN v6' = DOMAIN v3 /\ \A i \in DOMAIN v3 : v6'[i].root = v3[i]
    BY <1>1
  <2>2. ASSUME v6' # None
        PROVE  Re!Roots(v6') = {v6'[i].root : i \in DOMAIN v6'}
    BY <2>2 DEF Re!Roots, Re!Rows, Re!ToSet
  <2> QED
    BY <2>1, <2>2 DEF Re!ToSet
<1>8. Re!Roots(v5)' = Re!Roots(v5) /\ Re!Roots(v6)' = Re!Roots(v6') /\ Re!ToSet(v3)' = Re!ToSet(v3)
  BY <1>1 DEF Re!Roots, Re!Rows
<1>9. Re!ListingsGrow'
  BY <1>7, <1>8 DEF Re!ListingsGrow
<1> QED
  BY <1>6, <1>9

\* A listing that arrives holds what is open, unless it holds at last what the reader had named.
LEMMA ArrivalsKeep ==
    ASSUME Re!RepositoriesAssumption, Re!IInv, Re!ListArrives
    PROVE  Re!IInv' /\ Re!TheOpenAtlasStays
<1>1. /\ UNCHANGED <<v1, v2, v3, v4, v9, v11>> /\ v6 \notin {None, Asked}
      /\ v5' = v6 /\ v6' = None /\ Re!Draws(v6, v9, v11)
  BY DEF Re!ListArrives, Re!disks
<1>2. Re!ListsAreOfWhatIsIndexed'
  BY <1>1 DEF Re!IInv, Re!ListsAreOfWhatIsIndexed
<1>3. Re!Roots(v5)' = Re!Roots(v6) /\ Re!Roots(v5') = Re!Roots(v6) /\ Re!ToSet(v3)' = Re!ToSet(v3)
  BY <1>1 DEF Re!Roots, Re!Rows
<1>4. Re!ListingsGrow'
  BY <1>1, <1>3 DEF Re!IInv, Re!ListingsGrow
<1>5. v5' \in {None} \cup Seq(Re!Answers) /\ v5 \in {None} \cup Seq(Re!Answers)
  BY <1>2 DEF Re!IInv, Re!ListsAreOfWhatIsIndexed
<1>6. Re!OpenIsHeld'
  <2>1. Re!Draws(v5', v9', v11')
    BY <1>1 DEF Re!Draws, Re!Selected, Re!Visible, Re!Roots, Re!Rows, Re!CommitOf
  <2> QED
    BY <1>5, <2>1, DrawnIsHeld
<1>7. Re!Open \in Re!Roots(v5) \cup {None} /\ v10 = Re!Open
  BY <1>5, SelectedIsListed DEF Re!Open, Re!IInv, Re!OpenIsHeld
<1>8. Re!Roots(v5) \subseteq Re!Roots(v6)
  BY <1>1 DEF Re!IInv, Re!ListingsGrow
<1>9. Re!Open' = Re!Selected(v6, v9, v10, v11)
  BY <1>1, <1>6 DEF Re!OpenIsHeld, Re!Draws
<1>10. CASE v9 \in Re!Roots(v6)
  <2>1. v9 \in Re!Roots(v5) => Re!Open' = Re!Open
    BY <1>9, <1>10 DEF Re!Selected, Re!Open
  <2> QED
    BY <1>2, <1>3, <1>4, <1>6, <1>10, <2>1 DEF Re!IInv, Re!TheOpenAtlasStays
<1>11. CASE v9 \notin Re!Roots(v6)
  <2>1. Re!Open # None => Re!Open' = Re!Open
    BY <1>7, <1>8, <1>9, <1>11 DEF Re!Selected
  <2> QED
    BY <1>2, <1>4, <1>6, <2>1 DEF Re!IInv, Re!TheOpenAtlasStays
<1> QED
  BY <1>10, <1>11

\* Of the same listing another repository is opened only where the address names it.
LEMMA SearchesKeep ==
    ASSUME Re!RepositoriesAssumption, Re!IInv, UNCHANGED <<v1, v2, v3, v4, v5>>, v6' \in {v6, None, Asked},
           Re!Draws(v5, v9', v11')
    PROVE  Re!IInv' /\ Re!TheOpenAtlasStays
<1>1. Re!ListsAreOfWhatIsIndexed' /\ Re!ListingsGrow'
  BY ReadingsKeep DEF Re!IInv
<1>2. v5' = v5 /\ v5 \in {None} \cup Seq(Re!Answers)
  BY DEF Re!IInv, Re!ListsAreOfWhatIsIndexed
<1>3. Re!OpenIsHeld'
  <2>1. Re!Draws(v5', v9', v11')
    BY <1>2 DEF Re!Draws, Re!Selected, Re!Visible, Re!Roots, Re!Rows, Re!CommitOf
  <2> QED
    BY <1>2, <2>1, DrawnIsHeld
<1>4. Re!Open \in Re!Roots(v5) \cup {None} /\ v10 = Re!Open
  BY <1>2, SelectedIsListed DEF Re!Open, Re!IInv, Re!OpenIsHeld
<1>5. Re!Open' = Re!Selected(v5, v9', v10, v11')
  BY <1>3 DEF Re!OpenIsHeld, Re!Draws
<1>6. v9' = v9 /\ Re!Open # None => Re!Open' = Re!Open
  BY <1>4, <1>5 DEF Re!Selected, Re!Open
<1> QED
  BY <1>1, <1>3, <1>6 DEF Re!IInv, Re!TheOpenAtlasStays

\* No step opens another atlas but where the reader has named it.
LEMMA RepositoriesPreserved ==
    ASSUME Re!RepositoriesAssumption, Re!IInv, Re!Next \/ UNCHANGED Re!vars
    PROVE  Re!IInv' /\ Re!TheOpenAtlasStays
<1>1. ASSUME UNCHANGED <<v5, v9, v10, v11>>, Re!ListsAreOfWhatIsIndexed', Re!ListingsGrow'
      PROVE  Re!IInv' /\ Re!TheOpenAtlasStays
  BY <1>1, OpenStays DEF Re!IInv
<1>2. CASE UNCHANGED <<v1, v2, v3, v4, v5, v9, v10, v11>> /\ v6' \in {v6, None, Asked}
  BY <1>1, <1>2, ReadingsKeep DEF Re!IInv
<1>3. CASE Re!ListFails \/ Re!TryAgain \/ Re!CloneFails \/ UNCHANGED Re!vars
  BY <1>2, <1>3 DEF Re!ListFails, Re!TryAgain, Re!CloneFails, Re!vars, Re!disks, Re!view
<1>4. ASSUME NEW r \in ReRepos,
             Re!ReadSpots(r) \/ Re!Reindex(r) \/ Re!Reindexed(r) \/ Re!Fetch(r) \/ Re!Fetched(r) \/ Re!Clone(r)
      PROVE  Re!IInv' /\ Re!TheOpenAtlasStays
  <2>1. UNCHANGED <<v1, v2, v3, v4, v5, v9, v10, v11>>
    BY <1>4 DEF Re!ReadSpots, Re!Reindex, Re!Reindexed, Re!Fetch, Re!Fetched, Re!Clone, Re!disks, Re!view
  <2>2. v6' \in {v6, None, Asked}
    BY <1>4 DEF Re!ReadSpots, Re!Reindex, Re!Reindexed, Re!Fetch, Re!Fetched, Re!Clone, Re!Again
  <2> QED
    BY <1>2, <2>1, <2>2
<1>5. CASE \/ Re!ServerClones
           \/ \E r \in ReRepos : Re!ServerIndexes(r) \/ Re!ReviewStarts(r) \/ Re!ServerFetches(r) \/ Re!RemoteMoves(r)
  <2>1. UNCHANGED <<v5, v9, v10, v11>>
    BY <1>5 DEF Re!ServerClones, Re!ServerIndexes, Re!ReviewStarts, Re!ServerFetches, Re!RemoteMoves, Re!view
  <2> QED
    BY <1>1, <1>5, <2>1, IndexesKeep DEF Re!IInv
<1>6. CASE Re!ServerLists
  <2>1. UNCHANGED <<v5, v9, v10, v11>>
    BY <1>6 DEF Re!ServerLists, Re!view
  <2> QED
    BY <1>1, <1>6, <2>1, ListingsAreWhole DEF Re!IInv
<1>7. ASSUME NEW r \in ReRepos, Re!Select(r)
      PROVE  Re!IInv' /\ Re!TheOpenAtlasStays
  <2>1. UNCHANGED <<v1, v2, v3, v4, v5, v6>> /\ Re!Draws(v5, v9', v11')
    BY <1>7 DEF Re!Select, Re!disks
  <2> QED
    BY <2>1, SearchesKeep
<1>8. ASSUME NEW f, Re!Search(f)
      PROVE  Re!IInv' /\ Re!TheOpenAtlasStays
  <2>1. UNCHANGED <<v1, v2, v3, v4, v5, v6>> /\ Re!Draws(v5, v9', v11')
    BY <1>8 DEF Re!Search, Re!disks
  <2> QED
    BY <2>1, SearchesKeep
<1>9. CASE Re!Cloned
  <2>1. UNCHANGED <<v1, v2, v3, v4, v5>> /\ v6' \in {v6, None, Asked} /\ Re!Draws(v5, v9', v11')
    BY <1>9 DEF Re!Cloned, Re!Again, Re!disks
  <2> QED
    BY <2>1, SearchesKeep
<1>10. CASE Re!ListArrives
  BY <1>10, ArrivalsKeep
<1> QED
  BY <1>3, <1>4, <1>5, <1>6, <1>7, <1>8, <1>9, <1>10 DEF Re!Next

(***************************************************************************)
(* The pages together                                                      *)
(***************************************************************************)
\* Whichever page is open first, its invariant holds.
LEMMA WorkspaceInitially ==
    ASSUME WorkspaceInit
    PROVE  WorkspaceInvariant
  BY WorkspaceAssumption, SettingsInitially, PoliciesInitially, RepositoriesInitially, CasesInitially,
     GraceInitially, ShellInitially, ToastsInitially, ThemeInitially
  DEF WorkspaceAssumption, WorkspaceInit, WorkspaceInvariant

\* A step of a page is a step of its module, and the page stays open.
LEMMA WorkspaceSteps ==
    ASSUME WorkspaceNext
    PROVE  /\ page' = page /\ page \in {"Ms", "Po", "Re", "Ca", "Gw", "As", "To", "Th"}
           /\ page = "Ms" => Ms!Next
           /\ page = "Po" => Po!Next
           /\ page = "Re" => Re!Next
           /\ page = "Ca" => Ca!Next
           /\ page = "Gw" => Gw!Next
           /\ page = "As" => As!Next
           /\ page = "To" => To!Next
           /\ page = "Th" => Th!Next
  BY DEF WorkspaceNext, At

\* When nothing changes no page's variables do.
LEMMA WorkspaceStutters ==
    ASSUME UNCHANGED vars
    PROVE  /\ page' = page
           /\ UNCHANGED Ms!vars /\ UNCHANGED Po!vars /\ UNCHANGED Re!vars /\ UNCHANGED Ca!vars /\ UNCHANGED Gw!vars
           /\ UNCHANGED As!vars /\ UNCHANGED To!vars /\ UNCHANGED Th!vars
  BY DEF vars, Ms!vars, Ms!world, Ms!page, Po!vars, Po!server, Po!query, Po!card, Po!editor, Po!requests,
     Re!vars, Re!disks, Re!view, Ca!vars, Ca!lists, Gw!vars, Gw!disk, As!vars, As!reading, As!server, To!vars, Th!vars

\* Every page keeps its invariant.
LEMMA WorkspacePreserved ==
    ASSUME WorkspaceInvariant, WorkspaceNext \/ UNCHANGED vars
    PROVE  WorkspaceInvariant'
<1>1. /\ page' = page
      /\ page = "Ms" => Ms!Next \/ UNCHANGED Ms!vars
      /\ page = "Po" => Po!Next \/ UNCHANGED Po!vars
      /\ page = "Re" => Re!Next \/ UNCHANGED Re!vars
      /\ page = "Ca" => Ca!Next \/ UNCHANGED Ca!vars
      /\ page = "Gw" => Gw!Next \/ UNCHANGED Gw!vars
      /\ page = "As" => As!Next \/ UNCHANGED As!vars
      /\ page = "To" => To!Next \/ UNCHANGED To!vars
      /\ page = "Th" => Th!Next \/ UNCHANGED Th!vars
  BY WorkspaceSteps, WorkspaceStutters
<1>2. /\ page = "Ms" => Ms!IInv'
      /\ page = "Ca" => Ca!IInv'
  BY <1>1, WorkspaceAssumption, SettingsPreserved, CasesPreserved
  DEF WorkspaceAssumption, WorkspaceInvariant
<1>4. /\ page = "Po" => Po!IInv'
      /\ page = "Re" => Re!IInv'
  BY <1>1, WorkspaceAssumption, FilterPreserved, DraftsKept, RepositoriesPreserved
  DEF WorkspaceAssumption, WorkspaceInvariant, Po!IInv
<1>3. /\ page = "Gw" => Gw!IInv'
      /\ page = "As" => As!IInv'
      /\ page = "To" => To!IInv'
      /\ page = "Th" => Th!IInv'
  BY <1>1, WorkspaceAssumption, GracePreserved, ShellPreserved, ToastsPreserved, ThemePreserved
  DEF WorkspaceAssumption, WorkspaceInvariant
<1> QED
  BY <1>1, <1>2, <1>3, <1>4 DEF WorkspaceInvariant

\* The invariants say what the pages tell.
LEMMA WorkspaceTells ==
    ASSUME WorkspaceInvariant
    PROVE  PagesTellTheWorkspace
<1>1. page = "Ms" => Ms!TheSettledPageTellsTheChoice
  BY WorkspaceAssumption, SettledPageTells DEF WorkspaceAssumption, WorkspaceInvariant
<1>2. page = "Po" => Po!ChipsLeadSomewhere
  BY ChipsLead DEF WorkspaceInvariant, Po!IInv
<1>3. page = "Ca" => Ca!ScopesAreSavedWhereTheyWereTyped
  BY DEF WorkspaceInvariant, Ca!IInv
<1>4. page = "Gw" => Gw!TabsOutliveARebuild /\ Gw!TheDocumentIsWhole
  BY DocumentWhole DEF WorkspaceInvariant, Gw!IInv
<1>5. page = "As" => As!ThePageIsGivenBack /\ As!TheSearchIsHonest
  BY WorkspaceAssumption, ThePageComesBack, TheSearchHolds DEF WorkspaceAssumption, WorkspaceInvariant
<1>6. page = "To" => To!FailuresOutlastTheirMoment
  BY DEF WorkspaceInvariant, To!IInv
<1>7. page = "Th" => Th!ThePaintIsTheChoice
  BY DEF WorkspaceInvariant, Th!IInv
<1> QED
  BY <1>1, <1>2, <1>3, <1>4, <1>5, <1>6, <1>7 DEF PagesTellTheWorkspace

\* Nor does a step take from the reader what they are at.
LEMMA WorkspaceStands ==
    ASSUME WorkspaceInvariant, WorkspaceNext \/ UNCHANGED vars
    PROVE  /\ page = "Re" => Re!TheOpenAtlasStays
           /\ page = "Po" => Po!KnownDraftsAreAskedAbout
<1>1. /\ page = "Po" => Po!Next \/ UNCHANGED Po!vars
      /\ page = "Re" => Re!Next \/ UNCHANGED Re!vars
  BY WorkspaceSteps, WorkspaceStutters
<1> QED
  BY <1>1, WorkspaceAssumption, DraftsKept, RepositoriesPreserved
  DEF WorkspaceAssumption, WorkspaceInvariant, Po!IInv

(***************************************************************************)
(* Choosing a repository and its branch                                    *)
(***************************************************************************)
\* What is chosen at first is the last word.
LEMMA PickerInitially == ASSUME Rp!PickerAssumption, Rp!Init PROVE Rp!IInv
  BY DEF Rp!PickerAssumption, Rp!Init, Rp!IInv, Rp!LastWordIsHeld, Rp!AddressesAreRemotes, Rp!ClonesAreOfThatRemote

\* A choice made anywhere is the last word, on the tab of folders or off it.
LEMMA ChooseKeeps ==
    ASSUME v4 \in BOOLEAN, Rp!LastWordIsHeld, NEW p, Rp!Choose(p), v2' = v2
    PROVE  v4' \in BOOLEAN /\ Rp!LastWordIsHeld'
  BY DEF Rp!Choose, Rp!LastWordIsHeld, Rp!Tab

\* Every step leaves one of the two with the last word.
LEMMA LastWordKept ==
    ASSUME Rp!IInv, Rp!Next \/ UNCHANGED Rp!vars
    PROVE  v4' \in BOOLEAN /\ Rp!LastWordIsHeld'
<1>1. v4 \in BOOLEAN /\ Rp!LastWordIsHeld
  BY DEF Rp!IInv
<1>2. ASSUME NEW t \in {"recent", "browse", "clone", "example"}, Rp!PickTab(t)
      PROVE  v4' \in BOOLEAN /\ Rp!LastWordIsHeld'
  BY <1>1, <1>2 DEF Rp!PickTab, Rp!LastWordIsHeld, Rp!Tab
<1>3. ASSUME NEW p \in RpPaths, Rp!PickIndexed(p) \/ Rp!Cloned(p) \/ Rp!Loaded(p)
      PROVE  v4' \in BOOLEAN /\ Rp!LastWordIsHeld'
  <2>1. Rp!Choose(p) /\ v2' = v2
    BY <1>3 DEF Rp!PickIndexed, Rp!Cloned, Rp!Loaded
  <2> QED
    BY <1>1, <2>1, ChooseKeeps
<1>4. CASE Rp!Drifts
  <2>1. CASE \E p \in RpPaths : Rp!Choose(p)
    <3>1. v2' = v2
      BY <1>4 DEF Rp!Drifts
    <3> QED
      BY <1>1, <2>1, <3>1, ChooseKeeps
  <2>2. CASE UNCHANGED <<v1, Rp!field, v16>>
    BY <1>1, <1>4, <2>2 DEF Rp!Drifts, Rp!field, Rp!LastWordIsHeld, Rp!Tab
  <2> QED
    BY <1>4, <2>1, <2>2 DEF Rp!Drifts
<1>5. ASSUME NEW x, Rp!TypePath(x)
      PROVE  v4' \in BOOLEAN /\ Rp!LastWordIsHeld'
  BY <1>1, <1>5 DEF Rp!TypePath, Rp!LastWordIsHeld, Rp!Tab
<1>6. CASE Rp!OpenFolder \/ Rp!LeaveField
  BY <1>1, <1>6 DEF Rp!OpenFolder, Rp!LeaveField, Rp!Blurred, Rp!field, Rp!LastWordIsHeld, Rp!Tab
<1>7. CASE Rp!UseFolder \/ Rp!Settles
  BY <1>1, <1>7 DEF Rp!UseFolder, Rp!Settles, Rp!LastWordIsHeld, Rp!Tab
<1>8. CASE UNCHANGED <<v1, v2, v3, v4, v16>>
  BY <1>1, <1>8 DEF Rp!LastWordIsHeld, Rp!Tab
<1>9. ASSUME NEW u, Rp!TypeUrl(u) \/ Rp!PickBranch(u) \/ Rp!TypeBranch(u) \/ Rp!RemoteAnswers(u)
      PROVE  UNCHANGED <<v1, v2, v3, v4, v16>>
  BY <1>9 DEF Rp!TypeUrl, Rp!PickBranch, Rp!TypeBranch, Rp!RemoteAnswers, Rp!field
<1>10. ASSUME Rp!ListingArrives \/ Rp!Probes \/ Rp!NameItMyself \/ Rp!Clone \/ Rp!CloneFails \/ Rp!LoadExample
              \/ Rp!LoadFails \/ UNCHANGED Rp!vars
       PROVE  UNCHANGED <<v1, v2, v3, v4, v16>>
  BY <1>10 DEF Rp!ListingArrives, Rp!Probes, Rp!NameItMyself, Rp!Clone, Rp!CloneFails, Rp!LoadExample, Rp!LoadFails,
     Rp!vars, Rp!field
<1> QED
  BY <1>2, <1>3, <1>4, <1>5, <1>6, <1>7, <1>8, <1>9, <1>10 DEF Rp!Next

\* The branch that a render keeps is one of those the remote publishes, once they are listed.
LEMMA HeldIsPublished ==
    ASSUME NEW p, NEW k, NEW b, p # None, k[p] = "listed", RpPublished[p] # {}
    PROVE  Rp!Held(p, k, b) \in RpPublished[p] \cup {None}
  BY DEF Rp!Held, Rp!Offered

\* A remote is asked about as it is asked or answers, and its branches hold from then on.
LEMMA BranchKept ==
    ASSUME Rp!PickerAssumption, Rp!IInv, Rp!Next \/ UNCHANGED Rp!vars
    PROVE  Rp!AddressesAreRemotes' /\ Rp!ClonesAreOfThatRemote'
<1>1. /\ v5 \in RpRemotes \cup {None} /\ v7 \in RpRemotes \cup {None} /\ None \notin RpRemotes
      /\ v8 \in [RpRemotes -> {"unread", "reading", "failed", "listed"}]
      /\ Rp!ClonesAreOfThatRemote
  BY DEF Rp!IInv, Rp!AddressesAreRemotes, Rp!PickerAssumption
<1>2. CASE UNCHANGED <<v5, v6, v7, v8, v9>>
  BY <1>1, <1>2 DEF Rp!AddressesAreRemotes, Rp!ClonesAreOfThatRemote
<1>3. ASSUME NEW t, Rp!PickTab(t)
      PROVE  Rp!AddressesAreRemotes' /\ Rp!ClonesAreOfThatRemote'
  BY <1>1, <1>3 DEF Rp!PickTab, Rp!AddressesAreRemotes, Rp!ClonesAreOfThatRemote
<1>4. ASSUME NEW u \in RpRemotes \cup {None}, Rp!TypeUrl(u)
      PROVE  Rp!AddressesAreRemotes' /\ Rp!ClonesAreOfThatRemote'
  BY <1>1, <1>4 DEF Rp!TypeUrl, Rp!AddressesAreRemotes, Rp!ClonesAreOfThatRemote
<1>5. CASE Rp!Probes
  <2>1. v5' = v5 /\ v7' = v5 /\ v8' = Rp!Asks(v5, v8) /\ v9' = Rp!Held(v5, v8, v9)
    BY <1>5 DEF Rp!Probes
  <2>2. v8' \in [RpRemotes -> {"unread", "reading", "failed", "listed"}]
    BY <1>1, <2>1 DEF Rp!Asks
  <2>3. \A r \in RpRemotes : v8'[r] = "listed" => v8[r] = "listed"
    BY <1>1, <2>1 DEF Rp!Asks
  <2>4. \A r \in RpRemotes : v8'[r] = "listed" /\ v5 = r /\ RpPublished[r] # {} => v9' \in RpPublished[r] \cup {None}
    BY <1>1, <2>1, <2>3, HeldIsPublished
  <2> QED
    BY <1>1, <2>1, <2>2, <2>4 DEF Rp!AddressesAreRemotes, Rp!ClonesAreOfThatRemote
<1>6. ASSUME NEW q \in RpRemotes, Rp!RemoteAnswers(q)
      PROVE  Rp!AddressesAreRemotes' /\ Rp!ClonesAreOfThatRemote'
  <2>1. v5' = v5 /\ v7' = v7 /\ v9' = Rp!Held(v7, v8', v9)
    BY <1>6 DEF Rp!RemoteAnswers
  <2>2. v8' \in [RpRemotes -> {"unread", "reading", "failed", "listed"}]
    BY <1>1, <1>6 DEF Rp!RemoteAnswers
  <2>3. \A r \in RpRemotes : v8'[r] = "listed" /\ v7 = r /\ RpPublished[r] # {} => v9' \in RpPublished[r] \cup {None}
    BY <1>1, <2>1, HeldIsPublished
  <2> QED
    BY <1>1, <2>1, <2>2, <2>3 DEF Rp!AddressesAreRemotes, Rp!ClonesAreOfThatRemote
<1>7. ASSUME NEW b, Rp!PickBranch(b) \/ Rp!TypeBranch(b)
      PROVE  Rp!AddressesAreRemotes' /\ Rp!ClonesAreOfThatRemote'
  <2>1. UNCHANGED <<v5, v6, v7, v8>>
    BY <1>7 DEF Rp!PickBranch, Rp!TypeBranch
  <2>2. \A r \in RpRemotes : v8[r] = "listed" /\ v7 = r /\ RpPublished[r] # {} => v9' \in RpPublished[r] \cup {None}
    <3>1. CASE Rp!PickBranch(b)
      BY <1>1, <3>1 DEF Rp!PickBranch, Rp!Offered
    <3>2. CASE Rp!TypeBranch(b)
      <4>1. v9' = Rp!Held(v7, v8, b)
        BY <3>2 DEF Rp!TypeBranch
      <4> QED
        BY <1>1, <4>1, HeldIsPublished
    <3> QED
      BY <1>7, <3>1, <3>2
  <2> QED
    BY <1>1, <2>1, <2>2 DEF Rp!AddressesAreRemotes, Rp!ClonesAreOfThatRemote
<1>8. CASE Rp!NameItMyself
  BY <1>1, <1>8 DEF Rp!NameItMyself, Rp!AddressesAreRemotes, Rp!ClonesAreOfThatRemote
<1>9. ASSUME NEW p, Rp!PickIndexed(p) \/ Rp!Cloned(p) \/ Rp!Loaded(p) \/ Rp!TypePath(p)
      PROVE  UNCHANGED <<v5, v6, v7, v8, v9>>
  BY <1>9 DEF Rp!PickIndexed, Rp!Cloned, Rp!Loaded, Rp!TypePath, Rp!form
<1>10. ASSUME \/ Rp!ListingArrives \/ Rp!OpenFolder \/ Rp!UseFolder \/ Rp!Settles \/ Rp!LeaveField
              \/ Rp!Clone \/ Rp!CloneFails \/ Rp!LoadExample \/ Rp!LoadFails \/ Rp!Drifts \/ UNCHANGED Rp!vars
       PROVE  UNCHANGED <<v5, v6, v7, v8, v9>>
  BY <1>10 DEF Rp!ListingArrives, Rp!OpenFolder, Rp!UseFolder, Rp!Settles, Rp!LeaveField, Rp!Clone, Rp!CloneFails,
     Rp!LoadExample, Rp!LoadFails, Rp!Drifts, Rp!form, Rp!vars
<1> QED
  BY <1>2, <1>3, <1>4, <1>5, <1>6, <1>7, <1>8, <1>9, <1>10 DEF Rp!Next

\* Every step keeps the invariant.
LEMMA PickerPreserved ==
    ASSUME Rp!PickerAssumption, Rp!IInv, Rp!Next \/ UNCHANGED Rp!vars
    PROVE  Rp!IInv'
  BY LastWordKept, BranchKept DEF Rp!IInv

\* Whichever of the two holds the last word, it is the choice once they agree.
LEMMA LastWordChosen == ASSUME Rp!IInv PROVE Rp!TheLastWordIsTheChoice
  BY DEF Rp!IInv, Rp!LastWordIsHeld, Rp!TheLastWordIsTheChoice

(***************************************************************************)
(* Starting a review of it                                                 *)
(***************************************************************************)
\* A set with one press, and a set with none, on the start page.
LEMMA StartCounts == Sr!Cardinality({}) = 0 /\ \A x : Sr!Cardinality({x}) = 1
  BY FS_Singleton, FS_EmptySet DEF Sr!Cardinality, Cardinality

\* The folders of a repository are folders.
LEMMA TreesAreFolders == \A r \in SrRoots : SrTree[r] \subseteq Sr!Folders
  BY DEF Sr!Folders

\* The page opens on nothing.
LEMMA StartInitially == ASSUME Sr!StartAssumption, Sr!Init PROVE Sr!IInv
<1>1. Sr!TypeOK /\ Sr!MemoryIsTheForm /\ Sr!ScopesAreKept
  BY DEF Sr!StartAssumption, Sr!Init, Sr!TypeOK, Sr!Choice, Sr!Nothing, Sr!MemoryIsTheForm, Sr!ScopesAreKept
<1>2. v9 = << >> /\ << >> \in Seq(Sr!Press) /\ DOMAIN << >> = {}
  BY DEF Sr!Init
<1>3. Sr!PressesAreKept /\ Sr!PhaseIsOfThePress
  BY <1>2 DEF Sr!Init, Sr!PressesAreKept, Sr!PhaseIsOfThePress
<1>4. Sr!ScopeIsOfTheRepository
  BY <1>2 DEF Sr!Init, Sr!Nothing, Sr!ScopeIsOfTheRepository
<1> QED
  BY <1>1, <1>3, <1>4 DEF Sr!IInv

\* What is shown or pressed with c leaves folders out of its repository.
OfItsRepository(c) == c.excluded \subseteq IF c.root = None THEN {} ELSE SrTree[c.root]

\* What the invariant says, part by part.
LEMMA StartParts ==
    ASSUME Sr!IInv
    PROVE  /\ v1 \in {"start", "run", "away"} /\ v2 \in Sr!Choice /\ v3 = v2 /\ v4 \in Nat
           /\ v5 \in {"idle", "indexing", "starting"} /\ v6 \in BOOLEAN /\ v7 \in BOOLEAN
           /\ v8 \in [SrRoots -> {"unread", "read", "failed"}] /\ v10 \in [SrRoots -> SUBSET Sr!Folders]
           /\ \A r \in SrRoots : v10[r] \subseteq SrTree[r]
           /\ v9 \in Seq(Sr!Press)
           /\ \A i \in DOMAIN v9 :
                 /\ v9[i] \in Sr!Press /\ v9[i].mount <= v4 /\ OfItsRepository(v9[i])
                 /\ v9[i].state \in {"starting", "running", "run", "failed run"} => v9[i].root # None
           /\ OfItsRepository(v2)
<1>1. /\ v1 \in {"start", "run", "away"} /\ v2 \in Sr!Choice /\ v3 = v2 /\ v4 \in Nat
      /\ v5 \in {"idle", "indexing", "starting"} /\ v6 \in BOOLEAN /\ v7 \in BOOLEAN
      /\ v8 \in [SrRoots -> {"unread", "read", "failed"}] /\ v10 \in [SrRoots -> SUBSET Sr!Folders]
      /\ \A r \in SrRoots : v10[r] \subseteq SrTree[r]
  BY DEF Sr!IInv, Sr!TypeOK, Sr!MemoryIsTheForm, Sr!ScopesAreKept
<1>2. /\ v9 \in Seq(Sr!Press)
      /\ \A i \in DOMAIN v9 :
            /\ v9[i].mount <= v4
            /\ v9[i].state \in {"starting", "running", "run", "failed run"} => v9[i].root # None
  BY DEF Sr!IInv, Sr!PressesAreKept
<1>3. \A i \in DOMAIN v9 : v9[i] \in Sr!Press
  <2>1. v9 \in Seq(Sr!Press)
    BY <1>2
  <2> QED
    BY <2>1
<1>4. OfItsRepository(v2) /\ \A i \in DOMAIN v9 : OfItsRepository(v9[i])
  BY DEF Sr!IInv, Sr!ScopeIsOfTheRepository, OfItsRepository
<1> QED
  BY <1>1, <1>2, <1>3, <1>4

\* The choice changes and no press does.
LEMMA ChoiceKeeps ==
    ASSUME Sr!IInv, v2' \in Sr!Choice, OfItsRepository(v2'), v3' = v2', v9' = v9, v10' = v10, v7' = v7,
           v8' = v8,
           \/ v1' = v1 /\ v4' = v4 /\ v5' = v5 /\ v6' = v6
           \/ v1' = "start" /\ v4' = v4 + 1 /\ v5' = "idle" /\ v6' = FALSE
    PROVE  Sr!IInv'
<1>1. Sr!TypeOK' /\ Sr!MemoryIsTheForm' /\ Sr!ScopesAreKept'
  <2>1. v4' \in Nat
    <3>1. v4 \in Nat /\ (v4' = v4 \/ v4' = v4 + 1)
      BY StartParts
    <3> QED
      BY <3>1
  <2>2. v1' \in {"start", "run", "away"} /\ v5' \in {"idle", "indexing", "starting"} /\ v6' \in BOOLEAN
    BY StartParts
  <2> QED
    BY <2>1, <2>2, StartParts DEF Sr!IInv, Sr!TypeOK, Sr!MemoryIsTheForm, Sr!ScopesAreKept
<1>2. Sr!ScopeIsOfTheRepository'
  BY StartParts DEF Sr!ScopeIsOfTheRepository, OfItsRepository
<1>3. \A i \in DOMAIN v9 : v9[i].mount \in Nat /\ v9[i].mount <= v4
  BY StartParts DEF Sr!Press
<1>4. v4 \in Nat /\ (v4' = v4 \/ v4' = v4 + 1)
  BY StartParts
<1>5. Sr!PressesAreKept'
  <2>1. \A i \in DOMAIN v9 : v9[i].mount <= v4'
    BY <1>3, <1>4
  <2> QED
    BY <2>1, StartParts DEF Sr!PressesAreKept
<1>6. Sr!PhaseIsOfThePress'
  <2>1. CASE v1' = v1 /\ v4' = v4 /\ v5' = v5
    BY <2>1 DEF Sr!IInv, Sr!PhaseIsOfThePress, Sr!UnderWay
  <2>2. CASE v1' = "start" /\ v4' = v4 + 1 /\ v5' = "idle"
    <3>1. \A i \in DOMAIN v9' : v9'[i].mount # v4'
      BY <1>3, <1>4, <2>2
    <3> QED
      BY <2>2, <3>1 DEF Sr!PhaseIsOfThePress, Sr!UnderWay
  <2> QED
    BY <2>1, <2>2
<1> QED
  BY <1>1, <1>2, <1>5, <1>6 DEF Sr!IInv

\* What the reader makes of the choice on the page.
LEMMA ReaderChooses ==
    ASSUME Sr!StartAssumption, Sr!IInv,
           \/ \E r \in SrRoots \cup {None} : Sr!Choose(r)
           \/ \E b \in BOOLEAN : Sr!SetClean(b)
           \/ \E f \in Sr!Folders : Sr!Toggle(f)
           \/ Sr!SkipTheUsual \/ Sr!ReviewAllOfIt
    PROVE  Sr!IInv'
<1>1. v3' = v2' /\ v9' = v9 /\ v10' = v10 /\ v7' = v7 /\ v8' = v8 /\ v1' = v1 /\ v4' = v4 /\ v5' = v5 /\ v6' = v6
  BY DEF Sr!Choose, Sr!SetClean, Sr!Toggle, Sr!SkipTheUsual, Sr!ReviewAllOfIt, Sr!Show, Sr!Kept
<1>2. v2 \in Sr!Choice /\ OfItsRepository(v2)
  BY StartParts
<1>3. \A x \in SUBSET Sr!Folders :
          /\ [v2 EXCEPT !.excluded = x] \in Sr!Choice
          /\ [v2 EXCEPT !.excluded = x].root = v2.root /\ [v2 EXCEPT !.excluded = x].excluded = x
  BY <1>2 DEF Sr!Choice
<1>4. /\ v2.excluded \subseteq Sr!Folders
      /\ Sr!Listed \subseteq Sr!Folders
      /\ Sr!Listed \subseteq IF v2.root = None THEN {} ELSE SrTree[v2.root]
  BY <1>2, TreesAreFolders DEF Sr!Choice, Sr!Listed
<1>5. v2' \in Sr!Choice /\ OfItsRepository(v2')
  <2>1. ASSUME NEW x \in SUBSET Sr!Folders, v2' = [v2 EXCEPT !.excluded = x],
               x \subseteq v2.excluded \cup Sr!Listed
        PROVE  v2' \in Sr!Choice /\ OfItsRepository(v2')
    <3>1. v2' \in Sr!Choice /\ v2'.root = v2.root /\ v2'.excluded = x
      BY <1>3, <2>1
    <3> QED
      BY <1>2, <1>4, <2>1, <3>1 DEF OfItsRepository
  <2>2. ASSUME NEW r \in SrRoots \cup {None}, Sr!Choose(r)
        PROVE  v2' \in Sr!Choice /\ OfItsRepository(v2')
    <3>1. v2' = [v2 EXCEPT !.root = r, !.excluded = {}]
      BY <2>2 DEF Sr!Choose, Sr!Show, Sr!Chosen
    <3>2. v2' \in Sr!Choice /\ v2'.excluded = {}
      BY <1>2, <3>1 DEF Sr!Choice
    <3> QED
      BY <3>2 DEF OfItsRepository
  <2>3. ASSUME NEW b \in BOOLEAN, Sr!SetClean(b)
        PROVE  v2' \in Sr!Choice /\ OfItsRepository(v2')
    <3>1. v2' = [v2 EXCEPT !.clean = b]
      BY <2>3 DEF Sr!SetClean, Sr!Show
    <3>2. v2' \in Sr!Choice /\ v2'.root = v2.root /\ v2'.excluded = v2.excluded
      BY <1>2, <3>1 DEF Sr!Choice
    <3> QED
      BY <1>2, <3>2 DEF OfItsRepository
  <2>4. ASSUME NEW f \in Sr!Folders, Sr!Toggle(f)
        PROVE  v2' \in Sr!Choice /\ OfItsRepository(v2')
    <3>1. f \in Sr!Listed /\ v2' = [v2 EXCEPT !.excluded = Sr!Toggled(f)]
      BY <2>4 DEF Sr!Toggle, Sr!Show
    <3>2. Sr!Toggled(f) \subseteq v2.excluded \cup Sr!Listed
      BY <3>1 DEF Sr!Toggled
    <3> QED
      BY <1>4, <2>1, <3>1, <3>2
  <2>5. CASE Sr!SkipTheUsual
    <3>1. v2' = [v2 EXCEPT !.excluded = v2.excluded \cup (SrUsual \cap Sr!Listed)]
      BY <2>5 DEF Sr!SkipTheUsual, Sr!Show
    <3>2. v2.excluded \cup (SrUsual \cap Sr!Listed) \subseteq v2.excluded \cup Sr!Listed
      OBVIOUS
    <3> QED
      BY <1>4, <2>1, <3>1, <3>2
  <2>6. CASE Sr!ReviewAllOfIt
    <3>1. v2' = [v2 EXCEPT !.excluded = {}]
      BY <2>6 DEF Sr!ReviewAllOfIt, Sr!Show
    <3>2. {} \subseteq v2.excluded \cup Sr!Listed
      OBVIOUS
    <3>3. {} \in SUBSET Sr!Folders
      OBVIOUS
    <3> QED
      BY <2>1, <3>1, <3>2, <3>3
  <2> QED
    BY <2>2, <2>3, <2>4, <2>5, <2>6
<1> QED
  BY <1>1, <1>5, ChoiceKeeps

\* The page opens again on what is remembered, on what is handed over, or on what a run was for.
LEMMA PageOpensAgain ==
    ASSUME Sr!StartAssumption, Sr!IInv,
           \/ Sr!Open \/ \E r \in SrRoots : Sr!OpenHanded(r)
           \/ \E i \in DOMAIN v9 : Sr!StartAgain(i)
    PROVE  Sr!IInv'
<1>1. /\ v3' = v2' /\ v9' = v9 /\ v10' = v10 /\ v7' = v7 /\ v8' = v8
      /\ v1' = "start" /\ v4' = v4 + 1 /\ v5' = "idle" /\ v6' = FALSE
  BY DEF Sr!Open, Sr!OpenHanded, Sr!StartAgain, Sr!Opens, Sr!Show
<1>2. v2' \in Sr!Choice /\ OfItsRepository(v2')
  <2>1. ASSUME NEW r \in SrRoots, NEW x \in SUBSET Sr!Folders, x \subseteq SrTree[r],
               v2' = [root |-> r, excluded |-> x, clean |-> FALSE]
        PROVE  v2' \in Sr!Choice /\ OfItsRepository(v2')
    BY <2>1 DEF Sr!Choice, OfItsRepository, Sr!StartAssumption
  <2>2. ASSUME NEW r \in SrRoots, Sr!OpenHanded(r)
        PROVE  v2' \in Sr!Choice /\ OfItsRepository(v2')
    <3>1. v2' = [root |-> r, excluded |-> {}, clean |-> FALSE]
      BY <2>2 DEF Sr!OpenHanded, Sr!Opens, Sr!Show
    <3>2. {} \in SUBSET Sr!Folders /\ {} \subseteq SrTree[r]
      OBVIOUS
    <3> QED
      BY <2>1, <3>1, <3>2
  <2>3. CASE Sr!Open
    BY <2>3, StartParts DEF Sr!Open, Sr!Opens, Sr!Show
  <2>4. ASSUME NEW i \in DOMAIN v9, Sr!StartAgain(i)
        PROVE  v2' \in Sr!Choice /\ OfItsRepository(v2')
    <3>1. /\ v9[i].state = "failed run"
          /\ v2' = [root |-> v9[i].root, excluded |-> v10[v9[i].root], clean |-> FALSE]
      BY <2>4 DEF Sr!StartAgain, Sr!Opens, Sr!Show
    <3>2. v9[i].root \in SrRoots
      BY <3>1, StartParts DEF Sr!Press
    <3>3. v10[v9[i].root] \in SUBSET Sr!Folders /\ v10[v9[i].root] \subseteq SrTree[v9[i].root]
      BY <3>2, StartParts
    <3> QED
      BY <2>1, <3>1, <3>2, <3>3
  <2> QED
    BY <2>2, <2>3, <2>4
<1> QED
  BY <1>1, <1>2, ChoiceKeeps

\* The form stays, and what becomes of the presses and of the page's phase is as it should be.
LEMMA PressesKeep ==
    ASSUME Sr!IInv, v2' = v2, v3' = v3, v4' = v4, v1' \in {"start", "run", "away"},
           v5' \in {"idle", "indexing", "starting"}, v6' \in BOOLEAN, v7' \in BOOLEAN,
           v8' \in [SrRoots -> {"unread", "read", "failed"}], v10' \in [SrRoots -> SUBSET Sr!Folders],
           \A r \in SrRoots : v10'[r] \subseteq SrTree[r],
           v9' \in Seq(Sr!Press),
           \A i \in DOMAIN v9' :
                 /\ v9'[i].mount <= v4 /\ OfItsRepository(v9'[i])
                 /\ v9'[i].state \in {"starting", "running", "run", "failed run"} => v9'[i].root # None,
           Sr!PhaseIsOfThePress'
    PROVE  Sr!IInv'
<1>1. Sr!TypeOK' /\ Sr!MemoryIsTheForm' /\ Sr!ScopesAreKept' /\ Sr!PressesAreKept'
  BY DEF Sr!IInv, Sr!TypeOK, Sr!MemoryIsTheForm, Sr!ScopesAreKept, Sr!PressesAreKept
<1>2. Sr!ScopeIsOfTheRepository'
  BY StartParts DEF Sr!ScopeIsOfTheRepository, OfItsRepository
<1> QED
  BY <1>1, <1>2 DEF Sr!IInv

\* A press goes on the list of them, and is the only one of its visit under way.
LEMMA StartKeeps ==
    ASSUME Sr!IInv, Sr!PressRun \/ Sr!TryAgain
    PROVE  Sr!IInv'
<1> DEFINE new == [root |-> v2.root, excluded |-> v2.excluded, clean |-> v2.clean, mount |-> v4, state |-> "indexing"]
<1>1. /\ v1 = "start" /\ v5 = "idle" /\ v5' = "indexing" /\ v6' = FALSE /\ v9' = Append(v9, new)
      /\ v1' = v1 /\ v2' = v2 /\ v3' = v3 /\ v4' = v4 /\ v7' = v7 /\ v8' = v8 /\ v10' = v10
  BY DEF Sr!PressRun, Sr!TryAgain, Sr!Start
<1>2. new \in Sr!Press /\ new.mount = v4 /\ new.state = "indexing" /\ OfItsRepository(new)
  BY StartParts DEF Sr!Choice, Sr!Press, OfItsRepository
<1> HIDE DEF new
<1>3. v9 \in Seq(Sr!Press) /\ Len(v9) \in Nat /\ DOMAIN v9 = 1 .. Len(v9)
  <2>1. v9 \in Seq(Sr!Press)
    BY StartParts
  <2> QED
    BY <2>1
<1>4. /\ v9' \in Seq(Sr!Press) /\ DOMAIN v9' = 1 .. Len(v9) + 1 /\ v9'[Len(v9) + 1] = new
      /\ \A i \in 1 .. Len(v9) : v9'[i] = v9[i]
  BY <1>1, <1>2, <1>3
<1>5. \A i \in DOMAIN v9' : i = Len(v9) + 1 \/ (i \in DOMAIN v9 /\ v9'[i] = v9[i])
  BY <1>3, <1>4
<1>6. \A i \in DOMAIN v9' :
          /\ v9'[i].mount <= v4 /\ OfItsRepository(v9'[i])
          /\ v9'[i].state \in {"starting", "running", "run", "failed run"} => v9'[i].root # None
  <2> TAKE i \in DOMAIN v9'
  <2>1. CASE i = Len(v9) + 1
    <3>1. v4 <= v4
      <4>1. v4 \in Nat
        BY StartParts
      <4> QED
        BY <4>1
    <3> QED
      BY <1>2, <1>4, <2>1, <3>1
  <2>2. CASE i \in DOMAIN v9 /\ v9'[i] = v9[i]
    BY <2>2, StartParts
  <2> QED
    BY <1>5, <2>1, <2>2
<1>7. \A i \in DOMAIN v9 : ~(v9[i].mount = v4 /\ v9[i].state \in {"indexing", "starting"})
  BY <1>1 DEF Sr!IInv, Sr!PhaseIsOfThePress, Sr!UnderWay
<1>8. \A i \in DOMAIN v9' : (v9'[i].mount = v4 /\ v9'[i].state \in {"indexing", "starting"}) <=> i = Len(v9) + 1
  <2> TAKE i \in DOMAIN v9'
  <2>1. CASE i = Len(v9) + 1
    BY <1>2, <1>4, <2>1
  <2>2. CASE i \in DOMAIN v9 /\ v9'[i] = v9[i]
    <3>1. i # Len(v9) + 1
      BY <1>3, <2>2
    <3> QED
      BY <1>7, <2>2, <3>1
  <2> QED
    BY <1>5, <2>1, <2>2
<1>9. Sr!PhaseIsOfThePress'
  <2>1. Len(v9) + 1 \in DOMAIN v9'
    BY <1>3, <1>4
  <2> QED
    BY <1>1, <1>8, <2>1 DEF Sr!PhaseIsOfThePress, Sr!UnderWay
<1> QED
  BY <1>1, <1>4, <1>6, <1>9, StartParts, PressesKeep

\* One element of a sequence is replaced.
LEMMA Replaced ==
    ASSUME NEW A, NEW q \in Seq(A), NEW i \in DOMAIN q, NEW e \in A
    PROVE  /\ [q EXCEPT ![i] = e] \in Seq(A) /\ DOMAIN [q EXCEPT ![i] = e] = DOMAIN q
           /\ \A j \in DOMAIN q : [q EXCEPT ![i] = e][j] = IF j = i THEN e ELSE q[j]
  OBVIOUS

\* A press whose state changes is still of its visit and of its repository.
LEMMA PressBecomes ==
    ASSUME Sr!IInv, NEW i \in DOMAIN v9,
           NEW s \in {"indexing", "starting", "running", "run", "failed run", "refused"}, Sr!Becomes(i, s)
    PROVE  /\ v9' \in Seq(Sr!Press) /\ DOMAIN v9' = DOMAIN v9
           /\ \A j \in DOMAIN v9 : /\ v9'[j].mount = v9[j].mount /\ v9'[j].root = v9[j].root
                                   /\ v9'[j].excluded = v9[j].excluded
                                   /\ (j = i => v9'[j].state = s) /\ (j # i => v9'[j].state = v9[j].state)
<1>1. v9 \in Seq(Sr!Press) /\ v9[i] \in Sr!Press /\ v9' = [v9 EXCEPT ![i].state = s]
  BY StartParts DEF Sr!Becomes
<1> DEFINE p == [v9[i] EXCEPT !.state = s]
<1>2. p \in Sr!Press /\ p.mount = v9[i].mount /\ p.root = v9[i].root /\ p.excluded = v9[i].excluded /\ p.state = s
  BY <1>1 DEF Sr!Press
<1>3. v9' = [v9 EXCEPT ![i] = p]
  BY <1>1
<1> HIDE DEF p
<1>4. v9' \in Seq(Sr!Press) /\ DOMAIN v9' = DOMAIN v9 /\ \A j \in DOMAIN v9 : v9'[j] = IF j = i THEN p ELSE v9[j]
  <2>1. v9 \in Seq(Sr!Press) /\ p \in Sr!Press
    BY <1>1, <1>2
  <2>2. /\ [v9 EXCEPT ![i] = p] \in Seq(Sr!Press) /\ DOMAIN [v9 EXCEPT ![i] = p] = DOMAIN v9
        /\ \A j \in DOMAIN v9 : [v9 EXCEPT ![i] = p][j] = IF j = i THEN p ELSE v9[j]
    BY <2>1, Replaced, Zenon
  <2> QED
    BY <1>3, <2>2
<1> QED
  BY <1>2, <1>4

\* A press that is answered, runs or ends, with the page told where the visit is still its own.
LEMMA AnswerKeeps ==
    ASSUME Sr!IInv, NEW i \in DOMAIN v9,
           NEW s \in {"indexing", "starting", "running", "run", "failed run", "refused"}, Sr!Becomes(i, s),
           s \in {"starting", "running", "run", "failed run"} => v9[i].root # None,
           v2' = v2, v3' = v3, v4' = v4, v7' = v7, v8' = v8, v1' = v1 \/ v1' = "run",
           v10' \in [SrRoots -> SUBSET Sr!Folders], \A r \in SrRoots : v10'[r] \subseteq SrTree[r],
           \/ v1' = "run" /\ v5' = v5 /\ v6' = v6
           \/ s = "starting" /\ v9[i].state = "indexing" /\ Sr!Says(i, "starting", v6)
           \/ s = "refused" /\ v9[i].state \in {"indexing", "starting"} /\ Sr!Says(i, "idle", TRUE)
           \/ v5' = v5 /\ v6' = v6 /\ v9[i].state = "running" /\ s \in {"run", "failed run"}
    PROVE  Sr!IInv'
<1>1. /\ v9' \in Seq(Sr!Press) /\ DOMAIN v9' = DOMAIN v9
      /\ \A j \in DOMAIN v9 : /\ v9'[j].mount = v9[j].mount /\ v9'[j].root = v9[j].root
                              /\ v9'[j].excluded = v9[j].excluded
                              /\ (j = i => v9'[j].state = s) /\ (j # i => v9'[j].state = v9[j].state)
  BY PressBecomes, Zenon
<1>2. \A j \in DOMAIN v9' :
          /\ v9'[j].mount <= v4 /\ OfItsRepository(v9'[j])
          /\ v9'[j].state \in {"starting", "running", "run", "failed run"} => v9'[j].root # None
  BY <1>1, StartParts DEF OfItsRepository
<1>3. /\ v1' \in {"start", "run", "away"} /\ v5' \in {"idle", "indexing", "starting"} /\ v6' \in BOOLEAN
  BY StartParts DEF Sr!Says
<1>4. Sr!PhaseIsOfThePress'
  <2> SUFFICES ASSUME v1' = "start"
               PROVE  /\ \A j, k \in DOMAIN v9' : Sr!UnderWay(j)' /\ Sr!UnderWay(k)' => j = k
                      /\ (v5' # "idle") = \E j \in DOMAIN v9' : Sr!UnderWay(j)'
    BY DEF Sr!PhaseIsOfThePress
  <2>1. v1 = "start" /\ v1' # "run"
    OBVIOUS
  <2>2. /\ \A j, k \in DOMAIN v9 : Sr!UnderWay(j) /\ Sr!UnderWay(k) => j = k
        /\ (v5 # "idle") = \E j \in DOMAIN v9 : Sr!UnderWay(j)
    BY <2>1 DEF Sr!IInv, Sr!PhaseIsOfThePress
  <2>3. \A j \in DOMAIN v9 : j # i => (Sr!UnderWay(j)' <=> Sr!UnderWay(j))
    BY <1>1 DEF Sr!UnderWay
  <2>4. CASE s = "starting" /\ v9[i].state = "indexing" /\ Sr!Says(i, "starting", v6)
    <3>1. Sr!UnderWay(i)' <=> Sr!UnderWay(i)
      BY <1>1, <2>4 DEF Sr!UnderWay
    <3>2. (v5' # "idle") = (v5 # "idle")
      BY <2>1, <2>2, <2>4 DEF Sr!Says, Sr!UnderWay
    <3> QED
      BY <1>1, <2>2, <2>3, <3>1, <3>2
  <2>5. CASE s = "refused" /\ v9[i].state \in {"indexing", "starting"} /\ Sr!Says(i, "idle", TRUE)
    <3>1. ~Sr!UnderWay(i)'
      BY <1>1, <2>5 DEF Sr!UnderWay
    <3>2. CASE v9[i].mount = v4
      <4>1. v5' = "idle" /\ Sr!UnderWay(i)
        BY <2>1, <2>5, <3>2 DEF Sr!Says, Sr!UnderWay
      <4> QED
        BY <1>1, <2>2, <2>3, <3>1, <4>1
    <3>3. CASE v9[i].mount # v4
      <4>1. v5' = v5 /\ ~Sr!UnderWay(i)
        BY <2>5, <3>3 DEF Sr!Says, Sr!UnderWay
      <4> QED
        BY <1>1, <2>2, <2>3, <3>1, <4>1
    <3> QED
      BY <3>2, <3>3
  <2>6. CASE v5' = v5 /\ v6' = v6 /\ v9[i].state = "running" /\ s \in {"run", "failed run"}
    <3>1. ~Sr!UnderWay(i)' /\ ~Sr!UnderWay(i)
      BY <1>1, <2>6 DEF Sr!UnderWay
    <3> QED
      BY <1>1, <2>2, <2>3, <2>6, <3>1
  <2> QED
    BY <2>1, <2>4, <2>5, <2>6
<1> QED
  BY <1>1, <1>2, <1>3, <1>4, StartParts, PressesKeep

\* What the workspace says of a press, or a run, is written where it belongs.
LEMMA AnswersKeep ==
    ASSUME Sr!StartAssumption, Sr!IInv, NEW i \in DOMAIN v9,
           Sr!Indexed(i) \/ Sr!RunBegins(i) \/ Sr!CallFails(i) \/ Sr!RunEnds(i)
    PROVE  Sr!IInv'
<1>1. /\ v10 \in [SrRoots -> SUBSET Sr!Folders] /\ \A r \in SrRoots : v10[r] \subseteq SrTree[r]
      /\ v9[i] \in Sr!Press /\ OfItsRepository(v9[i])
      /\ v9[i].state \in {"starting", "running", "run", "failed run"} => v9[i].root # None
  BY StartParts
<1>2. CASE Sr!Indexed(i)
  <2>1. v9[i].root \in SrRoots /\ v9[i].excluded \subseteq SrTree[v9[i].root] /\ v9[i].excluded \subseteq Sr!Folders
    BY <1>1, <1>2 DEF Sr!Indexed, Sr!Press, OfItsRepository
  <2>2. /\ Sr!Collapsed(v9[i].excluded) \subseteq SrTree[v9[i].root]
        /\ Sr!Collapsed(v9[i].excluded) \subseteq Sr!Folders
    BY <2>1 DEF Sr!Collapsed
  <2>3. v10' = [v10 EXCEPT ![v9[i].root] = Sr!Collapsed(v9[i].excluded)]
    BY <1>2 DEF Sr!Indexed
  <2>4. v10' \in [SrRoots -> SUBSET Sr!Folders] /\ \A r \in SrRoots : v10'[r] \subseteq SrTree[r]
    BY <1>1, <2>1, <2>2, <2>3
  <2>5. /\ Sr!Becomes(i, "starting") /\ Sr!Says(i, "starting", v6) /\ v9[i].state = "indexing" /\ v9[i].root # None
        /\ v2' = v2 /\ v3' = v3 /\ v4' = v4 /\ v7' = v7 /\ v8' = v8 /\ v1' = v1
    BY <1>2 DEF Sr!Indexed
  <2> QED
    BY <2>4, <2>5, AnswerKeeps
<1>3. CASE Sr!RunBegins(i)
  BY <1>1, <1>3, AnswerKeeps DEF Sr!RunBegins
<1>4. CASE Sr!CallFails(i)
  BY <1>1, <1>4, AnswerKeeps DEF Sr!CallFails
<1>5. CASE Sr!RunEnds(i)
  <2>1. PICK s \in {"run", "failed run"} : Sr!Becomes(i, s)
    BY <1>5 DEF Sr!RunEnds
  <2>2. /\ v1' = v1 /\ v2' = v2 /\ v3' = v3 /\ v4' = v4 /\ v5' = v5 /\ v6' = v6 /\ v7' = v7 /\ v8' = v8
        /\ v10' = v10 /\ v9[i].state = "running"
    BY <1>5 DEF Sr!RunEnds, Sr!page
  <2> QED
    BY <1>1, <2>1, <2>2, AnswerKeeps
<1> QED
  BY <1>2, <1>3, <1>4, <1>5

\* The reader leaves, a tree is read, the models are chosen, or nothing happens here.
LEMMA RestKeeps ==
    ASSUME Sr!IInv,
           \/ Sr!Leave \/ Sr!TreeArrives \/ Sr!ReadAgain \/ Sr!ChooseModels \/ UNCHANGED Sr!vars
    PROVE  Sr!IInv'
<1>1. /\ v2' = v2 /\ v3' = v3 /\ v4' = v4 /\ v5' = v5 /\ v6' = v6 /\ v9' = v9 /\ v10' = v10
      /\ v1' = v1 \/ v1' = "away"
  BY DEF Sr!Leave, Sr!TreeArrives, Sr!ReadAgain, Sr!ChooseModels, Sr!vars, Sr!page
<1>2. v7' \in BOOLEAN
  BY StartParts DEF Sr!Leave, Sr!TreeArrives, Sr!ReadAgain, Sr!ChooseModels, Sr!vars, Sr!page
<1>3. v8' \in [SrRoots -> {"unread", "read", "failed"}]
  BY StartParts DEF Sr!Leave, Sr!TreeArrives, Sr!ReadAgain, Sr!ChooseModels, Sr!vars, Sr!page
<1>4. Sr!PhaseIsOfThePress'
  BY <1>1 DEF Sr!IInv, Sr!PhaseIsOfThePress, Sr!UnderWay
<1> QED
  BY <1>1, <1>2, <1>3, <1>4, StartParts, PressesKeep

\* Every step of the start page keeps what its promises rest on.
LEMMA StartPreserved == ASSUME Sr!StartAssumption, Sr!IInv, Sr!Next \/ UNCHANGED Sr!vars PROVE Sr!IInv'
<1>1. CASE \/ \E r \in SrRoots \cup {None} : Sr!Choose(r)
           \/ \E b \in BOOLEAN : Sr!SetClean(b)
           \/ \E f \in Sr!Folders : Sr!Toggle(f)
           \/ Sr!SkipTheUsual \/ Sr!ReviewAllOfIt
  BY <1>1, ReaderChooses
<1>2. CASE \/ Sr!Open \/ \E r \in SrRoots : Sr!OpenHanded(r)
           \/ \E i \in DOMAIN v9 : Sr!StartAgain(i)
  BY <1>2, PageOpensAgain
<1>3. CASE Sr!PressRun \/ Sr!TryAgain
  BY <1>3, StartKeeps
<1>4. CASE \E i \in DOMAIN v9 : Sr!Indexed(i) \/ Sr!RunBegins(i) \/ Sr!CallFails(i) \/ Sr!RunEnds(i)
  BY <1>4, AnswersKeep
<1>5. CASE Sr!Leave \/ Sr!TreeArrives \/ Sr!ReadAgain \/ Sr!ChooseModels \/ UNCHANGED Sr!vars
  BY <1>5, RestKeeps
<1> QED
  BY <1>1, <1>2, <1>3, <1>4, <1>5 DEF Sr!Next

\* The page at work has one press of this visit under way, and the page at rest none.
LEMMA OnePress == ASSUME Sr!IInv PROVE Sr!OnePressAtATime
<1> DEFINE here == {i \in DOMAIN v9 : v9[i].mount = v4 /\ v9[i].state \in {"indexing", "starting"}}
<1> SUFFICES ASSUME v1 = "start"
             PROVE  Sr!Cardinality(here) = IF v5 = "idle" THEN 0 ELSE 1
  BY DEF Sr!OnePressAtATime
<1>1. /\ \A i, j \in here : i = j
      /\ (v5 # "idle") = (here # {})
  BY DEF Sr!IInv, Sr!PhaseIsOfThePress, Sr!UnderWay
<1> HIDE DEF here
<1>2. CASE v5 = "idle"
  <2>1. here = {}
    BY <1>1, <1>2
  <2> QED
    BY <1>2, <2>1, StartCounts
<1>3. CASE v5 # "idle"
  <2>1. PICK x : x \in here
    BY <1>1, <1>3
  <2>2. here = {x}
    BY <1>1, <2>1
  <2> QED
    BY <1>3, <2>2, StartCounts
<1> QED
  BY <1>2, <1>3

(***************************************************************************)
(* Watching a run                                                          *)
(***************************************************************************)
\* A set with one run, on the run page.
LEMMA WatchSingleton == \A x : Rw!Cardinality({x}) = 1
  BY FS_Singleton DEF Rw!Cardinality, Cardinality

\* Every run is at its beginning, and no page is open.
LEMMA WatchInitially == ASSUME Rw!WatchAssumption, Rw!Init PROVE Rw!IInv
<1>1. Rw!Begun \in Rw!States /\ Rw!Begun.status = "running"
  <2>1. 0 \in 0 .. RwMaxTotal
    BY DEF Rw!WatchAssumption
  <2>2. 1 \in 1 .. Len(Rw!Phases)
    BY DEF Rw!Phases
  <2> QED
    BY <2>1, <2>2 DEF Rw!Begun, Rw!States
<1>2. Rw!TypeOK /\ v3 = [r \in RwRuns |-> v3[r]] /\ Rw!PollsAreOfAPage /\ Rw!PromisesAreOfThePage
  BY <1>1 DEF Rw!Init, Rw!TypeOK, Rw!PollsAreOfAPage, Rw!PromisesAreOfThePage
<1>3. /\ Rw!NotificationsAreGiven /\ Rw!PromisesStand /\ Rw!WhatIsOverHasEnded /\ Rw!NobodyIsToldEarly
      /\ Rw!RunningHasNoReview /\ Rw!NothingIsOwed
  BY <1>1 DEF Rw!RunningHasNoReview, Rw!NothingIsOwed, Rw!Begun, Rw!Init, Rw!NotificationsAreGiven, Rw!NothingIsOwed, Rw!PromisesStand, Rw!WhatIsOverHasEnded, Rw!NobodyIsToldEarly, Rw!Settled
<1> QED
  BY <1>2, <1>3 DEF Rw!IInv

\* What a render leaves, whatever page is open and whatever was read of its run: the page's one
\* notification goes to the run it was promised for, and only of a run that has ended.
LEMMA WatchRenders ==
    ASSUME Rw!WatchAssumption, Rw!IInv, NEW p \in RwRuns \cup {None}, NEW r, NEW a \in BOOLEAN, NEW f \in BOOLEAN,
           NEW c \in BOOLEAN, Rw!Renders(p, r, a, f, c),
           p = v2 => f = v9 /\ (v8 => a),
           f => v9,
           p # None /\ r[p] # None /\ Rw!Settled(r[p]) => p \in v13',
           v13 \subseteq v13'
    PROVE  /\ v3' = r /\ v2' \in RwRuns \cup {None} /\ (v2' # None => v2' = p)
           /\ v6' \in BOOLEAN /\ v8' \in BOOLEAN /\ v9' \in BOOLEAN
           /\ v10' \subseteq RwRuns /\ v11' \subseteq RwRuns
           /\ Rw!PromisesAreOfThePage' /\ Rw!NotificationsAreGiven' /\ Rw!PromisesStand' /\ Rw!NobodyIsToldEarly'
           /\ Rw!NothingIsOwed'
<1> DEFINE done == Rw!SeenDone(p, r)
           seen == Rw!Seen(p, r)
           over == done /\ r[p].review
           tells == done /\ a /\ ~f
           stays == seen /\ ~over
<1>1. /\ v3' = r /\ v2' = IF over THEN None ELSE p
      /\ v8' = (a /\ stays) /\ v9' = ((f \/ tells) /\ stays) /\ v6' = (c /\ stays)
      /\ v10' = IF tells THEN v10 \cup {p} ELSE v10
      /\ v11' = IF ~stays THEN {} ELSE IF a /\ ~done THEN {p} ELSE v11 \cap {p}
  BY DEF Rw!Renders
<1>2. (done => seen) /\ (seen => p \in RwRuns) /\ (done => p \in v13')
  BY DEF done, seen, Rw!SeenDone, Rw!Seen
<1>3. (over => done) /\ (tells <=> done /\ a /\ ~f) /\ (stays <=> seen /\ ~over)
  OBVIOUS
<1>4. over \in BOOLEAN /\ stays \in BOOLEAN /\ tells \in BOOLEAN /\ done \in BOOLEAN
  BY DEF Rw!SeenDone, Rw!Seen
<1> HIDE DEF done, seen, over, tells, stays
<1>5. /\ v10 \subseteq RwRuns /\ v11 \subseteq RwRuns /\ v10 \subseteq v13
      /\ \A q \in v11 : v2 = q
      /\ v9 => v10 # {}
      /\ \A q \in v11 : (v8 /\ ~v9) \/ q \in v10 \/ (v9 /\ v10 \ {q} # {})
  BY DEF Rw!IInv, Rw!TypeOK, Rw!PromisesAreOfThePage, Rw!NotificationsAreGiven, Rw!PromisesStand, Rw!NobodyIsToldEarly
<1>6. v2' \in RwRuns \cup {None} /\ (v2' # None => v2' = p)
  BY <1>1
<1>7. v6' \in BOOLEAN /\ v8' \in BOOLEAN /\ v9' \in BOOLEAN
  BY <1>1, <1>4
<1>8. v10' \subseteq RwRuns /\ v11' \subseteq RwRuns
  BY <1>1, <1>2, <1>3, <1>5
<1>9. Rw!NobodyIsToldEarly'
  BY <1>1, <1>2, <1>3, <1>5 DEF Rw!NobodyIsToldEarly
<1>10. Rw!NotificationsAreGiven'
  BY <1>1, <1>5 DEF Rw!NotificationsAreGiven
<1>11. \A q \in v11' : stays /\ q = p
  BY <1>1
<1>12. Rw!PromisesAreOfThePage'
  BY <1>1, <1>3, <1>11 DEF Rw!PromisesAreOfThePage
<1>13. Rw!PromisesStand'
  <2> SUFFICES ASSUME NEW q \in v11'
               PROVE  (v8' /\ ~v9') \/ q \in v10' \/ (v9' /\ v10' \ {q} # {})
    BY DEF Rw!PromisesStand
  <2>1. q = p /\ stays /\ v8' = a /\ v9' = (f \/ tells) /\ v10 \subseteq v10'
    BY <1>1, <1>4, <1>11
  <2>2. CASE a /\ ~done
    <3>1. CASE f
      BY <1>5, <2>1, <3>1
    <3>2. CASE ~f
      BY <1>3, <2>1, <2>2, <3>2
    <3> QED
      BY <3>1, <3>2
  <2>3. CASE ~(a /\ ~done)
    <3>1. q \in v11 /\ v2 = p /\ f = v9 /\ (v8 => a)
      BY <1>1, <1>5, <2>1, <2>3
    <3>2. CASE v8 /\ ~v9
      <4>1. tells
        BY <1>3, <2>3, <3>1, <3>2
      <4> QED
        BY <1>1, <2>1, <4>1
    <3>3. CASE q \in v10
      BY <2>1, <3>3
    <3>4. CASE v9 /\ v10 \ {q} # {}
      BY <2>1, <3>1, <3>4
    <3> QED
      BY <1>5, <3>1, <3>2, <3>3, <3>4
  <2> QED
    BY <2>2, <2>3
<1>14. Rw!NothingIsOwed'
  <2> SUFFICES ASSUME v8', ~v9'
               PROVE  ~Rw!SeenDone(v2', v3')
    BY DEF Rw!NothingIsOwed
  <2>1. a /\ stays /\ ~f /\ ~tells
    BY <1>1, <1>4
  <2>2. ~done /\ v2' = p /\ v3' = r
    BY <1>1, <1>3, <2>1
  <2> QED
    BY <2>2 DEF done
<1> QED
  BY <1>1, <1>6, <1>7, <1>8, <1>9, <1>10, <1>12, <1>13, <1>14

\* A run's state as it is changed is a state.
LEMMA StatesChange ==
    ASSUME Rw!WatchAssumption, NEW s \in Rw!States
    PROVE  /\ \A x \in {"running"} \cup Rw!Ended : [s EXCEPT !.status = x] \in Rw!States /\ [s EXCEPT !.status = x].status = x
                 /\ [s EXCEPT !.status = x].review = s.review
           /\ \A i \in 1 .. Len(Rw!Phases) :
                 /\ [s EXCEPT !.phase = i] \in Rw!States /\ [s EXCEPT !.phase = i].status = s.status
                 /\ [s EXCEPT !.phase = i].review = s.review
           /\ \A n \in 0 .. RwMaxTotal :
                 /\ [s EXCEPT !.retrieved = n] \in Rw!States /\ [s EXCEPT !.retrieved = n].status = s.status
                 /\ [s EXCEPT !.retrieved = n].review = s.review
                 /\ [s EXCEPT !.judged = n] \in Rw!States /\ [s EXCEPT !.judged = n].status = s.status
                 /\ [s EXCEPT !.judged = n].review = s.review
           /\ \A x \in {"running"} \cup Rw!Ended, i \in 1 .. Len(Rw!Phases), n \in 0 .. RwMaxTotal :
                 [s EXCEPT !.heard = FALSE, !.phase = i, !.total = n, !.retrieved = n, !.judged = n, !.status = x] \in Rw!States
  BY DEF Rw!States

\* The workspace's run goes on, with nothing else touched.
LEMMA WorkspaceMoves ==
    ASSUME Rw!WatchAssumption, Rw!IInv, NEW r \in RwRuns, NEW s \in Rw!States,
           v1' = [v1 EXCEPT ![r] = s], Rw!Settled(s) => r \in v13', v13 \subseteq v13', Rw!Untouched,
           s.status = "running" => ~s.review
    PROVE  Rw!IInv'
<1>1. v1 \in [RwRuns -> Rw!States] /\ v1' \in [RwRuns -> Rw!States] /\ \A q \in RwRuns : v1'[q] = IF q = r THEN s ELSE v1[q]
  BY DEF Rw!IInv, Rw!TypeOK
<1>2. /\ v2' = v2 /\ v3' = v3 /\ v4' = v4 /\ v5' = v5 /\ v6' = v6 /\ v7' = v7 /\ v12' = v12
      /\ v8' = v8 /\ v9' = v9 /\ v10' = v10 /\ v11' = v11
  BY DEF Rw!Untouched, Rw!question, Rw!notice
<1>3. Rw!WhatIsOverHasEnded'
  BY <1>1, <1>2 DEF Rw!IInv, Rw!WhatIsOverHasEnded, Rw!Settled
<1>4. Rw!TypeOK'
  BY <1>1, <1>2 DEF Rw!IInv, Rw!TypeOK
<1>5. Rw!NobodyIsToldEarly' /\ Rw!RunningHasNoReview'
  BY <1>1, <1>2 DEF Rw!IInv, Rw!NobodyIsToldEarly, Rw!RunningHasNoReview
<1> QED
  BY <1>2, <1>3, <1>4, <1>5 DEF Rw!IInv, Rw!PollsAreOfAPage, Rw!PromisesAreOfThePage, Rw!NotificationsAreGiven, Rw!NothingIsOwed, Rw!PromisesStand

\* The phases in order.
LEMMA MovesKeeps ==
    ASSUME Rw!WatchAssumption, Rw!IInv, NEW r \in RwRuns, Rw!Moves(r)
    PROVE  Rw!IInv'
<1>1. v1 \in [RwRuns -> Rw!States] /\ v1[r] \in Rw!States /\ v1[r].status = "running" /\ ~v1[r].review
      /\ v13' = v13 /\ Rw!Untouched
  BY DEF Rw!Moves, Rw!IInv, Rw!TypeOK, Rw!RunningHasNoReview
<1>2. /\ v1[r].phase \in 1 .. 6 /\ v1[r].total \in 0 .. RwMaxTotal /\ v1[r].retrieved \in 0 .. RwMaxTotal
      /\ v1[r].judged \in 0 .. RwMaxTotal /\ Len(Rw!Phases) = 6 /\ RwMaxTotal \in Nat
  BY <1>1 DEF Rw!States, Rw!Phases, Rw!WatchAssumption
<1>3. PICK s \in Rw!States : v1' = [v1 EXCEPT ![r] = s] /\ s.status = "running" /\ ~s.review
  <2>1. CASE v1[r].phase # 4 /\ v1[r].phase < Len(Rw!Phases)
    <3>1. PICK n \in 0 .. RwMaxTotal :
              v1' = [v1 EXCEPT ![r].phase = @ + 1, ![r].total = IF v1[r].phase = 2 THEN n ELSE @]
      BY <2>1 DEF Rw!Moves
    <3> DEFINE t == IF v1[r].phase = 2 THEN n ELSE v1[r].total
               i == v1[r].phase + 1
    <3>2. i \in 1 .. Len(Rw!Phases) /\ t \in 0 .. RwMaxTotal
      BY <1>2, <2>1
    <3>3. v1' = [v1 EXCEPT ![r] = [v1[r] EXCEPT !.phase = i, !.total = t]]
      BY <1>1, <3>1
    <3> HIDE DEF t, i
    <3>4. /\ [v1[r] EXCEPT !.phase = i, !.total = t] \in Rw!States
          /\ [v1[r] EXCEPT !.phase = i, !.total = t].status = v1[r].status
          /\ [v1[r] EXCEPT !.phase = i, !.total = t].review = v1[r].review
      <4>1. \A j \in 1 .. Len(Rw!Phases), m \in 0 .. RwMaxTotal :
                /\ [v1[r] EXCEPT !.phase = j, !.total = m] \in Rw!States
                /\ [v1[r] EXCEPT !.phase = j, !.total = m].status = v1[r].status
                /\ [v1[r] EXCEPT !.phase = j, !.total = m].review = v1[r].review
        BY <1>1 DEF Rw!States
      <4> QED
        BY <3>2, <4>1
    <3> QED
      BY <1>1, <3>3, <3>4
  <2>2. CASE v1[r].phase = 4
    <3> DEFINE q == v1[r]
    <3>1. v1' = [v1 EXCEPT ![r] = IF q.retrieved < q.total /\ q.retrieved = q.judged
                                  THEN [q EXCEPT !.retrieved = q.retrieved + 1]
                                  ELSE IF q.judged < q.total THEN [q EXCEPT !.judged = q.judged + 1]
                                  ELSE [q EXCEPT !.phase = 5]]
      BY <1>1, <2>2 DEF Rw!Moves
    <3>2. CASE q.retrieved < q.total /\ q.retrieved = q.judged
      <4>1. q.retrieved + 1 \in 0 .. RwMaxTotal
        BY <1>2, <3>2
      <4>2. [q EXCEPT !.retrieved = q.retrieved + 1] \in Rw!States /\ [q EXCEPT !.retrieved = q.retrieved + 1].status = "running" /\ ~[q EXCEPT !.retrieved = q.retrieved + 1].review
        BY <1>1, <4>1, StatesChange
      <4>3. v1' = [v1 EXCEPT ![r] = [q EXCEPT !.retrieved = q.retrieved + 1]]
        BY <3>1, <3>2
      <4> QED
        BY <4>2, <4>3
    <3>3. CASE ~(q.retrieved < q.total /\ q.retrieved = q.judged) /\ q.judged < q.total
      <4>1. q.judged + 1 \in 0 .. RwMaxTotal
        BY <1>2, <3>3
      <4>2. [q EXCEPT !.judged = q.judged + 1] \in Rw!States /\ [q EXCEPT !.judged = q.judged + 1].status = "running" /\ ~[q EXCEPT !.judged = q.judged + 1].review
        BY <1>1, <4>1, StatesChange
      <4>3. v1' = [v1 EXCEPT ![r] = [q EXCEPT !.judged = q.judged + 1]]
        BY <3>1, <3>3
      <4> QED
        BY <4>2, <4>3
    <3>4. CASE ~(q.retrieved < q.total /\ q.retrieved = q.judged) /\ ~(q.judged < q.total)
      <4>1. 5 \in 1 .. Len(Rw!Phases)
        BY <1>2
      <4>2. [q EXCEPT !.phase = 5] \in Rw!States /\ [q EXCEPT !.phase = 5].status = "running" /\ ~[q EXCEPT !.phase = 5].review
        BY <1>1, <4>1, StatesChange
      <4>3. v1' = [v1 EXCEPT ![r] = [q EXCEPT !.phase = 5]]
        BY <3>1, <3>4
      <4> QED
        BY <4>2, <4>3
    <3> QED
      BY <3>2, <3>3, <3>4
  <2> QED
    BY <2>1, <2>2 DEF Rw!Moves
<1> QED
  BY <1>1, <1>3, WorkspaceMoves DEF Rw!Settled

\* A run ends, with a record or without.
LEMMA EndsKeeps ==
    ASSUME Rw!WatchAssumption, Rw!IInv, NEW r \in RwRuns, Rw!Ends(r)
    PROVE  Rw!IInv'
<1>1. v1 \in [RwRuns -> Rw!States] /\ v1[r] \in Rw!States /\ v13' = v13 \cup {r} /\ Rw!Untouched
  BY DEF Rw!Ends, Rw!IInv, Rw!TypeOK
<1>2. PICK s \in Rw!Ended, k \in BOOLEAN : v1' = [v1 EXCEPT ![r].status = s, ![r].review = k]
  BY DEF Rw!Ends, Rw!Ended
<1>3. v1' = [v1 EXCEPT ![r] = [v1[r] EXCEPT !.status = s, !.review = k]]
  BY <1>1, <1>2
<1>4. [v1[r] EXCEPT !.status = s, !.review = k] \in Rw!States /\ [v1[r] EXCEPT !.status = s, !.review = k].status # "running"
  <2>1. s \in {"running"} \cup Rw!Ended /\ s # "running"
    BY DEF Rw!Ended
  <2>2. /\ [v1[r] EXCEPT !.status = s, !.review = k] \in Rw!States
        /\ [v1[r] EXCEPT !.status = s, !.review = k].status = s
    <3>1. \A x \in {"running"} \cup Rw!Ended, o \in BOOLEAN :
              /\ [v1[r] EXCEPT !.status = x, !.review = o] \in Rw!States
              /\ [v1[r] EXCEPT !.status = x, !.review = o].status = x
      BY <1>1 DEF Rw!States
    <3> QED
      BY <2>1, <3>1
  <2> QED
    BY <2>1, <2>2
<1> QED
  BY <1>1, <1>3, <1>4, WorkspaceMoves

\* A second round begins judgement again.
LEMMA ResumesKeeps ==
    ASSUME Rw!WatchAssumption, Rw!IInv, NEW r \in RwRuns, Rw!Resumes(r)
    PROVE  Rw!IInv'
<1>1. PICK n \in 0 .. RwMaxTotal : v1' = [v1 EXCEPT ![r] = [Rw!Begun EXCEPT !.phase = 4, !.total = n]]
  BY DEF Rw!Resumes
<1>2. [Rw!Begun EXCEPT !.phase = 4, !.total = n] \in Rw!States /\ [Rw!Begun EXCEPT !.phase = 4, !.total = n].status = "running"
      /\ ~[Rw!Begun EXCEPT !.phase = 4, !.total = n].review
  <2>1. 4 \in 1 .. Len(Rw!Phases)
    BY DEF Rw!Phases
  <2>2. 0 \in 0 .. RwMaxTotal
    BY DEF Rw!WatchAssumption
  <2> QED
    BY <2>1, <2>2 DEF Rw!Begun, Rw!States
<1>3. v13' = v13 /\ Rw!Untouched
  BY DEF Rw!Resumes
<1> QED
  BY <1>1, <1>2, <1>3, WorkspaceMoves DEF Rw!Settled

\* A restart leaves how a run ended and none of its stages.
LEMMA RestartsKeeps ==
    ASSUME Rw!WatchAssumption, Rw!IInv, NEW r \in RwRuns, Rw!Restarts(r)
    PROVE  Rw!IInv'
<1> DEFINE t == IF v1[r].status = "running" THEN "failed" ELSE v1[r].status
           s == [v1[r] EXCEPT !.heard = FALSE, !.phase = 1, !.total = 0, !.retrieved = 0, !.judged = 0, !.status = t]
<1>1. v1 \in [RwRuns -> Rw!States] /\ v1[r] \in Rw!States /\ v13' = v13 \cup {r} /\ Rw!Untouched
  BY DEF Rw!Restarts, Rw!IInv, Rw!TypeOK
<1>2. s \in Rw!States /\ s.status # "running"
  <2>1. 1 \in 1 .. Len(Rw!Phases)
    BY DEF Rw!Phases
  <2>2. 0 \in 0 .. RwMaxTotal
    BY DEF Rw!WatchAssumption
  <2>3. t \in {"running"} \cup Rw!Ended /\ t # "running"
    BY <1>1 DEF Rw!States, Rw!Ended
  <2> HIDE DEF t
  <2>4. s \in Rw!States
    BY <1>1, <2>1, <2>2, <2>3, StatesChange
  <2>5. s.status = t
    BY <1>1 DEF Rw!States
  <2> QED
    BY <2>3, <2>4, <2>5
<1>3. v1' = [v1 EXCEPT ![r] = s]
  BY <1>1 DEF Rw!Restarts
<1> HIDE DEF s
<1> QED
  BY <1>1, <1>2, <1>3, WorkspaceMoves

\* A step that renders: what was read is of a run that is over only where that had ended.
LEMMA RenderingKeeps ==
    ASSUME Rw!WatchAssumption, Rw!IInv, NEW p \in RwRuns \cup {None}, NEW r, NEW a \in BOOLEAN, NEW f \in BOOLEAN,
           NEW c \in BOOLEAN, Rw!Renders(p, r, a, f, c),
           p = v2 => f = v9 /\ (v8 => a),
           f => v9,
           r = [q \in RwRuns |-> r[q]],
           \A q \in RwRuns : r[q] = None \/ (r[q] \in Rw!States /\ (Rw!Settled(r[q]) => q \in v13')),
           v13 \subseteq v13',
           v1' \in [RwRuns -> Rw!States], \A q \in RwRuns : Rw!Settled(v1'[q]) => q \in v13',
           \A q \in RwRuns : v1'[q].status = "running" => ~v1'[q].review,
           v4' = None \/ (v4' = v4 /\ v2' = v2), v5' \in BOOLEAN, v7' \in BOOLEAN, v12' \subseteq RwRuns
    PROVE  Rw!IInv'
<1>1. p # None /\ r[p] # None /\ Rw!Settled(r[p]) => p \in v13'
  OBVIOUS
<1>2. /\ v3' = r /\ v2' \in RwRuns \cup {None}
      /\ v6' \in BOOLEAN /\ v8' \in BOOLEAN /\ v9' \in BOOLEAN
      /\ v10' \subseteq RwRuns /\ v11' \subseteq RwRuns
      /\ Rw!PromisesAreOfThePage' /\ Rw!NotificationsAreGiven' /\ Rw!PromisesStand' /\ Rw!NobodyIsToldEarly'
      /\ Rw!NothingIsOwed'
  BY <1>1, WatchRenders
<1>3. Rw!TypeOK'
  BY <1>2 DEF Rw!TypeOK
<1>4. Rw!PollsAreOfAPage' /\ Rw!WhatIsOverHasEnded'
  BY <1>2 DEF Rw!IInv, Rw!PollsAreOfAPage, Rw!WhatIsOverHasEnded
<1> QED
  BY <1>2, <1>3, <1>4 DEF Rw!IInv, Rw!RunningHasNoReview

\* What the invariant says of what was read.
LEMMA WhatWasRead ==
    ASSUME Rw!IInv
    PROVE  /\ v3 = [q \in RwRuns |-> v3[q]]
           /\ \A q \in RwRuns : v3[q] = None \/ (v3[q] \in Rw!States /\ (Rw!Settled(v3[q]) => q \in v13))
           /\ v1 \in [RwRuns -> Rw!States] /\ \A q \in RwRuns : Rw!Settled(v1[q]) => q \in v13
           /\ v2 \in RwRuns \cup {None} /\ v5 \in BOOLEAN /\ v6 \in BOOLEAN /\ v7 \in BOOLEAN /\ v12 \subseteq RwRuns
           /\ v8 \in BOOLEAN /\ v9 \in BOOLEAN
           /\ \A q \in RwRuns : v1[q].status = "running" => ~v1[q].review
  BY DEF Rw!IInv, Rw!RunningHasNoReview, Rw!TypeOK, Rw!WhatIsOverHasEnded

\* A page is opened or left, or a notification is asked for on it.
LEMMA PageOpens ==
    ASSUME Rw!WatchAssumption, Rw!IInv, Rw!Leave \/ Rw!Arm \/ \E r \in RwRuns : Rw!Open(r)
    PROVE  Rw!IInv'
<1>1. v1' = v1 /\ v13' = v13 /\ v12' = v12 /\ (v4' = None \/ (v4' = v4 /\ v2' = v2)) /\ v5' \in BOOLEAN /\ v7' \in BOOLEAN
  <2>1. CASE Rw!Arm
    <3>1. v2' = v2
      BY <2>1 DEF Rw!Arm, Rw!Renders, Rw!Live, Rw!SeenDone
    <3> QED
      BY <2>1, <3>1, WhatWasRead DEF Rw!Arm, Rw!server
  <2>2. CASE Rw!Leave \/ \E r \in RwRuns : Rw!Open(r)
    BY <2>2, WhatWasRead DEF Rw!Leave, Rw!Open, Rw!server
  <2> QED
    BY <2>1, <2>2
<1>2. PICK p \in RwRuns \cup {None}, a \in BOOLEAN, f \in BOOLEAN, c \in BOOLEAN :
          Rw!Renders(p, v3, a, f, c) /\ (p = v2 => f = v9 /\ (v8 => a)) /\ (f => v9)
  <2>1. CASE Rw!Leave
    BY <2>1, Zenon DEF Rw!Leave
  <2>2. CASE Rw!Arm
    BY <2>2, WhatWasRead DEF Rw!Arm
  <2>3. ASSUME NEW r \in RwRuns, Rw!Open(r)
        PROVE  \E p \in RwRuns \cup {None}, a \in BOOLEAN, f \in BOOLEAN, c \in BOOLEAN :
                  Rw!Renders(p, v3, a, f, c) /\ (p = v2 => f = v9 /\ (v8 => a)) /\ (f => v9)
    <3>1. v2 # r /\ (Rw!Renders(r, v3, FALSE, FALSE, FALSE) \/ Rw!Renders(r, v3, v8, v9, v6))
      BY <2>3 DEF Rw!Open
    <3> QED
      BY <3>1, WhatWasRead
  <2> QED
    BY <2>1, <2>2, <2>3
<1>3. /\ v3 = [q \in RwRuns |-> v3[q]] /\ v13 \subseteq v13'
      /\ \A q \in RwRuns : v3[q] = None \/ (v3[q] \in Rw!States /\ (Rw!Settled(v3[q]) => q \in v13'))
      /\ v1' \in [RwRuns -> Rw!States] /\ \A q \in RwRuns : Rw!Settled(v1'[q]) => q \in v13'
      /\ \A q \in RwRuns : v1'[q].status = "running" => ~v1'[q].review
      /\ v12' \subseteq RwRuns
  BY <1>1, WhatWasRead
<1> QED
  BY <1>1, <1>2, <1>3, RenderingKeeps

\* The answer of a read is drawn.
LEMMA PollArrivesKeeps ==
    ASSUME Rw!WatchAssumption, Rw!IInv, Rw!PollArrives
    PROVE  Rw!IInv'
<1> DEFINE r == [v3 EXCEPT ![v2] = v4]
<1>1. v4 \in Rw!States /\ v2 \in RwRuns /\ (Rw!Settled(v4) => v2 \in v13)
  BY WhatWasRead DEF Rw!PollArrives, Rw!IInv, Rw!PollsAreOfAPage, Rw!WhatIsOverHasEnded
<1>2. r = [q \in RwRuns |-> IF q = v2 THEN v4 ELSE v3[q]]
  <2>1. v3 = [q \in RwRuns |-> v3[q]]
    BY WhatWasRead
  <2>2. DOMAIN v3 = RwRuns
    BY <2>1
  <2>3. DOMAIN r = RwRuns /\ \A q \in RwRuns : r[q] = IF q = v2 THEN v4 ELSE v3[q]
    BY <1>1, <2>2
  <2>4. r = [q \in DOMAIN r |-> r[q]]
    OBVIOUS
  <2> HIDE DEF r
  <2> QED
    BY <2>3, <2>4
<1>3. Rw!Renders(v2, r, v8, v9, v6) /\ v4' = None /\ v5' = FALSE /\ v1' = v1 /\ v13' = v13 /\ v7' = v7 /\ v12' = v12
  BY DEF Rw!PollArrives, Rw!server
<1> HIDE DEF r
<1>4. \A q \in RwRuns : r[q] = IF q = v2 THEN v4 ELSE v3[q]
  BY <1>2
<1>5. r = [q \in RwRuns |-> r[q]]
  BY <1>2
<1>6. /\ v13 \subseteq v13' /\ v5' \in BOOLEAN /\ v7' \in BOOLEAN
      /\ \A q \in RwRuns : r[q] = None \/ (r[q] \in Rw!States /\ (Rw!Settled(r[q]) => q \in v13'))
      /\ v1' \in [RwRuns -> Rw!States] /\ \A q \in RwRuns : Rw!Settled(v1'[q]) => q \in v13'
      /\ \A q \in RwRuns : v1'[q].status = "running" => ~v1'[q].review
      /\ v12' \subseteq RwRuns
  BY <1>1, <1>3, <1>4, WhatWasRead
<1> QED
  BY <1>3, <1>5, <1>6, WhatWasRead, RenderingKeeps

\* The workspace answers the stop, and what it answers is drawn.
LEMMA StopAnswersKeeps ==
    ASSUME Rw!WatchAssumption, Rw!IInv, Rw!StopAnswers
    PROVE  Rw!IInv'
<1>1. v2 \in RwRuns /\ v4' = v4 /\ v5' = v5 /\ v12' = v12 /\ v7' = FALSE
  BY WhatWasRead DEF Rw!StopAnswers
<1>2. CASE UNCHANGED <<Rw!server, v2, v3, v6, Rw!notice>>
  BY <1>1, <1>2 DEF Rw!server, Rw!notice, Rw!IInv, Rw!TypeOK, Rw!PollsAreOfAPage, Rw!RunningHasNoReview, Rw!PromisesAreOfThePage,
     Rw!NotificationsAreGiven, Rw!NothingIsOwed, Rw!PromisesStand, Rw!WhatIsOverHasEnded, Rw!NobodyIsToldEarly
<1>3. CASE ~ UNCHANGED <<Rw!server, v2, v3, v6, Rw!notice>>
  <2> DEFINE s == [v1[v2] EXCEPT !.status = "cancelled"]
             r == [v3 EXCEPT ![v2] = s]
  <2>1. /\ v1' = [v1 EXCEPT ![v2].status = "cancelled"] /\ v13' = v13 \cup {v2}
        /\ Rw!Renders(v2, [v3 EXCEPT ![v2] = v1'[v2]], v8, v9, v6)
    BY <1>3 DEF Rw!StopAnswers
  <2>2. v1 \in [RwRuns -> Rw!States] /\ v1[v2] \in Rw!States /\ ~v1[v2].review
    BY <1>1, <1>3, WhatWasRead DEF Rw!StopAnswers
  <2>3. s \in Rw!States /\ s.status = "cancelled" /\ ~s.review
    <3>1. "cancelled" \in {"running"} \cup Rw!Ended
      BY DEF Rw!Ended
    <3> QED
      BY <2>2, <3>1, StatesChange
  <2>4. v1' = [v1 EXCEPT ![v2] = s] /\ v1'[v2] = s
    BY <1>1, <2>1, <2>2
  <2>5. \A q \in RwRuns : r[q] = IF q = v2 THEN s ELSE v3[q]
    <3>1. v3 = [q \in RwRuns |-> v3[q]]
      BY WhatWasRead
    <3>2. DOMAIN v3 = RwRuns
      BY <3>1
    <3> QED
      BY <1>1, <3>2
  <2>6. r = [q \in RwRuns |-> r[q]]
    <3>1. v3 = [q \in RwRuns |-> v3[q]]
      BY WhatWasRead
    <3>2. DOMAIN v3 = RwRuns
      BY <3>1
    <3>3. DOMAIN r = RwRuns
      BY <1>1, <3>2
    <3>4. r = [q \in DOMAIN r |-> r[q]]
      OBVIOUS
    <3> QED
      BY <3>3, <3>4
  <2> HIDE DEF s
  <2>7. Rw!Renders(v2, r, v8, v9, v6)
    BY <2>1, <2>4
  <2> HIDE DEF r
  <2>8. v1' \in [RwRuns -> Rw!States] /\ \A q \in RwRuns : v1'[q] = IF q = v2 THEN s ELSE v1[q]
    BY <1>1, <2>2, <2>3, <2>4
  <2>9. /\ v13 \subseteq v13' /\ v5' \in BOOLEAN /\ v7' \in BOOLEAN /\ v12' \subseteq RwRuns
        /\ \A q \in RwRuns : r[q] = None \/ (r[q] \in Rw!States /\ (Rw!Settled(r[q]) => q \in v13'))
        /\ \A q \in RwRuns : Rw!Settled(v1'[q]) => q \in v13'
        /\ \A q \in RwRuns : v1'[q].status = "running" => ~v1'[q].review
    BY <1>1, <2>1, <2>3, <2>5, <2>8, WhatWasRead
  <2>10. v4' = None \/ (v4' = v4 /\ v2' = v2)
    <3>1. ~r[v2].review
      BY <1>1, <2>3, <2>5
    <3> QED
      BY <1>1, <2>7, <3>1 DEF Rw!Renders
  <2> QED
    BY <2>6, <2>7, <2>8, <2>9, <2>10, WhatWasRead, RenderingKeeps
<1> QED
  BY <1>2, <1>3

\* A step of the page that draws nothing new.
LEMMA PageKeeps ==
    ASSUME Rw!WatchAssumption, Rw!IInv,
           Rw!PollLeaves \/ Rw!PollFails \/ Rw!AskToStop \/ Rw!KeepRunning \/ Rw!ConfirmStop \/ UNCHANGED Rw!vars
    PROVE  Rw!IInv'
<1>1. v1' = v1 /\ v2' = v2 /\ v3' = v3 /\ v8' = v8 /\ v9' = v9 /\ v10' = v10 /\ v11' = v11 /\ v13' = v13
  BY DEF Rw!PollLeaves, Rw!PollFails, Rw!AskToStop, Rw!KeepRunning, Rw!ConfirmStop, Rw!vars, Rw!server, Rw!notice,
     Rw!question
<1>2. /\ v5' \in BOOLEAN /\ v6' \in BOOLEAN /\ v7' \in BOOLEAN /\ v12' \subseteq RwRuns
      /\ v4' = v4 \/ v4' = None \/ (v2 # None /\ v4' = v1[v2])
  <2>1. v2 \in RwRuns \cup {None} /\ v5 \in BOOLEAN /\ v6 \in BOOLEAN /\ v7 \in BOOLEAN /\ v12 \subseteq RwRuns
    BY WhatWasRead
  <2>2. CASE Rw!PollLeaves \/ Rw!PollFails \/ UNCHANGED Rw!vars
    BY <2>1, <2>2 DEF Rw!PollLeaves, Rw!PollFails, Rw!vars, Rw!question, Rw!MustPoll
  <2>3. CASE Rw!AskToStop \/ Rw!KeepRunning \/ Rw!ConfirmStop
    BY <2>1, <2>3 DEF Rw!AskToStop, Rw!KeepRunning, Rw!ConfirmStop, Rw!Live, Rw!Seen
  <2> QED
    BY <2>2, <2>3
<1>3. Rw!TypeOK'
  BY <1>1, <1>2 DEF Rw!IInv, Rw!TypeOK
<1>4. Rw!PollsAreOfAPage'
  BY <1>1, <1>2, WhatWasRead DEF Rw!IInv, Rw!PollsAreOfAPage
<1>5. Rw!WhatIsOverHasEnded'
  BY <1>1, <1>2, WhatWasRead DEF Rw!IInv, Rw!WhatIsOverHasEnded
<1> QED
  BY <1>1, <1>3, <1>4, <1>5 DEF Rw!IInv, Rw!PromisesAreOfThePage, Rw!NotificationsAreGiven, Rw!NothingIsOwed, Rw!PromisesStand,
     Rw!NobodyIsToldEarly, Rw!RunningHasNoReview

\* Every step keeps the invariant.
LEMMA WatchPreserved ==
    ASSUME Rw!WatchAssumption, Rw!IInv, Rw!Next \/ UNCHANGED Rw!vars
    PROVE  Rw!IInv'
<1>1. ASSUME NEW r \in RwRuns, Rw!Moves(r) \/ Rw!Ends(r) \/ Rw!Resumes(r) \/ Rw!Restarts(r)
      PROVE  Rw!IInv'
  BY <1>1, MovesKeeps, EndsKeeps, ResumesKeeps, RestartsKeeps
<1>2. CASE Rw!Leave \/ Rw!Arm \/ \E r \in RwRuns : Rw!Open(r)
  BY <1>2, PageOpens
<1>3. CASE Rw!PollArrives \/ Rw!StopAnswers
  BY <1>3, PollArrivesKeeps, StopAnswersKeeps
<1>4. CASE Rw!PollLeaves \/ Rw!PollFails \/ Rw!AskToStop \/ Rw!KeepRunning \/ Rw!ConfirmStop \/ UNCHANGED Rw!vars
  BY <1>4, PageKeeps
<1> QED
  BY <1>1, <1>2, <1>3, <1>4 DEF Rw!Next

\* Where a run stands says which of its phases is in progress, or broke, and what is behind it.
LEMMA PhasesTell ==
    ASSUME Rw!IInv
    PROVE  Rw!PhasesTellTheTruth
<1> SUFFICES ASSUME Rw!Seen(v2, v3)
             PROVE  LET s == v3[v2]
                        In(m) == {i \in DOMAIN Rw!Phases : Rw!PhaseMark(s, i) = m}
                    IN  /\ (In("in progress") # {}) = ~Rw!Settled(s)
                        /\ s.status = "failed" => Rw!Cardinality(In("failed here")) = 1
                        /\ \A i \in In("done"), j \in DOMAIN Rw!Phases : j < i => j \in In("done")
  BY DEF Rw!PhasesTellTheTruth
<1> DEFINE s == v3[v2]
           c == Rw!CurrentPhase(s)
           In(m) == {i \in DOMAIN Rw!Phases : Rw!PhaseMark(s, i) = m}
<1>1. s \in Rw!States
  BY DEF Rw!Seen, Rw!IInv, Rw!TypeOK
<1>2. DOMAIN Rw!Phases = 1 .. 6
  BY DEF Rw!Phases
<1>3. c \in 1 .. 6 /\ s.status \in {"running", "completed", "awaiting_answers", "failed", "cancelled"}
  BY <1>1 DEF Rw!CurrentPhase, Rw!States, Rw!Ended, Rw!Phases
<1> HIDE DEF s
<1>4. \A i \in 1 .. 6 : Rw!Done(s, i) <=> s.status = "completed" \/ i < c \/ (i = c /\ s.status = "awaiting_answers")
  BY DEF Rw!Done
<1>5. \A i \in 1 .. 6 :
          /\ (Rw!PhaseMark(s, i) = "done") <=> Rw!Done(s, i)
          /\ (Rw!PhaseMark(s, i) = "failed here") <=> (~Rw!Done(s, i) /\ i = c /\ s.status = "failed")
          /\ (Rw!PhaseMark(s, i) = "in progress") <=>
                (~Rw!Done(s, i) /\ i = c /\ s.status # "failed" /\ s.status # "cancelled")
  <2> TAKE i \in 1 .. 6
  <2>1. CASE Rw!Done(s, i)
    BY <2>1 DEF Rw!PhaseMark
  <2>2. CASE ~Rw!Done(s, i) /\ i # c
    BY <2>2 DEF Rw!PhaseMark
  <2>3. CASE ~Rw!Done(s, i) /\ i = c
    BY <2>3 DEF Rw!PhaseMark
  <2> QED
    BY <2>1, <2>2, <2>3
<1> HIDE DEF c
<1>6. \A i \in 1 .. 6 :
          /\ (Rw!PhaseMark(s, i) = "done") <=> (s.status = "completed" \/ i < c \/ (i = c /\ s.status = "awaiting_answers"))
          /\ (Rw!PhaseMark(s, i) = "failed here") <=> (i = c /\ s.status = "failed")
          /\ (Rw!PhaseMark(s, i) = "in progress") <=> (i = c /\ s.status = "running")
  <2> TAKE i \in 1 .. 6
  <2>1. Rw!Done(s, i) <=> s.status = "completed" \/ i < c \/ (i = c /\ s.status = "awaiting_answers")
    BY <1>4
  <2>2. i = c => ~(i < c)
    BY <1>3
  <2> QED
    BY <1>3, <1>5, <2>1, <2>2
<1>7. (In("in progress") # {}) = ~Rw!Settled(s)
  <2>1. In("in progress") = IF s.status = "running" THEN {c} ELSE {}
    BY <1>2, <1>3, <1>6
  <2> HIDE DEF In
  <2> QED
    BY <2>1 DEF Rw!Settled
<1>8. s.status = "failed" => Rw!Cardinality(In("failed here")) = 1
  <2>1. s.status = "failed" => In("failed here") = {c}
    BY <1>2, <1>3, <1>6
  <2> HIDE DEF In
  <2> QED
    BY <2>1, WatchSingleton
<1>9. \A i \in In("done"), j \in DOMAIN Rw!Phases : j < i => j \in In("done")
  <2> SUFFICES ASSUME NEW i \in In("done"), NEW j \in DOMAIN Rw!Phases, j < i
               PROVE  j \in In("done")
    OBVIOUS
  <2>1. i \in 1 .. 6 /\ j \in 1 .. 6 /\ Rw!PhaseMark(s, i) = "done"
    BY <1>2
  <2>2. s.status = "completed" \/ j < c
    <3>1. s.status = "completed" \/ i < c \/ i = c
      BY <1>6, <2>1
    <3>2. c \in 1 .. 6 /\ i \in 1 .. 6 /\ j \in 1 .. 6 /\ j < i
      BY <1>3, <2>1
    <3> QED
      BY <3>1, <3>2
  <2>3. Rw!PhaseMark(s, j) = "done"
    BY <1>6, <2>1, <2>2
  <2> QED
    BY <2>3
<1> QED
  BY <1>7, <1>8, <1>9 DEF s

\* The invariant says what becomes of a promise.
LEMMA PromisesSpent == ASSUME Rw!IInv PROVE Rw!PromisesAreSpent
  BY DEF Rw!IInv, Rw!PromisesAreSpent, Rw!PromisesStand, Rw!NothingIsOwed

(***************************************************************************)
(* The notices of the runs                                                 *)
(***************************************************************************)
\* Nothing is watched or promised at first.
LEMMA NoticesInitially == ASSUME Rn!NoticesAssumption, Rn!Init PROVE Rn!IInv
<1>1. 0 \in 0 .. RnMaxActs
  BY DEF Rn!NoticesAssumption
<1> QED
  BY <1>1 DEF Rn!Init, Rn!IInv, Rn!TypeOK, Rn!WatchedAreListed, Rn!PromisesStandOrAreKept, Rn!LatestPromiseIsWatched

\* What the reader does is counted.
LEMMA NoticesCounted ==
    ASSUME Rn!NoticesAssumption, Rn!IInv, v9' = v9 \/ Rn!Acts
    PROVE  v9' \in 0 .. RnMaxActs
<1>1. v9 \in 0 .. RnMaxActs /\ RnMaxActs \in Nat
  BY DEF Rn!NoticesAssumption, Rn!IInv, Rn!TypeOK
<1> QED
  BY <1>1 DEF Rn!Acts

\* What a render leaves, whatever review is open and whatever is listed: the promise that stands
\* outranks the view, and the run it was made of is told of as it leaves the listing.
LEMMA RendersKeeps ==
    ASSUME Rn!NoticesAssumption, Rn!IInv, NEW o \in RnRuns \cup {None}, NEW l,
           l = v2 \/ l \subseteq RnRuns, v2 # None => l # None,
           Rn!Renders(o, l, v4), v8' = v8
    PROVE  /\ v3' \in RnRuns \cup {None} /\ v6' \in RnRuns \cup {None} /\ v7' \subseteq RnRuns
           /\ v2' # None => v2' \subseteq RnRuns
           /\ v4' \in BOOLEAN
           /\ Rn!WatchedAreListed' /\ Rn!PromisesStandOrAreKept' /\ Rn!LatestPromiseIsWatched'
<1> DEFINE r == Rn!InView(o, l)
           takes == r # None /\ Rn!TakesOver(r, v4, v6)
           gone == ~takes /\ v6 # None /\ l # None /\ v6 \notin l
<1>1. /\ v3' = o /\ v2' = l
      /\ v6' = IF takes THEN r ELSE IF ~gone THEN v6 ELSE IF v4 /\ r # None THEN r ELSE None
      /\ v7' = IF gone /\ v4 THEN v7 \cup {v6} ELSE v7
      /\ v4' = (v4 /\ ~gone)
  BY DEF Rn!Renders
<1>2. r # None => r \in RnRuns /\ l # None /\ r \in l
  BY DEF Rn!InView
<1>3. takes => ~v4 \/ v6 = None \/ v6 = r
  BY DEF Rn!TakesOver
<1>4. /\ v6 \in RnRuns \cup {None} /\ v7 \subseteq RnRuns /\ v4 \in BOOLEAN /\ (v2 # None => v2 \subseteq RnRuns)
      /\ v6 # None => v2 # None /\ v6 \in v2
      /\ v8 # None => (v4 /\ v6 = v8) \/ v8 \in v7
      /\ v4 /\ v8 # None => v6 = v8
  BY DEF Rn!IInv, Rn!TypeOK, Rn!WatchedAreListed, Rn!PromisesStandOrAreKept, Rn!LatestPromiseIsWatched
<1> HIDE DEF r, takes, gone
<1>5. ~takes => r = None \/ (v4 /\ v6 # None)
  BY DEF takes, Rn!TakesOver
<1>6. takes => r # None
  BY DEF takes
<1>7. gone => ~takes /\ v6 # None /\ l # None /\ v6 \notin l
  BY DEF gone
<1>8. ~gone => takes \/ v6 = None \/ (l # None /\ v6 \in l)
  BY <1>4 DEF gone
<1>9. v3' \in RnRuns \cup {None} /\ v6' \in RnRuns \cup {None} /\ v7' \subseteq RnRuns /\ v4' \in BOOLEAN
  BY <1>1, <1>2, <1>4, <1>6, <1>7
<1>10. v2' # None => v2' \subseteq RnRuns
  BY <1>1, <1>4
<1>11. Rn!WatchedAreListed'
  BY <1>1, <1>2, <1>6, <1>8 DEF Rn!WatchedAreListed
<1>12. Rn!PromisesStandOrAreKept'
  BY <1>1, <1>3, <1>4, <1>6, <1>7 DEF Rn!PromisesStandOrAreKept
<1>13. Rn!LatestPromiseIsWatched'
  BY <1>1, <1>3, <1>4, <1>6, <1>7 DEF Rn!LatestPromiseIsWatched
<1> QED
  BY <1>9, <1>10, <1>11, <1>12, <1>13

\* The reader grants the notification: the run in view is watched and promised.
LEMMA GrantedKeeps ==
    ASSUME Rn!NoticesAssumption, Rn!IInv, Rn!Granted
    PROVE  Rn!IInv'
<1> DEFINE r == Rn!InView(v3, v2)
           takes == r # None /\ Rn!TakesOver(r, TRUE, v6)
<1>1. /\ v6 \in RnRuns \cup {None} /\ v3 \in RnRuns \cup {None}
      /\ v6 # None => v2 # None /\ v6 \in v2
  BY DEF Rn!IInv, Rn!TypeOK, Rn!WatchedAreListed
<1>2. /\ v3' = v3 /\ v2' = v2 /\ v4' = TRUE /\ v7' = v7 /\ v8' = v6' /\ v5' = FALSE
      /\ v1' = v1 /\ v9' = v9
      /\ v6' = IF takes THEN r ELSE v6
  BY <1>1 DEF Rn!Granted, Rn!Renders
<1>3. r # None => r \in RnRuns /\ v2 # None /\ r \in v2
  BY <1>1 DEF Rn!InView
<1> HIDE DEF r
<1>4. Rn!TypeOK'
  BY <1>1, <1>2, <1>3 DEF Rn!IInv, Rn!TypeOK
<1> QED
  BY <1>1, <1>2, <1>3, <1>4 DEF Rn!IInv, Rn!WatchedAreListed, Rn!PromisesStandOrAreKept, Rn!LatestPromiseIsWatched

\* A step renders what it brings, or changes neither what is watched nor what is promised.
LEMMA NoticesPreserved ==
    ASSUME Rn!NoticesAssumption, Rn!IInv, Rn!Next \/ UNCHANGED Rn!vars
    PROVE  Rn!IInv'
<1>1. CASE \/ \E r \in RnRuns : Rn!Begins(r) \/ Rn!Ends(r)
           \/ Rn!Ask \/ Rn!Denied \/ UNCHANGED Rn!vars
  <2>1. v2' = v2 /\ v3' = v3 /\ v4' = v4 /\ v6' = v6 /\ v7' = v7 /\ v8' = v8
    BY <1>1 DEF Rn!Begins, Rn!Ends, Rn!Ask, Rn!Denied, Rn!vars
  <2>2. v1' \subseteq RnRuns /\ v5' \in BOOLEAN
    BY <1>1 DEF Rn!Begins, Rn!Ends, Rn!Ask, Rn!Denied, Rn!vars, Rn!IInv, Rn!TypeOK
  <2>3. v9' \in 0 .. RnMaxActs
    BY <1>1, NoticesCounted DEF Rn!Begins, Rn!Ends, Rn!Ask, Rn!Denied, Rn!vars
  <2> QED
    BY <2>1, <2>2, <2>3 DEF Rn!IInv, Rn!TypeOK, Rn!WatchedAreListed, Rn!PromisesStandOrAreKept, Rn!LatestPromiseIsWatched
<1>2. CASE Rn!Poll \/ Rn!Walk \/ \E r \in RnRuns : Rn!Arrives(r)
  <2>1. PICK o \in RnRuns \cup {None}, l \in {v1, v2} : Rn!Renders(o, l, v4) /\ (l = v1 \/ l = v2)
    BY <1>2 DEF Rn!Poll, Rn!Walk, Rn!Arrives, Rn!IInv, Rn!TypeOK
  <2>2. v1 \subseteq RnRuns /\ v1 # None
    BY DEF Rn!IInv, Rn!TypeOK, Rn!NoticesAssumption
  <2>3. v1' = v1 /\ v5' = v5 /\ v8' = v8 /\ v9' \in 0 .. RnMaxActs
    BY <1>2, NoticesCounted DEF Rn!Poll, Rn!Walk, Rn!Arrives
  <2> QED
    BY <2>1, <2>2, <2>3, RendersKeeps DEF Rn!IInv, Rn!TypeOK
<1>3. CASE Rn!Granted
  BY <1>3, GrantedKeeps
<1> QED
  BY <1>1, <1>2, <1>3 DEF Rn!Next

\* The invariant says that the promise outranks the view.
LEMMA PromiseOutranks == ASSUME Rn!IInv PROVE Rn!PromiseOutranksTheView
  BY DEF Rn!IInv, Rn!WatchedAreListed, Rn!PromisesStandOrAreKept, Rn!LatestPromiseIsWatched, Rn!PromiseOutranksTheView

(***************************************************************************)
(* The runs among the reviews                                              *)
(***************************************************************************)
\* A set with one row, and a set with none, on the page of the reviews.
LEMMA HistoryCounts == Rh!Cardinality({}) = 0 /\ \A x : Rh!Cardinality({x}) = 1
  BY FS_Singleton, FS_EmptySet DEF Rh!Cardinality, Cardinality

\* Nothing is at work at first.
LEMMA HistoryInitially == ASSUME Rh!Init PROVE Rh!RunsAreOfBranches
  BY DEF Rh!Init, Rh!RunsAreOfBranches

\* A run that begins is of a branch, and one that is read is one that began.
LEMMA HistoryPreserved ==
    ASSUME Rh!RunsAreOfBranches, Rh!Next \/ UNCHANGED Rh!vars
    PROVE  Rh!RunsAreOfBranches'
<1> USE DEF Rh!RunsAreOfBranches
<1>1. ASSUME NEW x \in RhRuns, NEW b \in RhBranches, NEW v \in RhReviews \cup {None}, Rh!RunBegins(x, b, v)
      PROVE  Rh!RunsAreOfBranches'
  <2>1. [branch |-> b, review |-> v] \in Rh!Run
    BY DEF Rh!Run
  <2> QED
    BY <1>1, <2>1 DEF Rh!RunBegins, Rh!cache
<1>2. ASSUME NEW x \in RhRuns, Rh!RunEnds(x)
      PROVE  Rh!RunsAreOfBranches'
  BY <1>2 DEF Rh!RunEnds, Rh!cache
<1>3. CASE Rh!RunsArrive
  BY <1>3 DEF Rh!RunsArrive, Rh!world
<1>4. CASE Rh!ReviewsArrive \/ Rh!ClearFilters
  BY <1>4 DEF Rh!ReviewsArrive, Rh!ClearFilters, Rh!world, Rh!cache
<1>5. ASSUME NEW b \in RhBranches, Rh!DecisionsArrive(b) \/ Rh!Expand(b)
      PROVE  Rh!RunsAreOfBranches'
  BY <1>5 DEF Rh!DecisionsArrive, Rh!Expand, Rh!world, Rh!cache
<1>6. CASE (\E q \in RhWords \cup {None} : Rh!Search(q)) \/ \E s \in RhStatuses \cup {"all"} : Rh!SetStatus(s)
  BY <1>6 DEF Rh!Search, Rh!SetStatus, Rh!world, Rh!cache
<1>7. ASSUME NEW v \in RhReviews, Rh!AskToDelete(v) \/ Rh!Keep(v) \/ Rh!Delete(v) \/ Rh!Deleted(v)
      PROVE  Rh!RunsAreOfBranches'
  BY <1>7 DEF Rh!AskToDelete, Rh!Keep, Rh!Delete, Rh!Deleted, Rh!world, Rh!cache
<1>8. CASE UNCHANGED Rh!vars
  BY <1>8 DEF Rh!vars, Rh!world, Rh!cache
<1> QED
  BY <1>1, <1>2, <1>3, <1>4, <1>5, <1>6, <1>7, <1>8 DEF Rh!Next

\* A run that judges a row of its line again is drawn on that row, which is shown for it even
\* where the line is folded; any other is a row of its line's.
LEMMA DrawnOnce ==
    ASSUME Rh!HistoryAssumption, Rh!RunsAreOfBranches
    PROVE  Rh!RunsAreDrawnOnce
<1> SUFFICES ASSUME NEW x \in Rh!MatchingRuns
             PROVE  Rh!Cardinality({v \in Rh!Drawn : x \in Rh!RejudgingRun(v3[v].branch, v)})
                    + Rh!Cardinality({b \in RhBranches : x \in Rh!PendingRows(b)}) = 1
  BY DEF Rh!RunsAreDrawnOnce
<1> DEFINE on == {v \in Rh!Drawn : x \in Rh!RejudgingRun(v3[v].branch, v)}
           own == {b \in RhBranches : x \in Rh!PendingRows(b)}
           b == v4[x].branch
           m == v4[x].review
<1>1. b \in RhBranches /\ m \in RhReviews \cup {None} /\ None \notin RhReviews
  BY DEF Rh!MatchingRuns, Rh!Working, Rh!RunsAreOfBranches, Rh!Run, Rh!HistoryAssumption
<1>2. \A c : x \in Rh!LineRuns(c) <=> c = b
  BY DEF Rh!LineRuns
<1>3. \A c, v : x \in Rh!RejudgingRun(c, v) <=> c = b /\ v = m
  BY <1>2 DEF Rh!RejudgingRun
<1>4. \A c : x \in Rh!PendingRows(c) <=> c = b /\ (m = None \/ m \notin Rh!Line(c))
  BY <1>2 DEF Rh!PendingRows
<1>5. \A c : Rh!Line(c) \subseteq RhReviews /\ \A v \in Rh!Line(c) : v3[v].branch = c
  BY DEF Rh!Line, Rh!Visible, Rh!Matching, Rh!Kept
<1>6. \A c : Rh!ShownRows(c) \subseteq Rh!Line(c) /\ (m \in Rh!Line(c) /\ c = b => m \in Rh!ShownRows(c))
  <2> TAKE c
  <2>1. Rh!ShownRows(c) \subseteq Rh!Line(c)
    BY DEF Rh!ShownRows, Rh!First
  <2>2. ASSUME m \in Rh!Line(c), c = b
        PROVE  m \in Rh!ShownRows(c)
    <3>1. Rh!RejudgingRun(c, m) # {}
      BY <1>3, <2>2
    <3> QED
      BY <2>2, <3>1 DEF Rh!ShownRows
  <2> QED
    BY <2>1, <2>2
<1> HIDE DEF b, m
<1>7. CASE m \in Rh!Line(b)
  <2>1. m # None /\ v3[m].branch = b /\ m \in Rh!Drawn
    BY <1>1, <1>5, <1>6, <1>7 DEF Rh!Drawn
  <2>2. on = {m}
    BY <1>3, <2>1
  <2>3. own = {}
    BY <1>4, <1>7, <2>1
  <2> HIDE DEF on, own
  <2>4. Rh!Cardinality(on) = 1 /\ Rh!Cardinality(own) = 0
    BY <2>2, <2>3, HistoryCounts, Zenon
  <2>5. Rh!Cardinality(on) + Rh!Cardinality(own) = 1
    BY <2>4
  <2> QED
    BY <2>5 DEF on, own
<1>8. CASE m \notin Rh!Line(b)
  <2>1. own = {b}
    BY <1>1, <1>4, <1>8
  <2>2. on = {}
    <3> SUFFICES ASSUME NEW v \in on
                 PROVE  FALSE
      OBVIOUS
    <3>1. v \in Rh!Drawn /\ v3[v].branch = b /\ v = m
      BY <1>3
    <3>2. PICK c \in RhBranches : v \in Rh!ShownRows(c)
      BY <3>1 DEF Rh!Drawn
    <3>3. v \in Rh!Line(c) /\ c = b
      BY <1>5, <1>6, <3>1, <3>2
    <3> QED
      BY <1>8, <3>1, <3>3
  <2> HIDE DEF on, own
  <2>4. Rh!Cardinality(on) = 0 /\ Rh!Cardinality(own) = 1
    BY <2>1, <2>2, HistoryCounts, Zenon
  <2>5. Rh!Cardinality(on) + Rh!Cardinality(own) = 1
    BY <2>4
  <2> QED
    BY <2>5 DEF on, own
<1> QED
  BY <1>7, <1>8

\* Only a newest revision says what is open, and it is the newest of its branch.
LEMMA SaidOnce == Rh!OpenWorkIsSaidOnce
<1> SUFFICES ASSUME NEW v \in Rh!Drawn, Rh!Wants(v) # None, NEW w \in Rh!Kept(v3), v3[w].branch = v3[v].branch
             PROVE  v3[w].sequence <= v3[v].sequence
  BY DEF Rh!OpenWorkIsSaidOnce
<1>1. v \in Rh!Newest
  BY DEF Rh!Wants
<1>2. PICK b \in RhBranches : v \in Rh!First({u \in Rh!Kept(v3) : v3[u].branch = b})
  BY <1>1 DEF Rh!Newest
<1>3. v3[v].branch = b
  BY <1>2 DEF Rh!First
<1>4. \A u \in {u \in Rh!Kept(v3) : v3[u].branch = b} : v3[u].sequence <= v3[v].sequence
  BY <1>2 DEF Rh!First
<1> QED
  BY <1>3, <1>4

(***************************************************************************)
(* The pages together                                                      *)
(***************************************************************************)
\* Every page of the group opens as its own module has it.
LEMMA RunInitially ==
    ASSUME RunInit
    PROVE  RunInvariant
<1>1. /\ page = "Rp" => Rp!Init
      /\ page = "Sr" => Sr!Init
      /\ page = "Rw" => Rw!Init
      /\ page = "Rn" => Rn!Init
      /\ page = "Rh" => Rh!Init
  BY DEF RunInit
<1> QED
  BY <1>1, RunAssumption, PickerInitially, StartInitially, WatchInitially, NoticesInitially, HistoryInitially
  DEF RunAssumption, RunInvariant

\* A step of the group is a step of the page that is open.
LEMMA RunSteps ==
    ASSUME RunNext
    PROVE  /\ page' = page
           /\ page = "Rp" => Rp!Next
           /\ page = "Sr" => Sr!Next
           /\ page = "Rw" => Rw!Next
           /\ page = "Rn" => Rn!Next
           /\ page = "Rh" => Rh!Next
  BY DEF RunNext, At

\* When nothing changes no page's variables do.
LEMMA RunStutters ==
    ASSUME UNCHANGED vars
    PROVE  /\ page' = page
           /\ UNCHANGED Rp!vars /\ UNCHANGED Sr!vars /\ UNCHANGED Rw!vars /\ UNCHANGED Rn!vars
           /\ UNCHANGED Rh!vars
  BY DEF vars, Rp!vars, Rp!field, Rp!form, Sr!vars, Sr!page, Rw!vars, Rw!server, Rw!question, Rw!notice,
     Rn!vars, Rh!vars, Rh!world, Rh!cache, Rh!view, Rh!rows

\* Every page keeps its invariant.
LEMMA RunPreserved ==
    ASSUME RunInvariant, RunNext \/ UNCHANGED vars
    PROVE  RunInvariant'
<1>1. /\ page' = page
      /\ page = "Rp" => Rp!Next \/ UNCHANGED Rp!vars
      /\ page = "Sr" => Sr!Next \/ UNCHANGED Sr!vars
      /\ page = "Rw" => Rw!Next \/ UNCHANGED Rw!vars
      /\ page = "Rn" => Rn!Next \/ UNCHANGED Rn!vars
      /\ page = "Rh" => Rh!Next \/ UNCHANGED Rh!vars
  BY RunSteps, RunStutters
<1>2. page = "Rp" => Rp!IInv'
  BY <1>1, RunAssumption, PickerPreserved DEF RunAssumption, RunInvariant
<1>3. page = "Sr" => Sr!IInv'
  BY <1>1, RunAssumption, StartPreserved DEF RunAssumption, RunInvariant
<1>4. page = "Rw" => Rw!IInv'
  BY <1>1, RunAssumption, WatchPreserved DEF RunAssumption, RunInvariant
<1>5. page = "Rn" => Rn!IInv'
  BY <1>1, RunAssumption, NoticesPreserved DEF RunAssumption, RunInvariant
<1>6. page = "Rh" => Rh!RunsAreOfBranches'
  BY <1>1, RunAssumption, HistoryPreserved DEF RunAssumption, RunInvariant
<1> QED
  BY <1>1, <1>2, <1>3, <1>4, <1>5, <1>6 DEF RunInvariant

\* The invariants say what is chosen and what is reported.
LEMMA RunTells ==
    ASSUME RunInvariant
    PROVE  ChoicesHoldTogether /\ RunsAreReportedTruly
<1>1. page = "Rp" => Rp!TheLastWordIsTheChoice /\ Rp!ClonesAreOfThatRemote
  BY RunAssumption, LastWordChosen DEF RunAssumption, RunInvariant, Rp!IInv
<1>2. page = "Sr" => Sr!ScopeIsOfTheRepository /\ Sr!OnePressAtATime
  BY OnePress DEF RunInvariant, Sr!IInv
<1>3. page = "Rw" => Rw!PhasesTellTheTruth /\ Rw!PromisesAreSpent /\ Rw!NobodyIsToldEarly
  BY RunAssumption, PhasesTell, PromisesSpent DEF RunAssumption, RunInvariant, Rw!IInv
<1>4. page = "Rn" => Rn!PromiseOutranksTheView
  BY PromiseOutranks DEF RunInvariant
<1>5. page = "Rh" => Rh!RunsAreDrawnOnce /\ Rh!OpenWorkIsSaidOnce
  BY RunAssumption, DrawnOnce, SaidOnce DEF RunAssumption, RunInvariant
<1> QED
  BY <1>1, <1>2, <1>3, <1>4, <1>5 DEF ChoicesHoldTogether, RunsAreReportedTruly

(***************************************************************************)
(* The types of the shell                                                  *)
(***************************************************************************)
\* The types of the shell, beside those of its lists: what is open is open once, and what each
\* overlay found of the page is a page.
OverlaysTypes ==
    /\ v1 \in AsPaths
    /\ \A i, j \in 1 .. Len(v2) : v2[i] = v2[j] => i = j
    /\ v4 \in {"", "hidden"} /\ v5 \in As!Overlays \cup {"page", "field"}
    /\ \A o \in As!Overlays : v3[o].overflow \in {"", "hidden"} /\ v3[o].opener \in As!Overlays \cup {"page", "field"}
    /\ v7 \in -1 .. Len(AsSections) + Len(AsReviews) + Len(AsRepositories)
    /\ v10 \in BOOLEAN /\ v11 \in 0 .. AsMaxActs /\ v12 \in 0 .. AsMaxChanges

\* With those of the lists they are what has a type.
LEMMA ShellIsTyped ==
    ASSUME As!ShellAssumption, As!IInv, OverlaysTypes
    PROVE  As!TypeOK
<1>1. v2 \in Seq(As!Overlays) /\ v6 \in AsNeedles \cup {""}
      /\ \A l \in As!Names : v8[l] \in 0 .. Len(As!All(l)) /\ v9[l].data \in -1 .. Len(As!All(l))
  BY DEF As!IInv, As!ShellTypeOK
<1>2. As!Range(v2) \subseteq As!Overlays
  <2>1. DOMAIN v2 = 1 .. Len(v2) /\ \A i \in 1 .. Len(v2) : v2[i] \in As!Overlays
    BY <1>1, ElementsOf
  <2> QED
    BY <2>1 DEF As!Range
<1>3. Len(v2) = As!Cardinality(As!Range(v2))
  <2>1. Len(v2) = Cardinality(As!Range(v2))
    BY <1>1, DistinctAreCounted DEF OverlaysTypes, As!Range
  <2> DEFINE R == As!Range(v2)
  <2> HIDE DEF R
  <2>2. As!Cardinality(R) = Cardinality(R)
    BY DEF As!Cardinality, Cardinality
  <2> QED
    BY <2>1, <2>2 DEF R
<1> QED
  BY <1>1, <1>2, <1>3 DEF As!TypeOK, OverlaysTypes

\* Nothing is open over the first page.
LEMMA OverlaysTypedInitially == ASSUME As!ShellAssumption, As!Init PROVE OverlaysTypes
<1>1. Len(v2) = 0
  BY NothingIn DEF As!Init
<1>2. 0 \in -1 .. Len(AsSections) + Len(AsReviews) + Len(AsRepositories)
  <2>1. Len(AsSections) \in Nat /\ Len(AsReviews) \in Nat /\ Len(AsRepositories) \in Nat
    BY DEF As!ShellAssumption
  <2> QED
    BY <2>1
<1>3. 0 \in 0 .. AsMaxActs /\ 0 \in 0 .. AsMaxChanges
  BY DEF As!ShellAssumption
<1>4. v10 \in BOOLEAN
  BY DEF As!Init
<1>5. \A i, j \in 1 .. Len(v2) : v2[i] = v2[j] => i = j
  BY <1>1
<1>6. v1 \in AsPaths /\ v4 = "" /\ v5 = "page" /\ v3 = [o \in As!Overlays |-> [overflow |-> "", opener |-> "page"]]
      /\ v7 = 0 /\ v11 = 0 /\ v12 = 0
  BY DEF As!Init
<1> QED
  BY <1>2, <1>3, <1>4, <1>5, <1>6 DEF OverlaysTypes

\* The entries are of the three lists, and no more than they hold.
LEMMA EntriesAreFew ==
    ASSUME As!ShellAssumption, As!IInv
    PROVE  /\ As!Entries \in Seq(As!Range(AsSections) \cup As!Range(AsReviews) \cup As!Range(AsRepositories))
           /\ Len(As!Entries) \in 0 .. Len(AsSections) + Len(AsReviews) + Len(AsRepositories)
<1> DEFINE A == As!Range(AsSections) \cup As!Range(AsReviews) \cup As!Range(AsRepositories)
           r == As!Listed("reviews")
           p == As!Listed("repositories")
           j == AsSections \o r \o p
<1>1. ASSUME NEW s \in Seq(A), NEW n \in Nat
      PROVE  As!FirstOf(s, n) \in Seq(A) /\ Len(As!FirstOf(s, n)) <= Len(s)
  <2> HIDE DEF A
  <2>1. Len(s) \in Nat
    BY <1>1
  <2> DEFINE m == IF n < Len(s) THEN n ELSE Len(s)
  <2>2. m \in 0 .. Len(s)
    BY <2>1
  <2> HIDE DEF m
  <2>3. SubSeq(s, 1, m) \in Seq(A) /\ Len(SubSeq(s, 1, m)) = m
    BY <1>1, <2>1, <2>2
  <2> QED
    BY <2>1, <2>2, <2>3 DEF As!FirstOf, m
<1>2. ASSUME NEW l \in As!Names
      PROVE  As!Listed(l) \in Seq(A) /\ Len(As!Listed(l)) <= Len(As!All(l))
  <2>1. As!All(l) \in Seq(A)
    <3>1. \A S, T : S \subseteq T => Seq(S) \subseteq Seq(T)
      OBVIOUS
    <3> QED
      BY <3>1 DEF As!ShellAssumption, As!All, As!Names
  <2>2. v9[l].data \in -1 .. Len(As!All(l))
    BY DEF As!IInv, As!ShellTypeOK
  <2> HIDE DEF A
  <2>0. Len(As!All(l)) \in Nat
    BY <2>1
  <2>3. CASE v9[l].data < 1
    <3>1. <<>> \in Seq(A) /\ Len(<<>>) = 0
      OBVIOUS
    <3>2. As!Listed(l) = <<>>
      BY <2>3 DEF As!Listed
    <3>3. Len(As!Listed(l)) = 0
      BY <3>2, NothingIn
    <3> QED
      BY <2>0, <3>1, <3>2, <3>3
  <2>4. CASE ~(v9[l].data < 1)
    <3> DEFINE n == v9[l].data
               s == As!All(l)
    <3>1. n \in 1 .. Len(s)
      BY <2>0, <2>2, <2>4
    <3>2. As!Listed(l) = SubSeq(s, Len(s) - n + 1, Len(s))
      BY <2>4 DEF As!Listed
    <3> HIDE DEF n, s
    <3>3. s \in Seq(A) /\ Len(s) \in Nat
      BY <2>0, <2>1 DEF s
    <3>4. SubSeq(s, Len(s) - n + 1, Len(s)) \in Seq(A) /\ Len(SubSeq(s, Len(s) - n + 1, Len(s))) = n
      BY <3>1, <3>3
    <3>5. Len(SubSeq(s, Len(s) - n + 1, Len(s))) <= Len(s)
      BY <3>1, <3>3, <3>4
    <3> QED
      BY <3>2, <3>4, <3>5 DEF s
  <2> QED
    BY <2>3, <2>4
<1>3. /\ AsSections \in Seq(A) /\ r \in Seq(A) /\ p \in Seq(A)
      /\ Len(r) <= Len(AsReviews) /\ Len(p) <= Len(AsRepositories)
  <2>1. \A S, T : S \subseteq T => Seq(S) \subseteq Seq(T)
    OBVIOUS
  <2>2. AsSections \in Seq(A)
    BY <2>1 DEF As!ShellAssumption
  <2> HIDE DEF A
  <2> QED
    BY <1>2, <2>2 DEF As!Names, As!All
<1>4. Len(AsSections) \in Nat /\ Len(AsReviews) \in Nat /\ Len(AsRepositories) \in Nat
  BY DEF As!ShellAssumption
<1>5. ASSUME NEW s \in Seq(A), NEW t \in Seq(A), NEW u \in Seq(A)
      PROVE  s \o t \o u \in Seq(A) /\ Len(s \o t \o u) = Len(s) + Len(t) + Len(u)
  <2> HIDE DEF A
  <2> QED
    BY <1>5
<1> HIDE DEF A, r, p
<1>6. CASE v6 = ""
  <2> DEFINE f == As!FirstOf(r, AsFirstReviews)
             g == As!FirstOf(p, AsFirstRepositories)
  <2>1. f \in Seq(A) /\ Len(f) <= Len(r) /\ g \in Seq(A) /\ Len(g) <= Len(p)
    BY <1>1, <1>3 DEF As!ShellAssumption
  <2>2. As!Entries = AsSections \o f \o g
    BY <1>6 DEF As!Entries, r, p
  <2> HIDE DEF f, g
  <2>3. As!Entries \in Seq(A) /\ Len(As!Entries) = Len(AsSections) + Len(f) + Len(g)
    BY <1>3, <1>5, <2>1, <2>2
  <2>4. Len(f) \in Nat /\ Len(g) \in Nat /\ Len(r) \in Nat /\ Len(p) \in Nat
    BY <1>3, <2>1
  <2>5. Len(As!Entries) \in 0 .. Len(AsSections) + Len(AsReviews) + Len(AsRepositories)
    BY <1>3, <1>4, <2>1, <2>3, <2>4
  <2> QED
    BY <2>3, <2>5 DEF A
<1>7. CASE v6 # ""
  <2> DEFINE S == AsMatching[v6]
             w == Within(j, S)
  <2>1. As!Found(v6) = w
    BY WithinOfTheShell DEF As!Found, r, p
  <2>2. j \in Seq(A) /\ Len(j) = Len(AsSections) + Len(r) + Len(p)
    BY <1>3, <1>5
  <2> HIDE DEF j, S
  <2>3. w \in Seq(A) /\ Len(w) <= Len(j)
    BY <2>2, WithinTheList
  <2> HIDE DEF w
  <2>4. As!FirstOf(w, AsCap) \in Seq(A) /\ Len(As!FirstOf(w, AsCap)) <= Len(w)
    BY <1>1, <2>3 DEF As!ShellAssumption
  <2>5. As!Entries = As!FirstOf(w, AsCap)
    BY <1>7, <2>1 DEF As!Entries
  <2>6. Len(r) \in Nat /\ Len(p) \in Nat /\ Len(w) \in Nat /\ Len(As!Entries) \in Nat
    BY <1>3, <2>3, <2>4, <2>5
  <2>7. Len(As!Entries) \in 0 .. Len(AsSections) + Len(AsReviews) + Len(AsRepositories)
    BY <1>3, <1>4, <2>2, <2>3, <2>4, <2>5, <2>6
  <2> QED
    BY <2>4, <2>5, <2>7 DEF A
<1> QED
  BY <1>6, <1>7

\* Whatever is closed gives back what one of them found.
LEMMA ClosedIsTyped ==
    ASSUME As!IInv, OverlaysTypes, NEW S \in SUBSET As!Range(v2), NEW there \in BOOLEAN, As!Closed(S, there)
    PROVE  /\ \A i, j \in 1 .. Len(v2') : v2'[i] = v2'[j] => i = j
           /\ v4' \in {"", "hidden"} /\ v5' \in As!Overlays \cup {"page", "field"}
           /\ \A o \in As!Overlays :
                  v3'[o].overflow \in {"", "hidden"} /\ v3'[o].opener \in As!Overlays \cup {"page", "field"}
<1>1. v2 \in Seq(As!Overlays) /\ DOMAIN v3 = As!Overlays /\ \A o \in As!Overlays : DOMAIN v3[o] = {"overflow", "opener"}
  BY DEF As!IInv, As!ShellTypeOK
<1>2. \A i, j \in 1 .. Len(v2') : v2'[i] = v2'[j] => i = j
  <2> DEFINE R == As!Overlays \ S
  <2>1. v2' = Within(v2, R)
    BY WithinOfTheShell DEF As!Closed
  <2> HIDE DEF R
  <2>2. v2 \in Seq(As!Overlays) /\ \A i, j \in 1 .. Len(v2) : v2[i] = v2[j] => i = j
    BY <1>1 DEF OverlaysTypes
  <2>3. \A i, j \in 1 .. Len(Within(v2, R)) : Within(v2, R)[i] = Within(v2, R)[j] => i = j
    BY <2>2, DistinctAreLeft
  <2> QED
    BY <2>1, <2>3
<1>3. \A o \in As!Overlays :
         v3'[o].overflow \in {"", "hidden"} /\ v3'[o].opener \in As!Overlays \cup {"page", "field"}
  <2>1. v3' = [o \in As!Overlays |-> IF ~there /\ v3[o].opener = "field" THEN [v3[o] EXCEPT !.opener = "page"] ELSE v3[o]]
    BY DEF As!Closed
  <2> QED
    BY <1>1, <2>1 DEF OverlaysTypes
<1>4. CASE S = {}
  <2>1. v4' = v4 /\ v5' \in {v5, "page"}
    BY <1>4 DEF As!Closed
  <2> QED
    BY <1>2, <1>3, <2>1 DEF OverlaysTypes
<1>5. CASE S # {}
  <2> DEFINE order == IF there THEN v2 ELSE <<"panel", "nav", "palette", "sheet">>
             w == Within(order, S)
  <2>1. PICK e \in S : e \in As!Range(v2) /\ e \in As!Overlays
    BY <1>1, <1>5, ElementsOf DEF As!Range
  <2>2. order \in Seq(As!Overlays) /\ \E i \in 1 .. Len(order) : order[i] = e
    <3>1. CASE there
      BY <1>1, <2>1, <3>1, ElementsOf DEF As!Range
    <3>2. CASE ~there
      BY <2>1, <3>2, DrawnInOrder
    <3> QED
      BY <3>1, <3>2
  <2>3. /\ v4' = v3[As!Last(w)].overflow
        /\ \/ v5' = "page" \/ v5' = v3[As!Last(w)].opener
    <3>1. As!Within(order, S) = w
      BY WithinOfTheShell
    <3> HIDE DEF w
    <3>2. v4' = v3[As!Last(As!Within(order, S))].overflow
      BY <1>5 DEF As!Closed
    <3>3. v5' = "page" \/ v5' = v3[As!Last(As!Within(order, S))].opener
      BY <1>5 DEF As!Closed
    <3> QED
      BY <3>1, <3>2, <3>3
  <2> HIDE DEF order
  <2>4. As!Last(w) \in As!Overlays
    <3>1. w \in Seq(As!Overlays) /\ Len(w) \in Nat
      BY <2>2, WithinTheList
    <3>2. PICK h \in [1 .. Len(w) -> 1 .. Len(order)] :
             \A i \in 1 .. Len(order) : order[i] \in S => \E k \in 1 .. Len(w) : h[k] = i
      BY <2>2, WithinTheList
    <3> HIDE DEF w
    <3>3. PICK k \in 1 .. Len(w) : TRUE
      BY <2>1, <2>2, <3>2
    <3>4. Len(w) \in 1 .. Len(w)
      BY <3>1, <3>3
    <3> QED
      BY <3>1, <3>4, ElementsOf DEF As!Last
  <2> HIDE DEF w
  <2> QED
    BY <1>2, <1>3, <2>3, <2>4 DEF OverlaysTypes
<1> QED
  BY <1>4, <1>5

\* A walk, wherever it goes, leaves them so.
LEMMA ArrivedIsTyped ==
    ASSUME As!ShellAssumption, As!IInv, OverlaysTypes, NEW p \in AsPaths, NEW S, As!Arrive(p, S),
           As!Acts, v12' = v12, v10' \in BOOLEAN
    PROVE  OverlaysTypes'
<1> DEFINE T == (S \cap As!Range(v2)) \cup As!Left(p)
<1>1. T \in SUBSET As!Range(v2) /\ As!Closed(T, p = v1) /\ As!Rested /\ v1' = p
  BY DEF As!Arrive, As!Left
<1>2. (p = v1) \in BOOLEAN
  OBVIOUS
<1> HIDE DEF T
<1>3. /\ \A i, j \in 1 .. Len(v2') : v2'[i] = v2'[j] => i = j
      /\ v4' \in {"", "hidden"} /\ v5' \in As!Overlays \cup {"page", "field"}
      /\ \A o \in As!Overlays :
             v3'[o].overflow \in {"", "hidden"} /\ v3'[o].opener \in As!Overlays \cup {"page", "field"}
  BY <1>1, <1>2, ClosedIsTyped
<1>4. v7' \in -1 .. Len(AsSections) + Len(AsReviews) + Len(AsRepositories)
  <2>1. v7' = v7 \/ v7' = 0
    BY <1>1 DEF As!Rested, As!reading
  <2>2. Len(AsSections) \in Nat /\ Len(AsReviews) \in Nat /\ Len(AsRepositories) \in Nat
    BY DEF As!ShellAssumption
  <2>3. v7 \in -1 .. Len(AsSections) + Len(AsReviews) + Len(AsRepositories)
    BY DEF OverlaysTypes
  <2> DEFINE n == Len(AsSections) + Len(AsReviews) + Len(AsRepositories)
  <2>4. n \in Nat
    BY <2>2
  <2> HIDE DEF n
  <2>5. 0 \in -1 .. n
    BY <2>4
  <2> QED
    BY <2>1, <2>3, <2>5 DEF n
<1>5. v11' \in 0 .. AsMaxActs
  <2>1. v11 \in 0 .. AsMaxActs /\ AsMaxActs \in Nat /\ v11 < AsMaxActs /\ v11' = v11 + 1
    BY DEF As!Acts, As!ShellAssumption, OverlaysTypes
  <2> QED
    BY <2>1
<1>6. v12' \in 0 .. AsMaxChanges
  BY DEF OverlaysTypes
<1> QED
  BY <1>1, <1>3, <1>4, <1>5, <1>6 DEF OverlaysTypes, As!Overlays

\* Every step of the reader and of the two lists leaves every part with its type.
LEMMA OverlaysTyped ==
    ASSUME As!ShellAssumption, As!IInv, OverlaysTypes, As!Next \/ UNCHANGED As!vars
    PROVE  OverlaysTypes'
<1> USE DEF As!reading, As!server
<1> DEFINE total == Len(AsSections) + Len(AsReviews) + Len(AsRepositories)
<1>t. /\ v1 \in AsPaths /\ \A i, j \in 1 .. Len(v2) : v2[i] = v2[j] => i = j
      /\ v4 \in {"", "hidden"} /\ v5 \in As!Overlays \cup {"page", "field"}
      /\ \A o \in As!Overlays : v3[o].overflow \in {"", "hidden"} /\ v3[o].opener \in As!Overlays \cup {"page", "field"}
      /\ v7 \in -1 .. total /\ v10 \in BOOLEAN /\ v11 \in 0 .. AsMaxActs /\ v12 \in 0 .. AsMaxChanges
  BY DEF OverlaysTypes
<1>n. total \in Nat /\ AsMaxActs \in Nat /\ AsMaxChanges \in Nat
  <2>1. Len(AsSections) \in Nat /\ Len(AsReviews) \in Nat /\ Len(AsRepositories) \in Nat
    BY DEF As!ShellAssumption
  <2> QED
    BY <2>1 DEF As!ShellAssumption
<1>v. v2 \in Seq(As!Overlays) /\ DOMAIN v3 = As!Overlays /\ \A o \in As!Overlays : DOMAIN v3[o] = {"overflow", "opener"}
  BY DEF As!IInv, As!ShellTypeOK
<1>z. 0 \in -1 .. total
  <2> HIDE DEF total
  <2> QED
    BY <1>n
<1>m. AsMaxActs \in Nat /\ AsMaxChanges \in Nat /\ v11 \in 0 .. AsMaxActs /\ v12 \in 0 .. AsMaxChanges
  BY <1>t, <1>n
<1>a. As!Acts => v11' \in 0 .. AsMaxActs
  BY <1>m DEF As!Acts
<1>w. v7 \in -1 .. total
  BY <1>t
<1> HIDE DEF total
<1>1. ASSUME v1' \in AsPaths, \A i, j \in 1 .. Len(v2') : v2'[i] = v2'[j] => i = j,
             v4' \in {"", "hidden"}, v5' \in As!Overlays \cup {"page", "field"},
             \A o \in As!Overlays : v3'[o].overflow \in {"", "hidden"} /\ v3'[o].opener \in As!Overlays \cup {"page", "field"},
             v7' \in -1 .. total, v10' \in BOOLEAN, v11' \in 0 .. AsMaxActs, v12' \in 0 .. AsMaxChanges
      PROVE  OverlaysTypes'
  BY <1>1 DEF OverlaysTypes, As!Overlays, total
<1>2. ASSUME NEW o \in As!Overlays, As!Open(o)
      PROVE  OverlaysTypes'
  <2>1. /\ ~As!IsOpen(o) /\ v2' = Append(v2, o) /\ v3' = [v3 EXCEPT ![o] = [overflow |-> v4, opener |-> v5]]
        /\ v4' = "hidden" /\ v5' = o /\ As!Acts /\ UNCHANGED <<v1, v7, v10, v12>>
    BY <1>2 DEF As!Open
  <2>2. \A i, j \in 1 .. Len(v2') : v2'[i] = v2'[j] => i = j
    <3>1. Len(v2') = Len(v2) + 1 /\ v2'[Len(v2) + 1] = o /\ \A i \in 1 .. Len(v2) : v2'[i] = v2[i]
      BY <1>v, <2>1, Appended
    <3>2. Len(v2) \in Nat /\ DOMAIN v2 = 1 .. Len(v2)
      BY <1>v, ElementsOf
    <3>3. \A i \in 1 .. Len(v2) : v2[i] # o
      BY <2>1, <3>2 DEF As!IsOpen, As!Range
    <3>4. \A i \in 1 .. Len(v2') : i \in 1 .. Len(v2) \/ i = Len(v2) + 1
      BY <3>1, <3>2
    <3> QED
      BY <1>t, <3>1, <3>3, <3>4
  <2>3. \A u \in As!Overlays : v3'[u].overflow \in {"", "hidden"} /\ v3'[u].opener \in As!Overlays \cup {"page", "field"}
    BY <1>t, <1>v, <2>1
  <2> QED
    BY <1>1, <1>a, <1>t, <2>1, <2>2, <2>3
<1>3. CASE As!OpensPalette \/ As!OpensSheet \/ \E o \in {"panel", "nav"} : As!OpensDrawer(o)
  <2>1. PICK o \in As!Overlays : As!Open(o)
    BY <1>3 DEF As!OpensPalette, As!OpensSheet, As!OpensDrawer, As!Overlays
  <2> QED
    BY <1>2, <2>1
<1>4. ASSUME NEW S \in SUBSET As!Range(v2), As!Closed(S, TRUE), As!Rested, UNCHANGED <<v1, v10, v11, v12>>
      PROVE  OverlaysTypes'
  <2>1. TRUE \in BOOLEAN
    OBVIOUS
  <2>2. /\ \A i, j \in 1 .. Len(v2') : v2'[i] = v2'[j] => i = j
        /\ v4' \in {"", "hidden"} /\ v5' \in As!Overlays \cup {"page", "field"}
        /\ \A o \in As!Overlays :
               v3'[o].overflow \in {"", "hidden"} /\ v3'[o].opener \in As!Overlays \cup {"page", "field"}
    BY <1>4, <2>1, ClosedIsTyped
  <2>3. v7' \in {v7, 0}
    BY <1>4 DEF As!Rested
  <2> QED
    BY <1>1, <1>4, <1>t, <1>z, <2>2, <2>3
<1>5. CASE As!Escape
  <2>1. As!Range(v2) \in SUBSET As!Range(v2)
    OBVIOUS
  <2> QED
    BY <1>4, <1>5, <2>1 DEF As!Escape
<1>6. ASSUME NEW o, As!Close(o)
      PROVE  OverlaysTypes'
  <2>1. v2 # <<>> /\ As!Last(v2) = o /\ As!Closed({o}, TRUE) /\ As!Rested /\ UNCHANGED <<v1, v10, v11, v12>>
    BY <1>6 DEF As!Close
  <2>2. {o} \in SUBSET As!Range(v2)
    <3>1. Len(v2) \in DOMAIN v2
      BY <1>v, <2>1
    <3> QED
      BY <2>1, <3>1 DEF As!Last, As!Range
  <2> QED
    BY <1>4, <2>1, <2>2
<1>7. CASE As!ClosesDrawer \/ As!ClosesSheet \/ As!ClosesPalette
  BY <1>6, <1>7 DEF As!ClosesDrawer, As!ClosesSheet, As!ClosesPalette
<1>8. ASSUME NEW p \in AsPaths, As!Walks(p) \/ As!BrowserWalks(p)
      PROVE  OverlaysTypes'
  <2>1. v10' \in BOOLEAN
    BY <1>8 DEF As!Walks, As!BrowserWalks
  <2>2. PICK S \in {{"nav"}, {}} : As!Arrive(p, S)
    BY <1>8 DEF As!Walks, As!BrowserWalks
  <2>3. As!Acts /\ v12' = v12
    BY <1>8 DEF As!Walks, As!BrowserWalks
  <2> QED
    BY <2>1, <2>2, <2>3, ArrivedIsTyped
<1>9. ASSUME NEW f \in {"page", "field"}, As!Focuses(f)
      PROVE  OverlaysTypes'
  <2>1. v5' = f /\ As!Acts /\ UNCHANGED <<v1, v2, v3, v4, v7, v10, v12>>
    BY <1>9 DEF As!Focuses
  <2> QED
    BY <1>1, <1>a, <1>t, <2>1
<1>10. ASSUME v7' \in -1 .. total, v11' \in 0 .. AsMaxActs, v12' \in 0 .. AsMaxChanges,
              UNCHANGED <<v1, v2, v3, v4, v5, v10>>
       PROVE  OverlaysTypes'
  BY <1>1, <1>10, <1>t
<1>11. ASSUME NEW q, As!Types(q)
       PROVE  OverlaysTypes'
  <2>1. v7' = 0 /\ As!Acts /\ UNCHANGED <<v1, v2, v3, v4, v5, v10, v12>>
    BY <1>11 DEF As!Types
  <2> QED
    BY <1>10, <1>a, <1>t, <1>z, <2>1
<1>12. /\ As!Entries \in Seq(As!Range(AsSections) \cup As!Range(AsReviews) \cup As!Range(AsRepositories))
       /\ Len(As!Entries) \in 0 .. total
  BY EntriesAreFew DEF total
<1>13. ASSUME NEW i, As!Moves(i)
       PROVE  OverlaysTypes'
  <2> DEFINE n == Len(As!Entries)
  <2>1. \/ i = As!Smaller(v7 + 1, n - 1)
        \/ i = (IF v7 > 0 THEN v7 - 1 ELSE 0)
        \/ i \in 0 .. n - 1
    BY <1>13 DEF As!Moves
  <2>2. v7' = i /\ UNCHANGED <<v1, v2, v3, v4, v5, v10, v11, v12>>
    BY <1>13 DEF As!Moves
  <2>3. n \in 0 .. total
    BY <1>12
  <2> HIDE DEF n
  <2>4. i \in -1 .. total
    BY <1>n, <1>w, <2>1, <2>3 DEF As!Smaller
  <2> QED
    BY <1>10, <1>t, <2>2, <2>4
<1>14. ASSUME NEW i, As!Goes(i)
       PROVE  OverlaysTypes'
  <2> DEFINE A == As!Range(AsSections) \cup As!Range(AsReviews) \cup As!Range(AsRepositories)
             e == As!Entries[i + 1]
  <2>1. i \in 0 .. Len(As!Entries) - 1 /\ As!Arrive(AsLeads[e], {"palette"}) /\ As!Acts /\ v12' = v12
    BY <1>14 DEF As!Goes
  <2>2. e \in A
    <3>1. Len(As!Entries) \in Nat
      BY <1>12
    <3>2. i + 1 \in 1 .. Len(As!Entries)
      BY <2>1, <3>1
    <3> QED
      BY <1>12, <3>2, ElementsOf
  <2>3. v10' \in BOOLEAN
    BY <1>14 DEF As!Goes
  <2>4. AsLeads \in [A -> AsPaths]
    BY DEF As!ShellAssumption
  <2> HIDE DEF A, e
  <2>5. AsLeads[e] \in AsPaths
    BY <2>2, <2>4
  <2> QED
    BY <2>1, <2>3, <2>5, ArrivedIsTyped
<1>15. ASSUME NEW l \in As!Names, As!Changes(l) \/ As!Reads(l) \/ As!Answered(l)
       PROVE  OverlaysTypes'
  <2>1. UNCHANGED <<v1, v2, v3, v4, v5, v7, v10>>
    BY <1>15 DEF As!Changes, As!Reads, As!Answered
  <2>2. v11' = v11 \/ As!Acts
    BY <1>15 DEF As!Changes, As!Reads, As!Answered
  <2>3. v12' = v12 \/ (v12 < AsMaxChanges /\ v12' = v12 + 1)
    BY <1>15 DEF As!Changes, As!Reads, As!Answered
  <2>4. v12' \in 0 .. AsMaxChanges
    BY <1>m, <2>3
  <2> QED
    BY <1>10, <1>a, <1>t, <2>1, <2>2, <2>4
<1>16. CASE UNCHANGED As!vars
  BY <1>10, <1>16, <1>t DEF As!vars
<1> QED
  BY <1>3, <1>5, <1>7, <1>8, <1>9, <1>11, <1>13, <1>14, <1>15, <1>16 DEF As!Next

(***************************************************************************)
(* The types of the picker                                                 *)
(***************************************************************************)
\* A clone, or an example, that is on its way.
CloneIsOn == v11 # None /\ v11.state = "cloning"
LoadIsOn == v12 = "loading"

\* What is on its way, of the form and of those that have gone, was asked for by an act each.
PickerTypes ==
    /\ Rp!TypeOK /\ v14 \in RpPaths \cup {None}
    /\ v13 <= v15 /\ (CloneIsOn \/ LoadIsOn => v13 + 1 <= v15) /\ (CloneIsOn /\ LoadIsOn => v13 + 2 <= v15)
    /\ v11 # None => DOMAIN v11 = {"at", "branch", "listed", "state"}

\* How many of two things are so.
LEMMA HowManyAreOn ==
    ASSUME NEW a \in BOOLEAN, NEW b \in BOOLEAN
    PROVE  Rp!Cardinality({w \in {"clone", "load"} : IF w = "load" THEN a ELSE b})
              = (IF b THEN 1 ELSE 0) + (IF a THEN 1 ELSE 0)
<1> DEFINE S == {w \in {"clone", "load"} : IF w = "load" THEN a ELSE b}
<1>1. /\ ~a /\ ~b => S = {}
      /\ a /\ ~b => S = {"load"}
      /\ ~a /\ b => S = {"clone"}
      /\ a /\ b => S = {"clone"} \cup {"load"}
  OBVIOUS
<1>2. Cardinality({"clone"} \cup {"load"}) = 2
  <2>1. IsFiniteSet({"clone"}) /\ Cardinality({"clone"}) = 1 /\ "load" \notin {"clone"}
    BY FS_Singleton
  <2> QED
    BY <2>1, FS_AddElement
<1>3. Cardinality(S) = (IF b THEN 1 ELSE 0) + (IF a THEN 1 ELSE 0)
  <2>1. Cardinality({}) = 0 /\ Cardinality({"clone"}) = 1 /\ Cardinality({"load"}) = 1
    BY FS_EmptySet, FS_Singleton
  <2> HIDE DEF S
  <2> QED
    BY <1>1, <1>2, <2>1
<1>4. Rp!Cardinality(S) = Cardinality(S)
  <2> HIDE DEF S
  <2> QED
    BY DEF Rp!Cardinality, Cardinality
<1> QED
  BY <1>3, <1>4

\* Nothing is on its way at first.
LEMMA PickerTypedInitially == ASSUME Rp!PickerAssumption, Rp!Init PROVE PickerTypes
<1>1. Rp!TypeOK
  <2>1. v4 \in BOOLEAN /\ v6 \in BOOLEAN /\ v10 \in BOOLEAN
    BY DEF Rp!Init
  <2>2. /\ v1 \in RpPaths \cup {None} /\ v3 = v1
        /\ v8 \in [RpRemotes -> {"unread", "reading", "failed", "listed"}]
    BY DEF Rp!PickerAssumption, Rp!Init
  <2>3. 0 \in 0 .. RpMaxActs
    BY DEF Rp!PickerAssumption
  <2> QED
    BY <2>1, <2>2, <2>3 DEF Rp!Init, Rp!TypeOK
<1> QED
  BY <1>1 DEF Rp!Init, PickerTypes, CloneIsOn, LoadIsOn

\* A choice is a path.
LEMMA ChoiceIsTyped ==
    ASSUME Rp!TypeOK, NEW p \in RpPaths, Rp!Choose(p)
    PROVE  /\ v1' \in RpPaths \cup {None, "partial"} /\ v3' \in RpPaths \cup {None, "partial"}
           /\ v4' \in BOOLEAN
  BY DEF Rp!TypeOK, Rp!Choose

\* A branch that is kept is a branch.
LEMMA HeldIsABranch ==
    ASSUME NEW p, NEW k, NEW b \in RpBranches \cup {None}
    PROVE  Rp!Held(p, k, b) \in RpBranches \cup {None}
  BY DEF Rp!Held

\* Every step of the reader, the page and the server leaves every part with its type.
LEMMA PickerTyped ==
    ASSUME Rp!PickerAssumption, PickerTypes, Rp!Next \/ UNCHANGED Rp!vars
    PROVE  PickerTypes'
<1> USE DEF PickerTypes
<1>0. RpMaxActs \in Nat /\ RpIndexed \subseteq RpPaths /\ RpPublished \in [RpRemotes -> SUBSET RpBranches]
      /\ None \notin RpPaths \cup RpRemotes \cup RpBranches
  BY DEF Rp!PickerAssumption
<1>1. ASSUME NEW t, Rp!PickTab(t)
      PROVE  PickerTypes'
  <2>1. v13' = v13 + (IF CloneIsOn THEN 1 ELSE 0) + (IF LoadIsOn THEN 1 ELSE 0)
    <3>1. CloneIsOn \in BOOLEAN /\ LoadIsOn \in BOOLEAN
      BY DEF CloneIsOn, LoadIsOn
    <3>2. v13' = v13 + Rp!Cardinality({w \in {"clone", "load"} : IF w = "load" THEN LoadIsOn ELSE CloneIsOn})
      BY <1>1 DEF Rp!PickTab, CloneIsOn, LoadIsOn
    <3>3. v13 \in Nat
      BY DEF Rp!TypeOK
    <3> QED
      BY <3>1, <3>2, <3>3, HowManyAreOn
  <2>2. v15' = v15 + 1 /\ v15' <= RpMaxActs /\ v15 \in Nat /\ v13 \in Nat
    BY <1>0, <1>1 DEF Rp!PickTab, Rp!Acts, Rp!TypeOK
  <2>3. ~CloneIsOn' /\ ~LoadIsOn'
    BY <1>1 DEF Rp!PickTab, CloneIsOn, LoadIsOn
  <2>4. v13' \in 0 .. RpMaxActs /\ v13' <= v15' /\ v15' \in 0 .. RpMaxActs
    BY <1>0, <2>1, <2>2
  <2>5. /\ v1' \in RpPaths \cup {None, "partial"} /\ v3' \in RpPaths \cup {None, "partial"}
        /\ v4' \in BOOLEAN /\ v6' \in BOOLEAN /\ v10' \in BOOLEAN
        /\ v5' = None /\ v7' = None /\ v8' = v8 /\ v9' = None /\ v12' = "idle" /\ v11' = None /\ v14' = None
    BY <1>1 DEF Rp!PickTab, Rp!TypeOK
  <2>6. Rp!TypeOK'
    BY <2>4, <2>5 DEF Rp!TypeOK
  <2> QED
    BY <2>3, <2>4, <2>5, <2>6
<1>2. ASSUME NEW p \in RpPaths, Rp!PickIndexed(p)
      PROVE  PickerTypes'
  BY <1>0, <1>2, ChoiceIsTyped DEF Rp!PickIndexed, Rp!Acts, Rp!TypeOK, Rp!form, CloneIsOn, LoadIsOn
<1>3. ASSUME NEW p \in RpPaths, Rp!Cloned(p)
      PROVE  PickerTypes'
  BY <1>0, <1>3, ChoiceIsTyped DEF Rp!Cloned, Rp!TypeOK, CloneIsOn, LoadIsOn
<1>4. ASSUME NEW p \in RpPaths, Rp!Loaded(p)
      PROVE  PickerTypes'
  BY <1>0, <1>4, ChoiceIsTyped DEF Rp!Loaded, Rp!TypeOK, Rp!form, CloneIsOn, LoadIsOn
<1>5. CASE Rp!Drifts
  <2>1. /\ v1' \in RpPaths \cup {None, "partial"} /\ v3' \in RpPaths \cup {None, "partial"}
        /\ v4' \in BOOLEAN
    BY <1>5, ChoiceIsTyped DEF Rp!Drifts, Rp!TypeOK, Rp!field
  <2> QED
    BY <1>0, <1>5, <2>1 DEF Rp!Drifts, Rp!TypeOK, Rp!form, CloneIsOn, LoadIsOn
<1>6. ASSUME NEW t \in RpPaths \cup {None, "partial"}, Rp!TypePath(t)
      PROVE  PickerTypes'
  BY <1>0, <1>6 DEF Rp!TypePath, Rp!Acts, Rp!TypeOK, Rp!form, CloneIsOn, LoadIsOn
<1>7. CASE Rp!ListingArrives \/ Rp!Settles
  BY <1>0, <1>7 DEF Rp!ListingArrives, Rp!Settles, Rp!TypeOK, Rp!field, Rp!form, CloneIsOn, LoadIsOn
<1>8. CASE Rp!OpenFolder \/ Rp!LeaveField \/ Rp!UseFolder
  <2>1. /\ v1' \in RpPaths \cup {None, "partial"} /\ v3' \in RpPaths \cup {None, "partial"}
        /\ v4' \in BOOLEAN /\ v14' \in RpPaths \cup {None}
    BY <1>8 DEF Rp!OpenFolder, Rp!LeaveField, Rp!Blurred, Rp!UseFolder, Rp!TypeOK, Rp!field
  <2>2. Rp!Acts /\ UNCHANGED <<v5, v6, v7, v8, v9, v10, v11, v12, v13>>
    BY <1>8 DEF Rp!OpenFolder, Rp!LeaveField, Rp!UseFolder, Rp!form
  <2> QED
    BY <1>0, <2>1, <2>2 DEF Rp!Acts, Rp!TypeOK, CloneIsOn, LoadIsOn
<1>10. ASSUME NEW u \in RpRemotes \cup {None}, Rp!TypeUrl(u)
       PROVE  PickerTypes'
  BY <1>0, <1>10 DEF Rp!TypeUrl, Rp!Acts, Rp!TypeOK, Rp!field, CloneIsOn, LoadIsOn
<1>11. ASSUME NEW r \in RpRemotes, Rp!RemoteAnswers(r)
       PROVE  PickerTypes'
  <2>1. v9' \in RpBranches \cup {None}
    BY <1>11, HeldIsABranch DEF Rp!RemoteAnswers, Rp!TypeOK
  <2> QED
    BY <1>0, <1>11, <2>1 DEF Rp!RemoteAnswers, Rp!TypeOK, Rp!field, CloneIsOn, LoadIsOn
<1>12. ASSUME NEW b \in RpBranches \cup {None}, Rp!PickBranch(b) \/ Rp!TypeBranch(b)
       PROVE  PickerTypes'
  <2>1. v9' \in RpBranches \cup {None}
    BY <1>12, HeldIsABranch DEF Rp!PickBranch, Rp!TypeBranch
  <2> QED
    BY <1>0, <1>12, <2>1 DEF Rp!PickBranch, Rp!TypeBranch, Rp!Acts, Rp!TypeOK, Rp!field, CloneIsOn, LoadIsOn
<1>13. CASE Rp!Probes
  <2>1. v9' \in RpBranches \cup {None}
    BY <1>13, HeldIsABranch DEF Rp!Probes, Rp!TypeOK
  <2> QED
    BY <1>0, <1>13, <2>1 DEF Rp!Probes, Rp!Asks, Rp!TypeOK, Rp!field, CloneIsOn, LoadIsOn
<1>14. CASE Rp!NameItMyself
  BY <1>0, <1>14 DEF Rp!NameItMyself, Rp!Acts, Rp!TypeOK, Rp!field, CloneIsOn, LoadIsOn
<1>15. CASE Rp!Clone \/ Rp!CloneFails
  BY <1>0, <1>15 DEF Rp!Clone, Rp!CloneFails, Rp!Acts, Rp!TypeOK, Rp!field, CloneIsOn, LoadIsOn
<1>16. CASE Rp!LoadExample \/ Rp!LoadFails
  BY <1>0, <1>16 DEF Rp!LoadExample, Rp!LoadFails, Rp!Acts, Rp!TypeOK, Rp!field, Rp!form, CloneIsOn, LoadIsOn
<1>17. CASE UNCHANGED Rp!vars
  BY <1>0, <1>17 DEF Rp!vars, Rp!TypeOK, Rp!field, Rp!form, CloneIsOn, LoadIsOn
<1> QED
  BY <1>1, <1>2, <1>3, <1>4, <1>5, <1>6, <1>7, <1>8, <1>10, <1>11, <1>12, <1>13, <1>14, <1>15, <1>16,
     <1>17 DEF Rp!Next

(***************************************************************************)
(* The types of the history                                                *)
(***************************************************************************)
\* The reviews filed of a branch are fewer than the reviews there may be, where one is not filed.
LEMMA NextSequence ==
    ASSUME Rh!HistoryAssumption, NEW v \in RhReviews, NEW T \in SUBSET RhReviews, v \notin T
    PROVE  1 + Rh!Cardinality(T) \in 1 .. Rh!Cardinality(RhReviews)
<1>1. IsFiniteSet(RhReviews)
  BY DEF Rh!HistoryAssumption, Rh!IsFiniteSet, IsFiniteSet
<1>2. IsFiniteSet(T) /\ IsFiniteSet(T \cup {v})
  BY <1>1, FS_Subset, FS_AddElement
<1>3. Cardinality(T \cup {v}) = Cardinality(T) + 1
  BY <1>2, FS_AddElement
<1>4. Cardinality(T \cup {v}) <= Cardinality(RhReviews)
  BY <1>1, FS_Subset
<1>5. Cardinality(T) \in Nat /\ Cardinality(RhReviews) \in Nat
  BY <1>1, <1>2, FS_CardinalityType
<1>6. Rh!Cardinality(T) = Cardinality(T) /\ Rh!Cardinality(RhReviews) = Cardinality(RhReviews)
  BY DEF Rh!Cardinality, Cardinality
<1>7. 1 + Cardinality(T) \in 1 .. Cardinality(RhReviews)
  BY <1>3, <1>4, <1>5
<1> QED
  BY <1>6, <1>7

\* The page opens on reviews that are numbered, and on nothing else.
LEMMA HistoryTypedInitially == ASSUME Rh!HistoryAssumption, Rh!Init PROVE Rh!TypeOK
<1>1. v1 \in [RhReviews -> Rh!Review \cup {None}]
  BY DEF Rh!Init
<1> QED
  BY <1>1 DEF Rh!Init, Rh!TypeOK

\* Every step of the reader, the page and the server leaves every part with its type.
LEMMA HistoryTyped ==
    ASSUME Rh!HistoryAssumption, Rh!TypeOK, Rh!Next \/ UNCHANGED Rh!vars
    PROVE  Rh!TypeOK'
<1> USE DEF Rh!TypeOK
<1>1. ASSUME NEW x \in RhRuns, NEW b \in RhBranches, NEW v \in RhReviews \cup {None}, Rh!RunBegins(x, b, v)
      PROVE  Rh!TypeOK'
  <2>1. [branch |-> b, review |-> v] \in Rh!Run
    BY DEF Rh!Run
  <2> QED
    BY <1>1, <2>1 DEF Rh!RunBegins, Rh!cache, Rh!view, Rh!rows
<1>2. ASSUME NEW x \in RhRuns, Rh!RunEnds(x)
      PROVE  Rh!TypeOK'
  <2>1. v2' \in [RhRuns -> Rh!Run \cup {None}] /\ UNCHANGED <<v3, v4, v5, v6, v7, v8, v9, v10>>
    BY <1>2 DEF Rh!RunEnds, Rh!cache, Rh!view, Rh!rows
  <2>2. v2[x] \in Rh!Run /\ v2[x].branch \in RhBranches
    BY <1>2 DEF Rh!RunEnds, Rh!Run
  <2>3. v1' \in [RhReviews -> Rh!Review \cup {None}]
    <3>1. CASE v1' = v1
      BY <3>1
    <3>2. ASSUME NEW v \in RhReviews \ Rh!Kept(v1), NEW s \in RhStatuses, NEW o \in 0 .. 1, NEW n,
                 n = 1 + Rh!Cardinality({w \in Rh!Kept(v1) : v1[w].branch = v2[x].branch}),
                 v1' = [v1 EXCEPT ![v] = [branch |-> v2[x].branch, status |-> s, open |-> o, sequence |-> n]]
          PROVE  v1' \in [RhReviews -> Rh!Review \cup {None}]
      <4>1. n \in 1 .. Rh!Cardinality(RhReviews)
        <5> DEFINE T == {w \in Rh!Kept(v1) : v1[w].branch = v2[x].branch}
        <5>1. T \in SUBSET RhReviews /\ v \notin T /\ v \in RhReviews
          BY <3>2 DEF Rh!Kept
        <5> HIDE DEF T
        <5>2. n = 1 + Rh!Cardinality(T)
          BY <3>2 DEF T
        <5> QED
          BY <5>1, <5>2, NextSequence
      <4>2. [branch |-> v2[x].branch, status |-> s, open |-> o, sequence |-> n] \in Rh!Review
        BY <2>2, <3>2, <4>1 DEF Rh!Review
      <4> QED
        BY <3>2, <4>2
    <3> QED
      BY <1>2, <3>1, <3>2 DEF Rh!RunEnds
  <2> QED
    BY <2>1, <2>3
<1>3. CASE Rh!RunsArrive \/ Rh!ReviewsArrive
  BY <1>3 DEF Rh!RunsArrive, Rh!ReviewsArrive, Rh!world, Rh!view, Rh!rows
<1>4. CASE Rh!ClearFilters
  BY <1>4 DEF Rh!ClearFilters, Rh!world, Rh!cache, Rh!rows
<1>5. ASSUME NEW b \in RhBranches, Rh!DecisionsArrive(b) \/ Rh!Expand(b)
      PROVE  Rh!TypeOK'
  BY <1>5 DEF Rh!DecisionsArrive, Rh!Expand, Rh!world, Rh!cache, Rh!view, Rh!rows
<1>6. ASSUME NEW q \in RhWords \cup {None}, Rh!Search(q)
      PROVE  Rh!TypeOK'
  BY <1>6 DEF Rh!Search, Rh!world, Rh!cache
<1>7. ASSUME NEW s \in RhStatuses \cup {"all"}, Rh!SetStatus(s)
      PROVE  Rh!TypeOK'
  BY <1>7 DEF Rh!SetStatus, Rh!world, Rh!cache
<1>8. ASSUME NEW v \in RhReviews, Rh!AskToDelete(v) \/ Rh!Keep(v) \/ Rh!Delete(v) \/ Rh!Deleted(v)
      PROVE  Rh!TypeOK'
  BY <1>8 DEF Rh!AskToDelete, Rh!Keep, Rh!Delete, Rh!Deleted, Rh!world, Rh!cache, Rh!view
<1>9. CASE UNCHANGED Rh!vars
  BY <1>9 DEF Rh!vars, Rh!world, Rh!cache, Rh!view, Rh!rows
<1> QED
  BY <1>1, <1>2, <1>3, <1>4, <1>5, <1>6, <1>7, <1>8, <1>9 DEF Rh!Next

(***************************************************************************)
(* The types of the architecture cases                                     *)
(***************************************************************************)
\* The cases that have a revision.
SealedCases == {c \in CaCases : v1[c] # <<>>}

\* What is listed of a case, or read, is of a case that has revisions; the reader opened a case
\* that is listed.
CasesTypes ==
    /\ Ca!TypeOK
    /\ v8 # Ca!Closed => DOMAIN v8 = {"on", "draft"}
    /\ v7 # None => v7 \in Ca!Listed(v3)
    /\ Ca!Listed(v3) \subseteq SealedCases
    /\ v4 \notin {None, Asked} => Ca!Listed(v3) \subseteq Ca!Listed(v4) /\ Ca!Listed(v4) \subseteq SealedCases
    /\ \A c \in CaCases : v5[c] # None \/ v6[c] # None => c \in SealedCases
    /\ \A c \in CaCases : v5[c] = None \/ (v5[c] \in Seq(CaScopes) /\ v5[c] # <<>>)
    /\ \A c \in CaCases : v6[c] \in {None, Asked} \/ (v6[c] \in Seq(CaScopes) /\ v6[c] # <<>>)

\* The case on screen is one that is listed.
LEMMA SelectedIsACase ==
    ASSUME Ca!CasesAssumption, NEW l, NEW s, s # None => s \in Ca!Listed(l), Ca!SelectedId(l, s) # None
    PROVE  Ca!SelectedId(l, s) \in Ca!Listed(l)
<1>1. CASE s # None
  BY <1>1 DEF Ca!SelectedId
<1>2. CASE s = None
  <2>1. Ca!Listed(l) # {} /\ Ca!Listed(l) \subseteq Nat
    BY <1>2 DEF Ca!SelectedId, Ca!Listed, Ca!CasesAssumption
  <2>2. PICK m \in Ca!Listed(l) : \A d \in Ca!Listed(l) : m <= d
    BY <2>1, LeastNumber
  <2>3. Ca!SelectedId(l, s) = CHOOSE c \in Ca!Listed(l) : \A d \in Ca!Listed(l) : c <= d
    BY <1>2, <2>1 DEF Ca!SelectedId
  <2> QED
    BY <2>2, <2>3
<1> QED
  BY <1>1, <1>2

\* The last of what is read of a case is a scope.
LEMMA LastIsAScope ==
    ASSUME NEW q \in Seq(CaScopes), q # <<>>
    PROVE  Ca!Last(q) \in CaScopes
  BY DEF Ca!Last

\* Before a reading nothing is listed, and the server's revisions are there.
LEMMA CasesTypedInitially == ASSUME Ca!CasesAssumption, Ca!Init PROVE CasesTypes
<1>1. \A s \in CaScopes : <<s>> \in Seq(CaScopes)
  OBVIOUS
<1>2. v1 \in [CaCases -> Seq(CaScopes)]
  <2>1. ASSUME NEW q \in {<<>>} \cup {<<s>> : s \in CaScopes}
        PROVE  q \in Seq(CaScopes)
    <3>1. CASE q = <<>>
      BY <3>1
    <3>2. ASSUME NEW s \in CaScopes, q = <<s>>
          PROVE  q \in Seq(CaScopes)
      BY <3>2, <1>1
    <3> QED
      BY <2>1, <3>1, <3>2
  <2>2. v1 \in [CaCases -> {<<>>} \cup {<<s>> : s \in CaScopes}]
    BY DEF Ca!Init
  <2> QED
    BY <2>1, <2>2
<1>3. Ca!Listed(v3) = {}
  BY DEF Ca!Init, Ca!Listed
<1>4. Ca!TypeOK
  <2>1. 0 \in 0 .. CaMaxActs
    BY DEF Ca!CasesAssumption
  <2> QED
    BY <1>2, <2>1 DEF Ca!Init, Ca!TypeOK
<1> QED
  BY <1>3, <1>4 DEF Ca!Init, CasesTypes, Ca!CasesAssumption

\* What a listing or a choice shows: the form that was open or none, and a question for the
\* history of a case that is listed.
LEMMA ShownIsTyped ==
    ASSUME Ca!CasesAssumption, CasesTypes, Ca!IInv, NEW l, NEW s, s # None => s \in Ca!Listed(l),
           Ca!Listed(l) \subseteq SealedCases, Ca!Shows(l, s)
    PROVE  /\ v8' = Ca!Closed \/ v8' = v8
           /\ DOMAIN v6' = CaCases
           /\ \A c \in CaCases : v6'[c] = v6[c] \/ (v6'[c] = Asked /\ c \in SealedCases)
           /\ v9' = None \/ (v9 # None /\ v9'.on = v9.on /\ v9'.scope = v9.scope)
<1>1. v8' = Ca!Closed \/ v8' = v8
  BY DEF Ca!Shows, Ca!FormAfter
<1>2. v6' = v6 \/ (Ca!SelectedId(l, s) \in SealedCases /\ v6' = [v6 EXCEPT ![Ca!SelectedId(l, s)] = Asked])
  BY SelectedIsACase DEF Ca!Shows, Ca!HistoryAfter
<1>3. v9' = None \/ (v9 # None /\ v9'.on = v9.on /\ v9'.scope = v9.scope)
  <2>1. CASE v9 = None
    BY <2>1 DEF Ca!Shows
  <2>2. CASE v9 # None
    <3>1. v9' = v9 \/ v9' = [v9 EXCEPT !.drawn = FALSE]
      BY <2>2 DEF Ca!Shows
    <3>2. DOMAIN v9 = {"on", "of", "scope", "done", "drawn"}
      BY <2>2 DEF Ca!IInv
    <3> QED
      BY <2>2, <3>1, <3>2
  <2> QED
    BY <2>1, <2>2
<1>4. DOMAIN v6 = CaCases
  BY DEF CasesTypes, Ca!TypeOK
<1> QED
  BY <1>1, <1>2, <1>3, <1>4

\* Every step of the reader, the page and the server leaves every part with its type.
LEMMA CasesTyped ==
    ASSUME Ca!CasesAssumption, CasesTypes, Ca!IInv, Ca!Next \/ UNCHANGED Ca!vars
    PROVE  CasesTypes'
<1> USE DEF CasesTypes
<1>0. CaMaxActs \in Nat /\ None \notin CaCases
  BY DEF Ca!CasesAssumption
<1>1. CASE Ca!ServerLists
  BY <1>1 DEF Ca!ServerLists, Ca!TypeOK, Ca!Listed, SealedCases
<1>2. CASE Ca!ListArrives
  <2>1. v4 \notin {None, Asked} /\ v3' = v4 /\ v4' = None /\ UNCHANGED <<v1, v2, v5, v7, v10>>
    BY <1>2 DEF Ca!ListArrives
  <2>2. /\ v8' = Ca!Closed \/ v8' = v8
        /\ DOMAIN v6' = CaCases
        /\ \A c \in CaCases : v6'[c] = v6[c] \/ (v6'[c] = Asked /\ c \in SealedCases)
        /\ v9' = None \/ (v9 # None /\ v9'.on = v9.on /\ v9'.scope = v9.scope)
    <3>1. CASE v2
      <4>1. Ca!Shows(v4, v7)
        BY <1>2, <3>1 DEF Ca!ListArrives
      <4>2. (v7 # None => v7 \in Ca!Listed(v4)) /\ Ca!Listed(v4) \subseteq SealedCases
        BY <2>1
      <4> QED
        BY <4>1, <4>2, ShownIsTyped
    <3>2. CASE ~v2
      BY <1>2, <3>2 DEF Ca!ListArrives, Ca!TypeOK
    <3> QED
      BY <3>1, <3>2
  <2>3. Ca!Listed(v3)' = Ca!Listed(v4) /\ SealedCases' = SealedCases
    BY <2>1 DEF Ca!Listed, SealedCases
  <2>4. Ca!TypeOK'
    BY <2>1, <2>2 DEF Ca!TypeOK, Ca!Closed
  <2> QED
    BY <2>1, <2>2, <2>3, <2>4
<1>3. ASSUME NEW c \in CaCases, Ca!ServerReads(c)
      PROVE  CasesTypes'
  <2>1. /\ v6[c] = Asked /\ v6' = [v6 EXCEPT ![c] = v1[c]]
        /\ UNCHANGED <<v1, v2, v3, v4, v5, v7, v8, v9, v10>>
    BY <1>3 DEF Ca!ServerReads
  <2>2. c \in SealedCases
    BY <2>1 DEF Ca!CasesAssumption
  <2>3. v1[c] \in Seq(CaScopes) /\ v1[c] # <<>>
    BY <2>2 DEF SealedCases, Ca!TypeOK
  <2>4. Ca!TypeOK' /\ UNCHANGED <<SealedCases, Ca!Listed(v3), Ca!Listed(v4), Ca!Closed>>
    BY <2>1 DEF Ca!TypeOK, SealedCases, Ca!Listed, Ca!Closed
  <2> QED
    BY <2>1, <2>2, <2>3, <2>4 DEF Ca!TypeOK
<1>4. ASSUME NEW c \in CaCases, Ca!HistoryArrives(c)
      PROVE  CasesTypes'
  <2>1. /\ v6[c] \notin {None, Asked} /\ v5' = [v5 EXCEPT ![c] = v6[c]] /\ v6' = [v6 EXCEPT ![c] = None]
        /\ UNCHANGED <<v1, v2, v3, v4, v7, v8, v9, v10>>
    BY <1>4 DEF Ca!HistoryArrives
  <2>2. Ca!TypeOK' /\ UNCHANGED <<SealedCases, Ca!Listed(v3), Ca!Listed(v4), Ca!Closed>>
    BY <2>1 DEF Ca!TypeOK, SealedCases, Ca!Listed, Ca!Closed
  <2> QED
    BY <2>1, <2>2 DEF Ca!TypeOK
<1>5. CASE Ca!Leave
  <2>1. v9' = None \/ (v9 # None /\ v9'.on = v9.on /\ v9'.scope = v9.scope)
    BY <1>5 DEF Ca!Leave, Ca!IInv
  <2>2. /\ v2' = FALSE /\ v7' = None /\ v8' = Ca!Closed /\ v10' = v10 + 1 /\ v10' <= CaMaxActs
        /\ UNCHANGED <<v1, v3, v4, v5, v6>>
    BY <1>0, <1>5 DEF Ca!Leave, Ca!lists, Ca!Acts, Ca!TypeOK
  <2>3. Ca!TypeOK'
    <3>1. v10' \in 0 .. CaMaxActs
      BY <1>0, <2>2 DEF Ca!TypeOK
    <3>2. v9' = None \/ (v9'.on \in CaCases /\ v9'.scope \in CaScopes)
      BY <2>1 DEF Ca!TypeOK
    <3>3. v8' = Ca!Closed'
      BY <2>2 DEF Ca!Closed
    <3> QED
      BY <2>2, <3>1, <3>2, <3>3 DEF Ca!TypeOK
  <2>4. UNCHANGED <<SealedCases, Ca!Listed(v3), Ca!Listed(v4)>>
    BY <2>2 DEF SealedCases, Ca!Listed
  <2> QED
    BY <2>2, <2>3, <2>4 DEF Ca!Closed
<1>6. ASSUME NEW fresh \in BOOLEAN, Ca!Return(fresh)
      PROVE  CasesTypes'
  <2>1. /\ v2' = TRUE /\ v6' = Ca!HistoryAfter(v6, v3, None) /\ (v4' = v4 \/ v4' = Asked)
        /\ UNCHANGED <<v1, v3, v5, v7, v8, v9, v10>>
    BY <1>6 DEF Ca!Return
  <2>2. v6' = v6 \/ (Ca!SelectedId(v3, None) \in SealedCases /\ v6' = [v6 EXCEPT ![Ca!SelectedId(v3, None)] = Asked])
    BY <2>1, SelectedIsACase DEF Ca!HistoryAfter
  <2>3. DOMAIN v6' = CaCases /\ \A c \in CaCases : v6'[c] = v6[c] \/ (v6'[c] = Asked /\ c \in SealedCases)
    BY <2>2 DEF Ca!TypeOK
  <2>4. Ca!TypeOK'
    BY <2>1, <2>3 DEF Ca!TypeOK, Ca!Closed
  <2>5. UNCHANGED <<SealedCases, Ca!Listed(v3), Ca!Closed>> /\ (v4' # Asked => Ca!Listed(v4)' = Ca!Listed(v4))
    BY <2>1 DEF SealedCases, Ca!Listed, Ca!Closed
  <2> QED
    BY <2>1, <2>3, <2>4, <2>5
<1>7. ASSUME NEW c \in CaCases, Ca!Select(c)
      PROVE  CasesTypes'
  <2>1. /\ c \in Ca!Listed(v3) /\ v7' = c /\ Ca!Shows(v3, c) /\ v10' = v10 + 1 /\ v10' <= CaMaxActs
        /\ UNCHANGED <<v1, v2, v3, v4, v5>>
    BY <1>0, <1>7 DEF Ca!Select, Ca!Acts, Ca!TypeOK
  <2>2. /\ v8' = Ca!Closed \/ v8' = v8
        /\ DOMAIN v6' = CaCases
        /\ \A d \in CaCases : v6'[d] = v6[d] \/ (v6'[d] = Asked /\ d \in SealedCases)
        /\ v9' = None \/ (v9 # None /\ v9'.on = v9.on /\ v9'.scope = v9.scope)
    BY <2>1, ShownIsTyped
  <2>3. UNCHANGED <<SealedCases, Ca!Listed(v3), Ca!Listed(v4), Ca!Closed>>
    BY <2>1 DEF SealedCases, Ca!Listed, Ca!Closed
  <2>4. Ca!TypeOK'
    BY <1>0, <2>1, <2>2 DEF Ca!TypeOK, Ca!Closed
  <2> QED
    BY <2>1, <2>2, <2>3, <2>4
<1>8. ASSUME NEW f, NEW s, v8' = f, v9' = s, f = Ca!Closed \/ (f.on \in CaCases /\ f.draft \in CaScopes
                                                           /\ DOMAIN f = {"on", "draft"}),
             s = None \/ (s.on \in CaCases /\ s.scope \in CaScopes), v10' \in 0 .. CaMaxActs,
             UNCHANGED <<v1, v2, v3, v4, v5, v6, v7>>
      PROVE  CasesTypes'
  <2>1. Ca!TypeOK'
    BY <1>8 DEF Ca!TypeOK, Ca!Closed
  <2>2. UNCHANGED <<SealedCases, Ca!Listed(v3), Ca!Listed(v4), Ca!Closed>>
    BY <1>8 DEF SealedCases, Ca!Listed, Ca!Closed
  <2> QED
    BY <1>8, <2>1, <2>2
<1>9. CASE Ca!Edit
  <2>1. /\ Ca!Open # None /\ v8' = [on |-> Ca!Open, draft |-> Ca!Latest(Ca!Open)] /\ v9' = v9
        /\ v10' = v10 + 1 /\ v10' <= CaMaxActs /\ UNCHANGED <<v1, v2, v3, v4, v5, v6, v7>>
    BY <1>0, <1>9 DEF Ca!Edit, Ca!lists, Ca!Acts, Ca!TypeOK
  <2>2. Ca!Open \in Ca!Listed(v3)
    BY <2>1, SelectedIsACase DEF Ca!Open
  <2>3. Ca!Open \in CaCases /\ v3 # None /\ v3[Ca!Open] # <<>>
    BY <2>2 DEF Ca!Listed
  <2>4. Ca!Latest(Ca!Open) \in CaScopes
    <3> DEFINE o == Ca!Open
    <3>1. v3[o] \in Seq(CaScopes)
      BY <2>3 DEF Ca!TypeOK
    <3> HIDE DEF o
    <3>2. o \in CaCases /\ v3[o] # <<>>
      BY <2>3 DEF o
    <3>3. Ca!Latest(o) \in CaScopes
      BY <3>1, <3>2, LastIsAScope DEF Ca!Latest
    <3> QED
      BY <3>3 DEF o
  <2>5. v10' \in 0 .. CaMaxActs
    BY <1>0, <2>1 DEF Ca!TypeOK
  <2>6. v9 = None \/ (v9.on \in CaCases /\ v9.scope \in CaScopes)
    BY DEF Ca!TypeOK
  <2> QED
    BY <1>8, <2>1, <2>3, <2>4, <2>5, <2>6
<1>10. ASSUME NEW s \in CaScopes, Ca!Type(s)
       PROVE  CasesTypes'
  <2>1. /\ v8 # Ca!Closed /\ v8' = [v8 EXCEPT !.draft = s] /\ v9' = v9
        /\ v10' \in 0 .. CaMaxActs /\ UNCHANGED <<v1, v2, v3, v4, v5, v6, v7>>
    BY <1>0, <1>10 DEF Ca!Type, Ca!lists, Ca!Acts, Ca!TypeOK
  <2>2. v8.on \in CaCases /\ v8.draft \in CaScopes /\ DOMAIN v8 = {"on", "draft"}
    BY <2>1 DEF Ca!TypeOK
  <2>3. v9 = None \/ (v9.on \in CaCases /\ v9.scope \in CaScopes)
    BY DEF Ca!TypeOK
  <2>4. v8'.on \in CaCases /\ v8'.draft \in CaScopes /\ DOMAIN v8' = {"on", "draft"}
    BY <2>1, <2>2
  <2> QED
    BY <1>8, <2>1, <2>3, <2>4
<1>11. CASE Ca!Cancel \/ Ca!Save
  <2>1. /\ v8' = v8 \/ v8' = Ca!Closed
        /\ v10' \in 0 .. CaMaxActs /\ UNCHANGED <<v1, v2, v3, v4, v5, v6, v7>>
    BY <1>0, <1>11 DEF Ca!Cancel, Ca!Save, Ca!lists, Ca!Acts, Ca!TypeOK
  <2>2. v9' = v9 \/ (v8 # Ca!Closed /\ v9'.on = Ca!Open /\ v9'.scope = v8.draft)
    BY <1>11 DEF Ca!Cancel, Ca!Save
  <2>3. v8 # Ca!Closed => v8.on = Ca!Open
    BY DEF Ca!IInv, Ca!TheFormIsOfTheOpenCase
  <2>4. v9' = None \/ (v9'.on \in CaCases /\ v9'.scope \in CaScopes)
    BY <2>2, <2>3 DEF Ca!TypeOK
  <2>5. v8' = Ca!Closed \/ (v8'.on \in CaCases /\ v8'.draft \in CaScopes /\ DOMAIN v8' = {"on", "draft"})
    BY <2>1 DEF Ca!TypeOK
  <2> QED
    BY <1>8, <2>1, <2>4, <2>5
<1>12. CASE Ca!SaveFails
  <2>1. v8 = Ca!Closed \/ (v8.on \in CaCases /\ v8.draft \in CaScopes /\ DOMAIN v8 = {"on", "draft"})
    BY DEF Ca!TypeOK
  <2>2. /\ v9' = None /\ v8' = v8 /\ v10' \in 0 .. CaMaxActs /\ UNCHANGED <<v1, v2, v3, v4, v5, v6, v7>>
    BY <1>0, <1>12 DEF Ca!SaveFails, Ca!lists, Ca!TypeOK
  <2> QED
    BY <1>8, <2>1, <2>2
<1>13. ASSUME NEW c \in CaCases, NEW s \in CaScopes, v1' = [v1 EXCEPT ![c] = Append(@, s)],
              v9' = None \/ (v9'.on \in CaCases /\ v9'.scope \in CaScopes),
              UNCHANGED <<v2, v3, v4, v5, v6, v7, v8, v10>>
       PROVE  CasesTypes'
  <2>1. v1[c] \in Seq(CaScopes)
    BY DEF Ca!TypeOK
  <2>2. Append(v1[c], s) \in Seq(CaScopes) /\ Append(v1[c], s) # <<>>
    BY <2>1
  <2>3. v1' \in [CaCases -> Seq(CaScopes)] /\ SealedCases \subseteq SealedCases'
    BY <1>13, <2>2 DEF Ca!TypeOK, SealedCases
  <2>4. UNCHANGED <<Ca!Listed(v3), Ca!Listed(v4), Ca!Closed>>
    BY <1>13 DEF Ca!Listed, Ca!Closed
  <2>5. Ca!TypeOK'
    BY <1>13, <2>3 DEF Ca!TypeOK, Ca!Closed
  <2> QED
    BY <1>13, <2>3, <2>4, <2>5
<1>14. CASE Ca!ServerRescopes
  <2>1. v9.on \in CaCases /\ v9.scope \in CaScopes /\ DOMAIN v9 = {"on", "of", "scope", "done", "drawn"}
    BY <1>14 DEF Ca!ServerRescopes, Ca!TypeOK, Ca!IInv
  <2>2. v9'.on = v9.on /\ v9'.scope = v9.scope
    BY <1>14, <2>1 DEF Ca!ServerRescopes
  <2> QED
    BY <1>13, <1>14, <2>1, <2>2 DEF Ca!ServerRescopes, Ca!lists
<1>15. ASSUME NEW c \in CaCases, NEW s \in CaScopes, Ca!ReviewSeals(c, s)
       PROVE  CasesTypes'
  <2>1. v9 = None \/ (v9.on \in CaCases /\ v9.scope \in CaScopes)
    BY DEF Ca!TypeOK
  <2> QED
    BY <1>13, <1>15, <2>1 DEF Ca!ReviewSeals, Ca!lists
<1>16. CASE Ca!Saved
  <2>1. /\ v9 # None /\ v9.on \in CaCases /\ v9' = None /\ (v8' = v8 \/ v8' = Ca!Closed)
        /\ (v4' = v4 \/ v4' = Asked) /\ UNCHANGED <<v1, v2, v3, v7, v10>>
    BY <1>16 DEF Ca!Saved, Ca!Again, Ca!TypeOK
  <2>2. /\ DOMAIN v5' = CaCases /\ DOMAIN v6' = CaCases
        /\ \A c \in CaCases : v5'[c] = v5[c] \/ v5'[c] = None
        /\ \A c \in CaCases : v6'[c] = v6[c] \/ (v6'[c] = Asked /\ c \in SealedCases)
    <3>1. CASE v2 /\ Ca!Open = v9.on
      <4>1. v5' = v5 /\ \E q \in {v6[v9.on], Asked} : v6' = [v6 EXCEPT ![v9.on] = q]
        <5>1. v5' = v5 /\ v6' = [v6 EXCEPT ![v9.on] = Ca!Again(@, v5[v9.on] # None)]
          BY <1>16, <3>1 DEF Ca!Saved
        <5>2. Ca!Again(v6[v9.on], v5[v9.on] # None) \in {v6[v9.on], Asked}
          BY DEF Ca!Again
        <5> QED
          BY <5>1, <5>2
      <4>2. Ca!Open # None
        BY <1>0, <2>1, <3>1
      <4>3. v9.on \in SealedCases
        BY <3>1, <4>2, SelectedIsACase DEF Ca!Open
      <4> QED
        BY <2>1, <4>1, <4>3 DEF Ca!TypeOK
    <3>2. CASE ~(v2 /\ Ca!Open = v9.on)
      <4>1. v6' = v6 /\ v5' = [v5 EXCEPT ![v9.on] = None]
        BY <1>16, <3>2 DEF Ca!Saved
      <4> QED
        BY <4>1 DEF Ca!TypeOK
    <3> QED
      BY <3>1, <3>2
  <2>3. UNCHANGED <<SealedCases, Ca!Listed(v3), Ca!Closed>> /\ (v4' # Asked => Ca!Listed(v4)' = Ca!Listed(v4))
    BY <2>1 DEF SealedCases, Ca!Listed, Ca!Closed
  <2>4. Ca!TypeOK'
    BY <2>1, <2>2 DEF Ca!TypeOK, Ca!Closed
  <2> QED
    BY <2>1, <2>2, <2>3, <2>4
<1>17. CASE UNCHANGED Ca!vars
  <2>1. UNCHANGED <<v1, v2, v3, v4, v5, v6, v7, v8, v9, v10>>
    BY <1>17 DEF Ca!vars, Ca!lists
  <2> QED
    BY <2>1 DEF Ca!TypeOK, Ca!Listed, SealedCases, Ca!Closed
<1> QED
  BY <1>1, <1>2, <1>3, <1>4, <1>5, <1>6, <1>7, <1>9, <1>10, <1>11, <1>12, <1>14, <1>15, <1>16, <1>17 DEF Ca!Next
=============================================================================

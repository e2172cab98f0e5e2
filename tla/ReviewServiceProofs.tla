------------------------ MODULE ReviewServiceProofs ------------------------
(***************************************************************************)
(* Theorems of ReviewService, for any last round, any number of requests   *)
(* and restarts. The first three are of any number of clients; the rest of *)
(* one, since two that act at once can undo each other's checks.           *)
(***************************************************************************)
EXTENDS ReviewService, TLAPS

WorkerPcs == {"off", "load", "stream", "bind", "check_stop", "finish_step", "bind_result", "ended",
              "failing", "record_failure", "bind_failure", "raised", "left", "left_by_error"}
ClientPcs == {"idle", "launch", "check_status", "check_current", "get", "resume", "invoking",
              "record", "bind", "release", "flag", "mark"}
ClientOps == {"none", "start", "start_background", "resume", "resume_background", "cancel",
              "cancel_run"}

\* A position that asks leaves a round to judge the answers in.
AskingLeavesARound(position) ==
    position.at \in {"recording", "interrupt"} => position.round < LastRound

RowsAreTyped ==
    /\ row \in [status : {"none", "running", "awaiting_answers", "completed", "failed", "cancelled"},
               current : Snapshots \cup {None}]
    /\ aliases \in SUBSET Snapshots
    /\ filed \in SUBSET Snapshots

CheckpointIsTyped ==
    /\ checkpoint \in Positions \cup {NoCheckpoint}
    /\ AskingLeavesARound(checkpoint)

FlagsAreTyped ==
    /\ stopFlag \in BOOLEAN /\ rushed \in BOOLEAN
    /\ memory \in {"none", "running", "finished", "cancelled", "failed"}
    /\ taken \in [Rounds -> Nat]

WorkerStates ==
    [pc : WorkerPcs, position : Positions \cup {NoCheckpoint}, answers : 0..LastRound, stop : BOOLEAN,
     review : Snapshots \cup {None}]

\* What a worker carries to where it binds is a snapshot it filed.
WorkerIsTyped(v) ==
    /\ v \in WorkerStates
    /\ AskingLeavesARound(v.position)
    /\ v.pc \in {"bind", "check_stop", "finish_step", "bind_result"} => v.review \in Snapshots

WorkersAreTyped ==
    /\ DOMAIN worker = Workers /\ worker = [w \in Workers |-> worker[w]]
    /\ \A w \in Workers : WorkerIsTyped(worker[w])

ClientStates == [op : ClientOps, pc : ClientPcs, review : Snapshots \cup {None}, stop : BOOLEAN]

\* Whoever gets to stop a review does it from a page of a waiting one.
ClientIsTyped(v) ==
    /\ v \in ClientStates
    /\ v.pc \in {"record", "bind", "release"} \/ (v.pc = "check_current" /\ v.op = "cancel")
          => v.review.status = "awaiting_answers"

ClientsAreTyped ==
    /\ DOMAIN client = Clients /\ client = [c \in Clients |-> client[c]]
    /\ \A c \in Clients : ClientIsTyped(client[c])

TypeInv == RowsAreTyped /\ CheckpointIsTyped /\ FlagsAreTyped /\ WorkersAreTyped /\ ClientsAreTyped

LEMMA SnapshotKinds ==
    /\ Failed \in Snapshots
    /\ \A r \in Rounds : Waiting(r) \in Snapshots /\ Completed(r) \in Snapshots
                            /\ Cancelled(r) \in Snapshots
    /\ \A s \in Snapshots : /\ s.status \in {"awaiting_answers", "completed", "cancelled", "failed"}
                            /\ s.round \in 0..LastRound
                            /\ s.status = "awaiting_answers" => s.round \in Rounds /\ s = Waiting(s.round)
    /\ None.status = "none" /\ None.round = 0 /\ None \notin Snapshots
<1>1. Rounds \subseteq 0..LastRound /\ 0 \in 0..LastRound
  BY ConstantsAssumption DEF Rounds
<1>2. \A s \in Snapshots : s = Failed \/ \E r \in Rounds : s \in {Waiting(r), Completed(r), Cancelled(r)}
  BY DEF Snapshots
<1>3. /\ Failed.status = "failed" /\ Failed.round = 0
      /\ \A r \in Rounds : /\ Waiting(r).status = "awaiting_answers" /\ Waiting(r).round = r
                           /\ Completed(r).status = "completed" /\ Completed(r).round = r
                           /\ Cancelled(r).status = "cancelled" /\ Cancelled(r).round = r
  BY DEF Waiting, Completed, Cancelled, Failed
<1>4. None.status = "none" /\ None.round = 0
  BY DEF None
<1>5. \A s \in Snapshots : /\ s.status \in {"awaiting_answers", "completed", "cancelled", "failed"}
                           /\ s.round \in 0..LastRound
                           /\ s.status = "awaiting_answers" => s.round \in Rounds /\ s = Waiting(s.round)
  BY <1>1, <1>2, <1>3
<1>6. /\ Failed \in Snapshots
      /\ \A r \in Rounds : Waiting(r) \in Snapshots /\ Completed(r) \in Snapshots
                           /\ Cancelled(r) \in Snapshots
  BY DEF Snapshots
<1> QED
  BY <1>4, <1>5, <1>6

LEMMA TypeInvIsEnough == TypeInv => TypeOK
BY DEF TypeInv, TypeOK, RowsAreTyped, CheckpointIsTyped, FlagsAreTyped, WorkersAreTyped, WorkerIsTyped,
       WorkerStates, ClientsAreTyped, ClientIsTyped, ClientStates

LEMMA IdleIsTyped == WorkerIsTyped(IdleWorker) /\ ClientIsTyped(IdleClient) /\ AskingLeavesARound(NoCheckpoint)
BY ConstantsAssumption DEF WorkerIsTyped, WorkerStates, WorkerPcs, IdleWorker, ClientIsTyped, ClientStates,
       ClientPcs, ClientOps, IdleClient, AskingLeavesARound, NoCheckpoint

LEMMA InitTyped == Init => TypeInv
<1> SUFFICES ASSUME Init PROVE TypeInv
  OBVIOUS
<1>1. RowsAreTyped /\ CheckpointIsTyped
  BY IdleIsTyped DEF Init, RowsAreTyped, CheckpointIsTyped
<1>2. FlagsAreTyped
  BY DEF Init, FlagsAreTyped
<1>3. WorkersAreTyped /\ ClientsAreTyped
  BY IdleIsTyped DEF Init, WorkersAreTyped, ClientsAreTyped
<1> QED
  BY <1>1, <1>2, <1>3 DEF TypeInv

\* One worker changes, and to a state it may be in.
LEMMA WorkerMoves ==
    ASSUME WorkersAreTyped, NEW w \in Workers, NEW v, WorkerIsTyped(v), worker' = [worker EXCEPT ![w] = v]
    PROVE  WorkersAreTyped'
BY DEF WorkersAreTyped

LEMMA ClientMoves ==
    ASSUME ClientsAreTyped, NEW c \in Clients, NEW v, ClientIsTyped(v), client' = [client EXCEPT ![c] = v]
    PROVE  ClientsAreTyped'
BY DEF ClientsAreTyped

LEMMA Replies ==
    ASSUME ClientsAreTyped, NEW c \in Clients, Reply(c)
    PROVE  ClientsAreTyped'
BY ClientMoves, IdleIsTyped DEF Reply

\* A request goes on, and not to where it would stop a review.
LEMMA Proceeds ==
    ASSUME ClientsAreTyped, NEW c \in Clients, NEW pc \in ClientPcs, Proceed(c, pc),
           \/ pc \notin {"record", "bind", "release", "check_current"}
           \/ client[c].review.status = "awaiting_answers"
           \/ pc = "check_current" /\ client[c].op # "cancel"
    PROVE  ClientsAreTyped'
<1> DEFINE v == [client[c] EXCEPT !.pc = pc]
<1>1. ClientIsTyped(client[c])
  BY DEF ClientsAreTyped
<1>2. v \in ClientStates /\ v.review = client[c].review /\ v.op = client[c].op /\ v.pc = pc
  BY <1>1 DEF ClientIsTyped, ClientStates
<1>3. ClientIsTyped(v)
  BY <1>2 DEF ClientIsTyped
<1> QED
  BY <1>3, ClientMoves DEF Proceed

\* A worker goes on from where it is.
LEMMA WorkerGoesOn ==
    ASSUME WorkersAreTyped, NEW w \in Workers, NEW pc \in WorkerPcs, At(w, pc),
           \/ pc \notin {"bind", "check_stop", "finish_step", "bind_result"}
           \/ worker[w].review \in Snapshots
    PROVE  WorkersAreTyped'
<1> DEFINE v == [worker[w] EXCEPT !.pc = pc]
<1>1. WorkerIsTyped(worker[w])
  BY DEF WorkersAreTyped
<1>2. v \in WorkerStates /\ v.review = worker[w].review /\ v.position = worker[w].position /\ v.pc = pc
  BY <1>1 DEF WorkerIsTyped, WorkerStates
<1>3. WorkerIsTyped(v)
  BY <1>1, <1>2 DEF WorkerIsTyped
<1> QED
  BY <1>3, WorkerMoves DEF At

LEMMA WorkerAdvances ==
    ASSUME WorkersAreTyped, NEW w \in Workers, NEW position \in Positions \cup {NoCheckpoint},
           AskingLeavesARound(position), Advance(w, position, "stream")
    PROVE  WorkersAreTyped'
<1> DEFINE v == [worker[w] EXCEPT !.position = position, !.pc = "stream"]
<1>1. WorkerIsTyped(worker[w])
  BY DEF WorkersAreTyped
<1>2. v \in WorkerStates /\ v.position = position /\ v.pc = "stream"
  BY <1>1 DEF WorkerIsTyped, WorkerStates, WorkerPcs
<1>3. WorkerIsTyped(v)
  BY <1>2 DEF WorkerIsTyped
<1>4. worker' = [worker EXCEPT ![w] = v]
  BY DEF Advance, WorkersAreTyped
<1> QED
  BY <1>3, <1>4, WorkerMoves

\* A launched worker has a round's answers to record, or none.
LEMMA WorkerIsLaunched ==
    ASSUME WorkersAreTyped, ClientsAreTyped, NEW w \in Workers, NEW c \in Clients,
           worker' = [worker EXCEPT ![w] = [IdleWorker EXCEPT !.pc = "load",
                               !.answers = client[c].review.round, !.stop = client[c].stop]]
    PROVE  WorkersAreTyped'
<1> DEFINE v == [IdleWorker EXCEPT !.pc = "load", !.answers = client[c].review.round, !.stop = client[c].stop]
<1>1. client[c].review \in Snapshots \cup {None} /\ client[c].stop \in BOOLEAN
  BY DEF ClientsAreTyped, ClientIsTyped, ClientStates
<1>2. client[c].review.round \in 0..LastRound
  BY <1>1, SnapshotKinds, ConstantsAssumption
<1>3. WorkerIsTyped(v)
  BY <1>1, <1>2, IdleIsTyped DEF WorkerIsTyped, WorkerStates, WorkerPcs, IdleWorker
<1> QED
  BY <1>3, WorkerMoves

LEMMA Binds ==
    ASSUME RowsAreTyped, NEW review \in Snapshots, Bind(review), filed' = filed
    PROVE  RowsAreTyped'
BY SnapshotKinds DEF Bind, RowsAreTyped

LEMMA RequestsKeepTypes ==
    ASSUME TypeInv, NEW c \in Clients, NewRequest(c) \/ RequestStep(c)
    PROVE  TypeInv'
<1> USE DEF TypeInv
<1>1. ClientIsTyped(client[c]) /\ client[c] \in ClientStates
  BY DEF ClientsAreTyped, ClientIsTyped
<1>2. ASSUME NEW op \in {"start", "start_background"}, Start(c, op)
      PROVE  TypeInv'
  <2> DEFINE v == [IdleClient EXCEPT !.op = op, !.pc = "launch"]
  <2>1. ClientIsTyped(v)
    BY IdleIsTyped DEF ClientIsTyped, ClientStates, ClientPcs, ClientOps, IdleClient
  <2>2. ClientsAreTyped'
    BY <1>2, <2>1, ClientMoves DEF Start
  <2>3. RowsAreTyped'
    BY <1>2 DEF Start, RowsAreTyped
  <2>4. CheckpointIsTyped' /\ FlagsAreTyped' /\ WorkersAreTyped'
    BY <1>2 DEF Start, CheckpointIsTyped, FlagsAreTyped, WorkersAreTyped, boundVars
  <2> QED
    BY <2>2, <2>3, <2>4
<1>3. ASSUME NEW request \in ClientStates, request.pc \in {"check_status", "flag"}, Request(c, request)
      PROVE  TypeInv'
  <2>1. ClientIsTyped(request)
    BY <1>3 DEF ClientIsTyped
  <2>2. ClientsAreTyped'
    BY <1>3, <2>1, ClientMoves DEF Request
  <2>3. FlagsAreTyped'
    BY <1>3 DEF Request, FlagsAreTyped, Alive
  <2>4. RowsAreTyped' /\ CheckpointIsTyped' /\ WorkersAreTyped'
    BY <1>3 DEF Request, RowsAreTyped, CheckpointIsTyped, WorkersAreTyped, dbVars
  <2> QED
    BY <2>2, <2>3, <2>4
<1>4. ASSUME NEW op \in {"resume", "resume_background"}, NEW stop \in BOOLEAN, NEW review \in filed,
             RequestAnswer(c, op, review, stop)
      PROVE  TypeInv'
  <2>1. [op |-> op, pc |-> "check_status", review |-> review, stop |-> stop] \in ClientStates
    BY DEF RowsAreTyped, ClientStates, ClientOps, ClientPcs
  <2> QED
    BY <1>3, <1>4, <2>1 DEF RequestAnswer
<1>5. ASSUME NEW review \in filed, RequestCancel(c, review)
      PROVE  TypeInv'
  <2>1. [op |-> "cancel", pc |-> "check_status", review |-> review, stop |-> FALSE] \in ClientStates
    BY DEF RowsAreTyped, ClientStates, ClientOps, ClientPcs
  <2> QED
    BY <1>3, <1>5, <2>1 DEF RequestCancel
<1>6. ASSUME RequestCancelRun(c)
      PROVE  TypeInv'
  <2>1. [IdleClient EXCEPT !.op = "cancel_run", !.pc = "flag"] \in ClientStates
    BY DEF ClientStates, ClientOps, ClientPcs, IdleClient
  <2>2. [IdleClient EXCEPT !.op = "cancel_run", !.pc = "flag"].pc = "flag"
    BY DEF IdleClient
  <2> QED
    BY <1>3, <1>6, <2>1, <2>2 DEF RequestCancelRun
<1>7. ASSUME NEW review \in filed, Delete(c, review)
      PROVE  TypeInv'
  BY <1>7 DEF Delete, RowsAreTyped, CheckpointIsTyped, FlagsAreTyped, WorkersAreTyped, ClientsAreTyped
<1>8. ASSUME CheckStatus(c)
      PROVE  TypeInv'
  <2>1. ClientsAreTyped'
    BY <1>8, Proceeds, Replies DEF CheckStatus, ClientPcs
  <2>2. RowsAreTyped' /\ CheckpointIsTyped' /\ FlagsAreTyped' /\ WorkersAreTyped'
    BY <1>8 DEF CheckStatus, dbVars, boundVars, RowsAreTyped, CheckpointIsTyped, FlagsAreTyped, WorkersAreTyped
  <2> QED
    BY <2>1, <2>2
<1>9. ASSUME CheckCurrent(c)
      PROVE  TypeInv'
  <2>1. ClientsAreTyped'
    BY <1>9, <1>1, Proceeds, Replies DEF CheckCurrent, ClientPcs, ClientIsTyped
  <2>2. RowsAreTyped' /\ CheckpointIsTyped' /\ FlagsAreTyped' /\ WorkersAreTyped'
    BY <1>9 DEF CheckCurrent, dbVars, boundVars, RowsAreTyped, CheckpointIsTyped, FlagsAreTyped, WorkersAreTyped
  <2> QED
    BY <2>1, <2>2
<1>10. ASSUME GetReview(c)
      PROVE  TypeInv'
  <2>1. ClientsAreTyped'
    BY <1>10, Proceeds, Replies DEF GetReview, ClientPcs
  <2>2. RowsAreTyped' /\ CheckpointIsTyped' /\ FlagsAreTyped' /\ WorkersAreTyped'
    BY <1>10 DEF GetReview, dbVars, boundVars, RowsAreTyped, CheckpointIsTyped, FlagsAreTyped, WorkersAreTyped
  <2> QED
    BY <2>1, <2>2
<1>11. ASSUME Resume(c)
      PROVE  TypeInv'
  <2>1. ClientsAreTyped'
    BY <1>11, Proceeds DEF Resume, ClientPcs
  <2>2. RowsAreTyped'
    BY <1>11 DEF Resume, Mark, RowsAreTyped
  <2>3. CheckpointIsTyped' /\ FlagsAreTyped' /\ WorkersAreTyped'
    BY <1>11 DEF Resume, boundVars, CheckpointIsTyped, FlagsAreTyped, WorkersAreTyped
  <2> QED
    BY <2>1, <2>2, <2>3
<1>12. ASSUME LaunchThread(c)
      PROVE  TypeInv'
  <2>1. ClientsAreTyped'
    BY <1>12, Replies DEF LaunchThread
  <2>2. WorkersAreTyped'
    <3>1. CASE Alive("thread")
      BY <1>12, <3>1 DEF LaunchThread, WorkersAreTyped
    <3>2. CASE ~Alive("thread")
      BY <1>12, <3>2, WorkerIsLaunched DEF LaunchThread, Workers
    <3> QED
      BY <3>1, <3>2
  <2>3. RowsAreTyped' /\ CheckpointIsTyped' /\ FlagsAreTyped'
    BY <1>12 DEF LaunchThread, dbVars, boundVars, RowsAreTyped, CheckpointIsTyped, FlagsAreTyped
  <2> QED
    BY <2>1, <2>2, <2>3
<1>13. ASSUME LaunchInline(c)
      PROVE  TypeInv'
  <2>1. ClientsAreTyped'
    BY <1>13, Proceeds DEF LaunchInline, ClientPcs
  <2>2. WorkersAreTyped'
    BY <1>13, WorkerIsLaunched DEF LaunchInline, Workers
  <2>3. RowsAreTyped' /\ CheckpointIsTyped' /\ FlagsAreTyped'
    BY <1>13 DEF LaunchInline, dbVars, boundVars, RowsAreTyped, CheckpointIsTyped, FlagsAreTyped
  <2> QED
    BY <2>1, <2>2, <2>3
<1>14. ASSUME CancelRecord(c)
      PROVE  TypeInv'
  <2>1. client[c].review \in Snapshots /\ client[c].review.round \in Rounds
    BY <1>14, <1>1, SnapshotKinds DEF CancelRecord, ClientIsTyped, ClientStates
  <2>2. ClientsAreTyped'
    BY <1>14, <1>1, Proceeds DEF CancelRecord, ClientPcs, ClientIsTyped
  <2>3. RowsAreTyped'
    BY <1>14, <2>1, SnapshotKinds DEF CancelRecord, RowsAreTyped
  <2>4. CheckpointIsTyped' /\ FlagsAreTyped' /\ WorkersAreTyped'
    BY <1>14 DEF CancelRecord, boundVars, CheckpointIsTyped, FlagsAreTyped, WorkersAreTyped
  <2> QED
    BY <2>2, <2>3, <2>4
<1>15. ASSUME CancelBind(c)
      PROVE  TypeInv'
  <2>1. client[c].review \in Snapshots /\ client[c].review.round \in Rounds
    BY <1>15, <1>1, SnapshotKinds DEF CancelBind, ClientIsTyped, ClientStates
  <2>2. ClientsAreTyped'
    BY <1>15, <1>1, Proceeds DEF CancelBind, ClientPcs, ClientIsTyped
  <2>3. RowsAreTyped'
    BY <1>15, <2>1, SnapshotKinds, Binds DEF CancelBind
  <2>4. CheckpointIsTyped' /\ FlagsAreTyped' /\ WorkersAreTyped'
    BY <1>15 DEF CancelBind, boundVars, CheckpointIsTyped, FlagsAreTyped, WorkersAreTyped
  <2> QED
    BY <2>2, <2>3, <2>4
<1>16. ASSUME CancelRelease(c)
      PROVE  TypeInv'
  <2>1. ClientsAreTyped'
    BY <1>16, Replies DEF CancelRelease
  <2>2. CheckpointIsTyped'
    BY <1>16, IdleIsTyped DEF CancelRelease, Released, CheckpointIsTyped
  <2>3. RowsAreTyped' /\ FlagsAreTyped' /\ WorkersAreTyped'
    BY <1>16 DEF CancelRelease, dbVars, boundVars, RowsAreTyped, FlagsAreTyped, WorkersAreTyped
  <2> QED
    BY <2>1, <2>2, <2>3
<1>17. ASSUME CancelRunFlag(c)
      PROVE  TypeInv'
  <2>1. ClientsAreTyped'
    BY <1>17, Proceeds DEF CancelRunFlag, ClientPcs
  <2>2. RowsAreTyped' /\ CheckpointIsTyped' /\ FlagsAreTyped' /\ WorkersAreTyped'
    BY <1>17 DEF CancelRunFlag, dbVars, boundVars, RowsAreTyped, CheckpointIsTyped, FlagsAreTyped, WorkersAreTyped
  <2> QED
    BY <2>1, <2>2
<1>18. ASSUME CancelRunMark(c)
      PROVE  TypeInv'
  <2>1. ClientsAreTyped'
    BY <1>18, Replies DEF CancelRunMark
  <2>2. RowsAreTyped'
    BY <1>18 DEF CancelRunMark, Mark, RowsAreTyped
  <2>3. CheckpointIsTyped' /\ FlagsAreTyped' /\ WorkersAreTyped'
    BY <1>18 DEF CancelRunMark, boundVars, CheckpointIsTyped, FlagsAreTyped, WorkersAreTyped
  <2> QED
    BY <2>1, <2>2, <2>3
<1> QED
  BY <1>2, <1>3, <1>4, <1>5, <1>6, <1>7, <1>8, <1>9, <1>10, <1>11, <1>12, <1>13, <1>14, <1>15, <1>16, <1>17, <1>18 DEF NewRequest, RequestStep

LEMMA WorkersKeepTypes ==
    ASSUME TypeInv, NEW w \in Workers, WorkerStep(w)
    PROVE  TypeInv'
<1> USE DEF TypeInv
<1>1. WorkerIsTyped(worker[w]) /\ worker[w] \in WorkerStates
  BY DEF WorkersAreTyped, WorkerIsTyped
<1>2. ASSUME Load(w)
      PROVE  TypeInv'
  <2>1. CheckpointIsTyped'
    <3>1. [round |-> 1, at |-> "judging"] \in Positions /\ AskingLeavesARound([round |-> 1, at |-> "judging"])
      BY ConstantsAssumption DEF Positions, Rounds, AskingLeavesARound
    <3> QED
      BY <1>2, <3>1 DEF Load, CheckpointIsTyped
  <2>2. WorkersAreTyped'
    <3>1. CASE worker[w].answers = 0
      BY <1>2, <3>1, <2>1, WorkerAdvances DEF Load, CheckpointIsTyped
    <3>2. CASE worker[w].answers # 0 /\ checkpoint = NoCheckpoint
      BY <1>2, <3>2, WorkerGoesOn DEF Load, WorkerPcs
    <3>3. CASE worker[w].answers # 0 /\ checkpoint # NoCheckpoint
      BY <1>2, <3>3, WorkerAdvances DEF Load, CheckpointIsTyped
    <3> QED
      BY <3>1, <3>2, <3>3
  <2>3. RowsAreTyped' /\ FlagsAreTyped' /\ ClientsAreTyped'
    BY <1>2 DEF Load, dbVars, boundVars, RowsAreTyped, FlagsAreTyped, ClientsAreTyped
  <2> QED
    BY <2>1, <2>2, <2>3
<1>3. ASSUME TakeAnswers(w)
      PROVE  TypeInv'
  <2>1. WorkersAreTyped' /\ CheckpointIsTyped' /\ FlagsAreTyped'
    <3> DEFINE r == worker[w].position.round
               next == [round |-> r + 1, at |-> IF worker[w].stop THEN "sealing" ELSE "judging"]
    <3>1. r \in Rounds /\ r < LastRound
      BY <1>3, <1>1 DEF TakeAnswers, WorkerIsTyped, WorkerStates, Positions, NoCheckpoint, AskingLeavesARound
    <3>2. next \in Positions /\ AskingLeavesARound(next)
      BY <3>1, ConstantsAssumption DEF Positions, Rounds, AskingLeavesARound
    <3>3. CASE r # worker[w].answers
      BY <1>3, <3>3, WorkerGoesOn DEF TakeAnswers, WorkerPcs, CheckpointIsTyped, FlagsAreTyped, boundVars
    <3>4. CASE r = worker[w].answers /\ Stops(w)
      <4>1. At(w, "ended") /\ checkpoint' = checkpoint /\ taken' = [taken EXCEPT ![r] = taken[r] + 1]
        BY <1>3, <3>4 DEF TakeAnswers
      <4> QED
        BY <1>3, <3>1, <4>1, WorkerGoesOn DEF TakeAnswers, WorkerPcs, CheckpointIsTyped, FlagsAreTyped, boundVars
    <3>5. CASE r = worker[w].answers /\ ~Stops(w)
      <4>1. Advance(w, next, "stream") /\ checkpoint' = next /\ taken' = [taken EXCEPT ![r] = taken[r] + 1]
        BY <1>3, <3>5 DEF TakeAnswers
      <4> HIDE DEF next
      <4> QED
        BY <1>3, <3>1, <3>2, <4>1, WorkerAdvances DEF TakeAnswers, CheckpointIsTyped, FlagsAreTyped, boundVars
    <3> QED
      BY <3>3, <3>4, <3>5
  <2>2. RowsAreTyped' /\ ClientsAreTyped'
    BY <1>3 DEF TakeAnswers, dbVars, boundVars, RowsAreTyped, ClientsAreTyped
  <2> QED
    BY <2>1, <2>2
<1>4. ASSUME Judge(w)
      PROVE  TypeInv'
  <2>1. WorkersAreTyped' /\ CheckpointIsTyped'
    <3> DEFINE p(next) == [worker[w].position EXCEPT !.at = next]
    <3>1. worker[w].position \in Positions
      BY <1>4, <1>1 DEF Judge, WorkerStates, NoCheckpoint
    <3>2. PICK next \in {"recording", "sealing"} :
              /\ next = "recording" => MayAsk(worker[w].position.round)
              /\ IF Stops(w) THEN At(w, "ended") /\ UNCHANGED checkpoint
                             ELSE Advance(w, p(next), "stream") /\ checkpoint' = p(next)
      BY <1>4 DEF Judge
    <3>3. p(next) \in Positions /\ AskingLeavesARound(p(next))
      BY <3>1, <3>2 DEF Positions, AskingLeavesARound, MayAsk
    <3> HIDE DEF p
    <3>4. CASE Stops(w)
      BY <3>2, <3>4, WorkerGoesOn DEF WorkerPcs, CheckpointIsTyped
    <3>5. CASE ~Stops(w)
      BY <3>2, <3>3, <3>5, WorkerAdvances DEF CheckpointIsTyped
    <3> QED
      BY <3>4, <3>5
  <2>2. RowsAreTyped' /\ FlagsAreTyped' /\ ClientsAreTyped'
    BY <1>4 DEF Judge, dbVars, boundVars, RowsAreTyped, FlagsAreTyped, ClientsAreTyped
  <2> QED
    BY <2>1, <2>2
<1>5. ASSUME Raise(w)
      PROVE  TypeInv'
  <2>1. WorkersAreTyped'
    BY <1>5, WorkerGoesOn DEF Raise, WorkerPcs
  <2>2. RowsAreTyped' /\ CheckpointIsTyped' /\ FlagsAreTyped' /\ ClientsAreTyped'
    BY <1>5 DEF Raise, dbVars, boundVars, RowsAreTyped, CheckpointIsTyped, FlagsAreTyped, ClientsAreTyped
  <2> QED
    BY <2>1, <2>2
<1>6. ASSUME RecordReview(w)
      PROVE  TypeInv'
  <2>1. RowsAreTyped' /\ WorkersAreTyped'
    <3> DEFINE review == Composed(worker[w].position)
               pc == IF w = "thread" THEN "bind" ELSE "finish_step"
               v == [worker[w] EXCEPT !.review = review, !.pc = pc]
    <3>1. worker[w].position \in Positions
      BY <1>6, <1>1 DEF RecordReview, WorkerStates, NoCheckpoint
    <3>2. review \in Snapshots
      BY <3>1, SnapshotKinds DEF Composed, Positions
    <3>3. filed' = filed \cup {review} /\ worker' = [worker EXCEPT ![w].review = review, ![w].pc = pc]
          /\ UNCHANGED <<row, aliases>>
      BY <1>6 DEF RecordReview
    <3> HIDE DEF review
    <3>4. WorkerIsTyped(v)
      BY <1>1, <3>2 DEF WorkerIsTyped, WorkerStates, WorkerPcs
    <3>5. worker' = [worker EXCEPT ![w] = v]
      BY <3>3 DEF WorkersAreTyped
    <3>6. WorkersAreTyped'
      BY <3>4, <3>5, WorkerMoves
    <3>7. RowsAreTyped'
      BY <3>2, <3>3 DEF RowsAreTyped
    <3> QED
      BY <3>6, <3>7
  <2>2. CheckpointIsTyped' /\ FlagsAreTyped' /\ ClientsAreTyped'
    BY <1>6 DEF RecordReview, dbVars, boundVars, CheckpointIsTyped, FlagsAreTyped, ClientsAreTyped
  <2> QED
    BY <2>1, <2>2
<1>7. ASSUME BindUpdate(w)
      PROVE  TypeInv'
  <2>1. RowsAreTyped' /\ WorkersAreTyped'
    <3>1. worker[w].review \in Snapshots
      BY <1>7, <1>1 DEF BindUpdate, WorkerIsTyped
    <3> QED
      BY <1>7, <3>1, WorkerGoesOn, Binds DEF BindUpdate, WorkerPcs
  <2>2. CheckpointIsTyped' /\ FlagsAreTyped' /\ ClientsAreTyped'
    BY <1>7 DEF BindUpdate, dbVars, boundVars, CheckpointIsTyped, FlagsAreTyped, ClientsAreTyped
  <2> QED
    BY <2>1, <2>2
<1>8. ASSUME CheckStop(w)
      PROVE  TypeInv'
  <2>1. WorkersAreTyped'
    <3>1. worker[w].review \in Snapshots
      BY <1>8, <1>1 DEF CheckStop, WorkerIsTyped
    <3> QED
      BY <1>8, <3>1, WorkerGoesOn DEF CheckStop, WorkerPcs
  <2>2. RowsAreTyped' /\ CheckpointIsTyped' /\ FlagsAreTyped' /\ ClientsAreTyped'
    BY <1>8 DEF CheckStop, dbVars, boundVars, RowsAreTyped, CheckpointIsTyped, FlagsAreTyped, ClientsAreTyped
  <2> QED
    BY <2>1, <2>2
<1>9. ASSUME FinishStep(w)
      PROVE  TypeInv'
  <2>1. CheckpointIsTyped' /\ WorkersAreTyped'
    <3>1. worker[w].review \in Snapshots
      BY <1>9, <1>1 DEF FinishStep, WorkerIsTyped
    <3>2. WorkersAreTyped'
      BY <1>9, <3>1, WorkerGoesOn DEF FinishStep, WorkerPcs
    <3>3. worker[w].position \in Positions \cup {NoCheckpoint} /\ AskingLeavesARound(worker[w].position)
      BY <1>1 DEF WorkerIsTyped, WorkerStates
    <3>4. CASE worker[w].position.at = "recording"
      <4>1. worker[w].position \in Positions
        BY <3>3, <3>4 DEF NoCheckpoint
      <4> QED
        BY <1>9, <3>2, <3>3, <3>4, <4>1 DEF FinishStep, CheckpointIsTyped, AskingLeavesARound, Positions
    <3>5. CASE worker[w].position.at # "recording"
      BY <1>9, <3>2, <3>3, <3>5 DEF FinishStep, CheckpointIsTyped
    <3> QED
      BY <3>4, <3>5
  <2>2. RowsAreTyped' /\ FlagsAreTyped' /\ ClientsAreTyped'
    BY <1>9 DEF FinishStep, dbVars, boundVars, RowsAreTyped, FlagsAreTyped, ClientsAreTyped
  <2> QED
    BY <2>1, <2>2
<1>10. ASSUME BindResult(w)
      PROVE  TypeInv'
  <2>1. RowsAreTyped' /\ WorkersAreTyped'
    <3>1. worker[w].review \in Snapshots
      BY <1>10, <1>1 DEF BindResult, WorkerIsTyped
    <3> QED
      BY <1>10, <3>1, WorkerGoesOn, Binds DEF BindResult, WorkerPcs
  <2>2. CheckpointIsTyped' /\ FlagsAreTyped' /\ ClientsAreTyped'
    BY <1>10 DEF BindResult, dbVars, boundVars, CheckpointIsTyped, FlagsAreTyped, ClientsAreTyped
  <2> QED
    BY <2>1, <2>2
<1>11. ASSUME MarkFailed(w)
      PROVE  TypeInv'
  <2>1. RowsAreTyped' /\ WorkersAreTyped'
    <3>1. RowsAreTyped'
      BY <1>11 DEF MarkFailed, Mark, RowsAreTyped
    <3>2. WorkersAreTyped'
      BY <1>11, WorkerGoesOn DEF MarkFailed, WorkerPcs
    <3> QED
      BY <3>1, <3>2
  <2>2. CheckpointIsTyped' /\ FlagsAreTyped' /\ ClientsAreTyped'
    BY <1>11 DEF MarkFailed, dbVars, boundVars, CheckpointIsTyped, FlagsAreTyped, ClientsAreTyped
  <2> QED
    BY <2>1, <2>2
<1>12. ASSUME RecordFailure(w)
      PROVE  TypeInv'
  <2>1. RowsAreTyped' /\ WorkersAreTyped'
    <3>1. RowsAreTyped'
      BY <1>12, SnapshotKinds DEF RecordFailure, RowsAreTyped
    <3>2. WorkersAreTyped'
      BY <1>12, WorkerGoesOn DEF RecordFailure, WorkerPcs
    <3> QED
      BY <3>1, <3>2
  <2>2. CheckpointIsTyped' /\ FlagsAreTyped' /\ ClientsAreTyped'
    BY <1>12 DEF RecordFailure, dbVars, boundVars, CheckpointIsTyped, FlagsAreTyped, ClientsAreTyped
  <2> QED
    BY <2>1, <2>2
<1>13. ASSUME BindFailure(w)
      PROVE  TypeInv'
  <2>1. RowsAreTyped' /\ WorkersAreTyped'
    BY <1>13, SnapshotKinds, WorkerGoesOn, Binds DEF BindFailure, WorkerPcs
  <2>2. CheckpointIsTyped' /\ FlagsAreTyped' /\ ClientsAreTyped'
    BY <1>13 DEF BindFailure, dbVars, boundVars, CheckpointIsTyped, FlagsAreTyped, ClientsAreTyped
  <2> QED
    BY <2>1, <2>2
<1>14. ASSUME Release(w)
      PROVE  TypeInv'
  <2>1. CheckpointIsTyped' /\ WorkersAreTyped'
    <3>1. CheckpointIsTyped'
      BY <1>14, IdleIsTyped DEF Release, Released, CheckpointIsTyped
    <3>2. WorkersAreTyped'
      BY <1>14, WorkerGoesOn DEF Release, WorkerPcs
    <3> QED
      BY <3>1, <3>2
  <2>2. RowsAreTyped' /\ FlagsAreTyped' /\ ClientsAreTyped'
    BY <1>14 DEF Release, dbVars, boundVars, RowsAreTyped, FlagsAreTyped, ClientsAreTyped
  <2> QED
    BY <2>1, <2>2
<1>15. ASSUME Leave(w)
      PROVE  TypeInv'
  <2>1. WorkersAreTyped' /\ ClientsAreTyped' /\ FlagsAreTyped'
    <3>1. WorkersAreTyped'
      BY <1>15, IdleIsTyped, WorkerMoves DEF Leave
    <3>2. ClientsAreTyped'
      <4>1. CASE w = "thread"
        BY <1>15, <4>1 DEF Leave, ClientsAreTyped
      <4>2. CASE w # "thread"
        BY <1>15, <4>2, Replies DEF Leave, Workers
      <4> QED
        BY <4>1, <4>2
    <3>3. FlagsAreTyped'
      BY <1>15 DEF Leave, FlagsAreTyped, boundVars
    <3> QED
      BY <3>1, <3>2, <3>3
  <2>2. RowsAreTyped' /\ CheckpointIsTyped'
    BY <1>15 DEF Leave, dbVars, boundVars, RowsAreTyped, CheckpointIsTyped
  <2> QED
    BY <2>1, <2>2
<1> QED
  BY <1>2, <1>3, <1>4, <1>5, <1>6, <1>7, <1>8, <1>9, <1>10, <1>11, <1>12, <1>13, <1>14, <1>15 DEF WorkerStep

LEMMA StepsKeepTypes == TypeInv /\ [Next]_vars => TypeInv'
<1> SUFFICES ASSUME TypeInv, [Next]_vars
             PROVE  TypeInv'
  OBVIOUS
<1>1. CASE Restart
  <2>1. RowsAreTyped'
    BY <1>1 DEF TypeInv, Restart, Reconciled, Running, RowsAreTyped
  <2>2. CheckpointIsTyped'
    BY <1>1, IdleIsTyped DEF TypeInv, Restart, CheckpointIsTyped
  <2>3. FlagsAreTyped'
    BY <1>1 DEF TypeInv, Restart, FlagsAreTyped
  <2>4. WorkersAreTyped' /\ ClientsAreTyped'
    BY <1>1, IdleIsTyped DEF Restart, WorkersAreTyped, ClientsAreTyped
  <2> QED
    BY <2>1, <2>2, <2>3, <2>4 DEF TypeInv
<1>2. CASE UNCHANGED vars
  BY <1>2 DEF vars, TypeInv, RowsAreTyped, CheckpointIsTyped, FlagsAreTyped, WorkersAreTyped, ClientsAreTyped
<1> QED
  BY <1>1, <1>2, RequestsKeepTypes, WorkersKeepTypes DEF Next

\* The state stays well typed, whatever is asked by any number of clients, and whenever the
\* process is restarted (workflow/service.py, workflow/runs.py, persistence/executions.py).
THEOREM TypeCorrect == Spec => []TypeOK
<1>1. Spec => []TypeInv
  BY InitTyped, StepsKeepTypes, PTL DEF Spec
<1> QED
  BY <1>1, TypeInvIsEnough, PTL

-----------------------------------------------------------------------------
\* The workers that have yet to let go of the checkpoints.
Unreleased == WorkerPcs \ {"off", "left", "left_by_error"}
ToBeReleased == \E w \in Workers : worker[w].pc \in Unreleased

\* A checkpoint under a review that ended is on its way out, whoever ended it.
EndingsAreReleased ==
    row.status \in {"completed", "failed"} => checkpoint = NoCheckpoint \/ ToBeReleased

LEMMA WorkersLeaveReleased ==
    ASSUME TypeInv, EndingsAreReleased, NEW w \in Workers, WorkerStep(w)
    PROVE  EndingsAreReleased'
<1> USE DEF EndingsAreReleased
<1>1. /\ worker = [v \in Workers |-> worker[v]] /\ WorkerIsTyped(worker[w])
      /\ worker[w].pc \in WorkerPcs /\ worker[w] \in WorkerStates
  BY DEF TypeInv, WorkersAreTyped, WorkerIsTyped, WorkerStates
<1>2. ASSUME NEW pc \in Unreleased, worker'[w].pc = pc
      PROVE  EndingsAreReleased'
  BY <1>2 DEF ToBeReleased
<1>3. ASSUME NEW pc \in Unreleased, At(w, pc)
      PROVE  EndingsAreReleased'
  <2>1. worker'[w].pc = pc
    BY <1>1, <1>3 DEF At, WorkerStates
  <2> QED
    BY <1>2, <2>1
<1>4. ASSUME NEW position, Advance(w, position, "stream")
      PROVE  EndingsAreReleased'
  <2>1. worker'[w].pc = "stream"
    BY <1>1, <1>4 DEF Advance, WorkerStates
  <2> QED
    BY <1>2, <2>1 DEF Unreleased, WorkerPcs
<1>5. CASE Load(w)
  BY <1>3, <1>4, <1>5 DEF Load, Unreleased, WorkerPcs
<1>6. CASE TakeAnswers(w)
  BY <1>3, <1>4, <1>6 DEF TakeAnswers, Unreleased, WorkerPcs
<1>7. CASE Judge(w)
  BY <1>3, <1>4, <1>7 DEF Judge, Unreleased, WorkerPcs
<1>8. CASE RecordReview(w)
  <2>1. worker'[w].pc = IF w = "thread" THEN "bind" ELSE "finish_step"
    BY <1>1, <1>8 DEF RecordReview, WorkerStates
  <2> QED
    BY <1>2, <2>1 DEF Unreleased, WorkerPcs
<1>9. CASE Raise(w) \/ BindUpdate(w) \/ CheckStop(w) \/ FinishStep(w) \/ BindResult(w)
           \/ MarkFailed(w) \/ RecordFailure(w) \/ BindFailure(w)
  BY <1>3, <1>9 DEF Raise, BindUpdate, CheckStop, FinishStep, BindResult, MarkFailed, RecordFailure,
     BindFailure, Unreleased, WorkerPcs
<1>10. CASE Release(w)
  BY <1>10 DEF Release, Released, dbVars
<1>11. CASE Leave(w)
  <2>1. worker[w].pc \notin Unreleased
    BY <1>11 DEF Leave, Unreleased
  <2>2. ToBeReleased => ToBeReleased'
    BY <1>1, <1>11, <2>1 DEF Leave, ToBeReleased
  <2> QED
    BY <1>11, <2>2 DEF Leave, dbVars
<1> QED
  BY <1>5, <1>6, <1>7, <1>8, <1>9, <1>10, <1>11 DEF WorkerStep

LEMMA RequestsLeaveReleased ==
    ASSUME TypeInv, EndingsAreReleased, NEW c \in Clients, NewRequest(c) \/ RequestStep(c)
    PROVE  EndingsAreReleased'
<1> USE DEF EndingsAreReleased
<1>1. row = [status |-> row.status, current |-> row.current]
  BY DEF TypeInv, RowsAreTyped
<1>2. ASSUME UNCHANGED <<row, checkpoint, worker>>
      PROVE  EndingsAreReleased'
  BY <1>2 DEF ToBeReleased
<1>3. ASSUME row'.status \notin {"completed", "failed"}
      PROVE  EndingsAreReleased'
  BY <1>3
<1>4. CASE NewRequest(c)
  <2>1. CASE \E op \in {"start", "start_background"} : Start(c, op)
    BY <1>3, <2>1 DEF Start
  <2>2. CASE ~\E op \in {"start", "start_background"} : Start(c, op)
    BY <1>2, <1>4, <2>2 DEF NewRequest, RequestAnswer, RequestCancel, RequestCancelRun, Delete, Request, dbVars
  <2> QED
    BY <2>1, <2>2
<1>5. CASE CheckStatus(c) \/ CheckCurrent(c) \/ GetReview(c) \/ CancelRecord(c) \/ CancelRunFlag(c)
  BY <1>2, <1>5 DEF CheckStatus, CheckCurrent, GetReview, CancelRecord, CancelRunFlag, dbVars
<1>6. CASE Resume(c) \/ CancelRunMark(c)
  BY <1>1, <1>3, <1>6 DEF Resume, CancelRunMark, Mark
<1>7. CASE CancelBind(c)
  BY <1>3, <1>7 DEF CancelBind, Bind, Cancelled
<1>8. CASE CancelRelease(c)
  BY <1>8 DEF CancelRelease, Released, dbVars
<1>9. ASSUME NEW w \in Workers, NEW v, v.pc = "load", worker' = [worker EXCEPT ![w] = v]
      PROVE  EndingsAreReleased'
  <2>1. worker'[w].pc = "load"
    BY <1>9 DEF TypeInv, WorkersAreTyped
  <2> QED
    BY <2>1 DEF ToBeReleased, Unreleased, WorkerPcs
<1>10. [IdleWorker EXCEPT !.pc = "load", !.answers = client[c].review.round, !.stop = client[c].stop].pc = "load"
  BY DEF IdleWorker
<1>11. CASE LaunchThread(c)
  BY <1>2, <1>9, <1>10, <1>11 DEF LaunchThread, Workers, dbVars
<1>12. CASE LaunchInline(c)
  BY <1>9, <1>10, <1>12 DEF LaunchInline, Workers
<1> QED
  BY <1>4, <1>5, <1>6, <1>7, <1>8, <1>11, <1>12 DEF RequestStep

\* A review that completed or failed keeps no checkpoint once nothing works on it, however many
\* clients started, answered, stopped or deleted it at once (service.py _release, _driver).
THEOREM EndedReviewsAreReleased == Spec => []EndedReviewsKeepNoCheckpoint
<1>1. Init => EndingsAreReleased
  BY DEF Init, EndingsAreReleased
<1>2. TypeInv /\ EndingsAreReleased /\ [Next]_vars => EndingsAreReleased'
  <2> SUFFICES ASSUME TypeInv, EndingsAreReleased, [Next]_vars
               PROVE  EndingsAreReleased'
    OBVIOUS
  <2>1. CASE Restart
    BY <2>1 DEF Restart, Reconciled, Running, EndingsAreReleased, TypeInv, RowsAreTyped
  <2>2. CASE UNCHANGED vars
    BY <2>2 DEF vars, EndingsAreReleased, ToBeReleased
  <2> QED
    BY <2>1, <2>2, WorkersLeaveReleased, RequestsLeaveReleased DEF Next
<1>3. TypeInv /\ EndingsAreReleased => EndedReviewsKeepNoCheckpoint
  BY DEF EndingsAreReleased, EndedReviewsKeepNoCheckpoint, Quiet, Alive, ToBeReleased, Unreleased
<1> QED
  BY <1>1, <1>2, <1>3, InitTyped, StepsKeepTypes, PTL DEF Spec

LEMMA OnlyItsOwnWorkerMoves ==
    ASSUME TypeInv, NEW w \in Workers, WorkerStep(w), w # "thread"
    PROVE  worker'["thread"] = worker["thread"]
<1>1. worker = [v \in Workers |-> worker[v]] /\ "thread" \in Workers
  BY DEF TypeInv, WorkersAreTyped, Workers
<1> QED
  BY <1>1 DEF WorkerStep, Load, TakeAnswers, Judge, Raise, RecordReview, BindUpdate, CheckStop, FinishStep,
     BindResult, MarkFailed, RecordFailure, BindFailure, Release, Leave, At, Advance

\* A thread that somebody asked to stop judges nothing further: what it was at is the last, and a
\* stop is not lost on a run that has left its first node (service.py _driver, runs.py cancel).
THEOREM StopsAreHeeded == Spec => StoppedThreadsGoNoFurther
<1> DEFINE P == worker'["thread"].position \in {worker["thread"].position, NoCheckpoint}
<1>1. ASSUME TypeInv, [Next]_vars, stopFlag, worker["thread"].pc # "load"
      PROVE  P
  <2>1. /\ worker = [v \in Workers |-> worker[v]] /\ "thread" \in Workers /\ worker["thread"] \in WorkerStates
        /\ "thread" \notin Clients
    BY <1>1, ConstantsAssumption DEF TypeInv, WorkersAreTyped, WorkerIsTyped, Workers
  <2>2. IdleWorker.position = NoCheckpoint
        /\ \A n \in 0..LastRound, b \in BOOLEAN :
              [IdleWorker EXCEPT !.pc = "load", !.answers = n, !.stop = b].position = NoCheckpoint
    BY DEF IdleWorker
  <2>3. ASSUME NEW pc, At("thread", pc)
        PROVE  P
    BY <2>1, <2>3 DEF At, WorkerStates
  <2>4. CASE WorkerStep("thread")
    <3>1. CASE TakeAnswers("thread") \/ Judge("thread")
      BY <1>1, <2>3, <3>1 DEF TakeAnswers, Judge, Stops
    <3>2. CASE RecordReview("thread")
      BY <2>1, <3>2 DEF RecordReview, WorkerStates
    <3>3. CASE Leave("thread")
      BY <2>1, <2>2, <3>3 DEF Leave
    <3>4. CASE Raise("thread") \/ BindUpdate("thread") \/ CheckStop("thread") \/ FinishStep("thread")
               \/ BindResult("thread") \/ MarkFailed("thread") \/ RecordFailure("thread")
               \/ BindFailure("thread") \/ Release("thread")
      BY <2>3, <3>4 DEF Raise, BindUpdate, CheckStop, FinishStep, BindResult, MarkFailed, RecordFailure,
         BindFailure, Release
    <3> QED
      BY <1>1, <2>4, <3>1, <3>2, <3>3, <3>4 DEF WorkerStep, Load
  <2>5. CASE \E w \in Workers : w # "thread" /\ WorkerStep(w)
    BY <1>1, <2>5, OnlyItsOwnWorkerMoves
  <2>6. ASSUME NEW c \in Clients, NewRequest(c) \/ RequestStep(c)
        PROVE  P
    <3>1. CASE LaunchThread(c)
      BY <2>1, <3>1 DEF LaunchThread, IdleWorker
    <3>2. CASE LaunchInline(c)
      BY <2>1, <3>2 DEF LaunchInline
    <3>3. CASE ~LaunchThread(c) /\ ~LaunchInline(c)
      BY <2>6, <3>3 DEF NewRequest, Start, RequestAnswer, RequestCancel, RequestCancelRun, Delete, Request,
         RequestStep, CheckStatus, CheckCurrent, GetReview, Resume, CancelRecord, CancelBind, CancelRelease,
         CancelRunFlag, CancelRunMark
    <3> QED
      BY <3>1, <3>2, <3>3
  <2>7. CASE Restart
    BY <2>1, <2>2, <2>7 DEF Restart
  <2>8. CASE UNCHANGED vars
    BY <2>8 DEF vars
  <2> QED
    BY <1>1, <2>4, <2>5, <2>6, <2>7, <2>8 DEF Next
<1>2. TypeInv /\ [Next]_vars
        => [stopFlag /\ worker["thread"].pc # "load" => P]_vars
  BY <1>1
<1> QED
  BY <1>2, InitTyped, StepsKeepTypes, PTL DEF Spec, StoppedThreadsGoNoFurther

(***************************************************************************)
(* Theorems of ReviewService with one client: what a stop and a wait       *)
(* promise, for any last round and any number of requests and restarts.    *)
(* The one client still races the thread, which outlives its requests.     *)
(***************************************************************************)
OneClient == \A c, d \in Clients : c = d

\* A worker that may still move the row.
Active(w) ==
    \/ worker[w].pc \in {"load", "stream", "bind", "bind_result", "failing", "record_failure", "bind_failure"}
    \/ w # "thread" /\ worker[w].pc = "finish_step"

Calm == \A w \in Workers : ~Active(w)

\* The thread binds what it files at once, a request when the graph returned.
WorkersKeepTheirWay ==
    /\ worker["thread"].pc # "bind_result"
    /\ \A w \in Workers : /\ w # "thread" => worker[w].pc \notin {"bind", "check_stop"}
                          /\ worker[w].review.status # "cancelled"

AwaitingIsCalm ==
    row.status = "awaiting_answers" =>
        Calm /\ row.current \in Snapshots /\ row.current.status = "awaiting_answers"

\* What a request checked is still so when it acts on it.
ChecksHold ==
    \A c \in Clients :
        /\ client[c].pc \in {"check_current", "get", "resume", "record", "bind"} => row.status = "awaiting_answers"
        /\ client[c].pc \in {"record", "bind"} => row.current = client[c].review
        /\ client[c].pc = "launch" => row.status = "running" /\ Calm
        /\ client[c].pc = "invoking" => ~Active("thread")
        /\ worker[c].pc # "off" => client[c].pc = "invoking"

NothingBeforeTheStart == row.status = "none" => \A w \in Workers : worker[w].pc = "off"

StoppedIsOver == row.current.status = "cancelled" => row.status = "cancelled" /\ Calm

SettledInv == WorkersKeepTheirWay /\ AwaitingIsCalm /\ ChecksHold /\ NothingBeforeTheStart /\ StoppedIsOver

LEMMA StatesOfWorkers ==
    ASSUME TypeInv
    PROVE  /\ worker = [w \in Workers |-> worker[w]] /\ client = [c \in Clients |-> client[c]]
           /\ "thread" \in Workers /\ Clients \subseteq Workers /\ "thread" \notin Clients
           /\ \A w \in Workers : WorkerIsTyped(worker[w]) /\ worker[w] \in WorkerStates
           /\ \A c \in Clients : ClientIsTyped(client[c]) /\ client[c] \in ClientStates
           /\ row = [status |-> row.status, current |-> row.current]
BY ConstantsAssumption DEF TypeInv, WorkersAreTyped, WorkerIsTyped, ClientsAreTyped, ClientIsTyped, Workers, RowsAreTyped

\* What one step of a worker may do to the row, to its client and to itself.
WorkerMay(w) ==
    /\ \A v \in Workers : v # w => worker'[v] = worker[v]
    /\ worker[w].pc # "off"
    /\ Active(w)' => Active(w)
    /\ row' # row => /\ Active(w) /\ row'.status # "none"
                     /\ row'.current = row.current \/ row'.current.status # "cancelled"
                     /\ row'.status = "awaiting_answers" =>
                            /\ ~Active(w)' /\ row'.current \in Snapshots
                            /\ row'.current.status = "awaiting_answers"
    /\ \/ client' = client
       \/ w \in Clients /\ worker'[w].pc = "off" /\ client' = [client EXCEPT ![w] = IdleClient]
    /\ WorkersKeepTheirWay'
    /\ filed' # filed => Active(w)
    /\ \A r \in Rounds : Cancelled(r) \in filed' => Cancelled(r) \in filed

LEMMA WorkersDoNoMore ==
    ASSUME TypeInv, WorkersKeepTheirWay, NEW w \in Workers, WorkerStep(w)
    PROVE  WorkerMay(w)
<1> USE StatesOfWorkers
<1>1. /\ worker[w] \in WorkerStates
      /\ worker[w].pc \in {"bind", "check_stop", "finish_step", "bind_result"} => worker[w].review \in Snapshots
  BY DEF WorkerIsTyped
<1>2. ASSUME NEW v, worker' = [worker EXCEPT ![w] = v], v.review.status # "cancelled",
             w = "thread" => v.pc # "bind_result", w # "thread" => v.pc \notin {"bind", "check_stop"}
      PROVE  WorkersKeepTheirWay' /\ worker'[w] = v /\ \A u \in Workers : u # w => worker'[u] = worker[u]
  BY <1>2 DEF WorkersKeepTheirWay
<1>3. ASSUME NEW pc, At(w, pc), w = "thread" => pc # "bind_result", w # "thread" => pc \notin {"bind", "check_stop"}
      PROVE  /\ WorkersKeepTheirWay' /\ \A u \in Workers : u # w => worker'[u] = worker[u]
             /\ worker'[w].pc = pc /\ worker'[w].review = worker[w].review
  <2> DEFINE v == [worker[w] EXCEPT !.pc = pc]
  <2>1. v.pc = pc /\ v.review = worker[w].review
    BY <1>1 DEF WorkerStates
  <2>2. worker' = [worker EXCEPT ![w] = v] /\ v.review.status # "cancelled"
    BY <1>3, <2>1 DEF At, WorkersKeepTheirWay
  <2> QED
    BY <1>2, <1>3, <2>1, <2>2
<1>4. ASSUME NEW position, Advance(w, position, "stream")
      PROVE  /\ WorkersKeepTheirWay' /\ \A u \in Workers : u # w => worker'[u] = worker[u]
             /\ worker'[w].pc = "stream"
  <2> DEFINE v == [worker[w] EXCEPT !.position = position, !.pc = "stream"]
  <2>1. v.pc = "stream" /\ v.review = worker[w].review
    BY <1>1 DEF WorkerStates
  <2>2. worker' = [worker EXCEPT ![w] = v] /\ v.review.status # "cancelled"
    BY <1>4, <2>1 DEF Advance, WorkersKeepTheirWay
  <2> QED
    BY <1>2, <2>1, <2>2
<1>5. CASE Load(w) \/ TakeAnswers(w) \/ Judge(w) \/ Raise(w)
  <2>1. UNCHANGED <<row, filed, client>> /\ worker[w].pc \in {"load", "stream"}
    BY <1>5 DEF Load, TakeAnswers, Judge, Raise, dbVars
  <2>2. \/ At(w, "failing") \/ At(w, "ended")
        \/ \E position : Advance(w, position, "stream")
    BY <1>5 DEF Load, TakeAnswers, Judge, Raise
  <2>3. WorkersKeepTheirWay' /\ \A u \in Workers : u # w => worker'[u] = worker[u]
    BY <1>3, <1>4, <2>2
  <2> QED
    BY <2>1, <2>3 DEF WorkerMay, Active
<1>6. CASE RecordReview(w)
  <2> DEFINE review == Composed(worker[w].position)
             pc == IF w = "thread" THEN "bind" ELSE "finish_step"
             v == [worker[w] EXCEPT !.review = review, !.pc = pc]
  <2>1. review.status # "cancelled" /\ \A r \in Rounds : review # Cancelled(r)
    BY DEF Composed, Waiting, Completed, Cancelled
  <2>2. /\ filed' = filed \cup {review} /\ worker[w].pc = "stream" /\ UNCHANGED <<row, client>>
        /\ worker' = [worker EXCEPT ![w] = v]
    BY <1>6, <1>1 DEF RecordReview, WorkerStates
  <2> HIDE DEF review
  <2>3. /\ v.review.status # "cancelled"
        /\ w = "thread" => v.pc # "bind_result"
        /\ w # "thread" => v.pc \notin {"bind", "check_stop"}
    BY <1>1, <2>1 DEF WorkerStates
  <2> HIDE DEF v
  <2>4. WorkersKeepTheirWay' /\ \A u \in Workers : u # w => worker'[u] = worker[u]
    BY <1>2, <2>2, <2>3
  <2> QED
    BY <2>1, <2>2, <2>4 DEF WorkerMay, Active
<1>7. CASE BindUpdate(w) \/ BindResult(w)
  <2>1. PICK pc \in {"check_stop", "ended"} : At(w, pc) /\ (pc = "check_stop" => w = "thread")
    BY <1>7 DEF BindUpdate, BindResult, WorkersKeepTheirWay
  <2>2. /\ Bind(worker[w].review) /\ worker[w].pc \in {"bind", "bind_result"} /\ UNCHANGED <<filed, client>>
    BY <1>7 DEF BindUpdate, BindResult
  <2>3. WorkersKeepTheirWay' /\ worker'[w].pc = pc /\ \A u \in Workers : u # w => worker'[u] = worker[u]
    BY <1>3, <2>1
  <2>4. worker[w].review \in Snapshots /\ worker[w].review.status \notin {"cancelled", "none"}
    BY <1>1, <2>2, SnapshotKinds DEF WorkersKeepTheirWay
  <2>5. row'.status = worker[w].review.status /\ row'.current = worker[w].review
    BY <2>2 DEF Bind
  <2> QED
    BY <2>1, <2>2, <2>3, <2>4, <2>5 DEF WorkerMay, Active
<1>8. CASE CheckStop(w)
  <2>1. w = "thread"
    BY <1>8 DEF CheckStop, WorkersKeepTheirWay
  <2>2. PICK pc \in {"ended", "finish_step"} : At(w, pc)
    BY <1>8 DEF CheckStop
  <2>3. WorkersKeepTheirWay' /\ worker'[w].pc = pc /\ \A u \in Workers : u # w => worker'[u] = worker[u]
    BY <1>3, <2>2
  <2>4. UNCHANGED <<row, filed, client>> /\ worker[w].pc = "check_stop"
    BY <1>8 DEF CheckStop, dbVars
  <2> QED
    BY <2>1, <2>3, <2>4 DEF WorkerMay, Active
<1>9. CASE FinishStep(w) \/ Release(w)
  <2>1. PICK pc \in {"ended", "bind_result", "left", "left_by_error"} :
            At(w, pc) /\ (pc = "bind_result" => w # "thread" /\ worker[w].pc = "finish_step")
    BY <1>9 DEF FinishStep, Release
  <2>2. WorkersKeepTheirWay' /\ worker'[w].pc = pc /\ \A u \in Workers : u # w => worker'[u] = worker[u]
    BY <1>3, <2>1
  <2>3. UNCHANGED <<row, filed, client>> /\ worker[w].pc \in {"finish_step", "ended", "raised"}
    BY <1>9 DEF FinishStep, Release, dbVars
  <2> QED
    BY <2>1, <2>2, <2>3 DEF WorkerMay, Active
<1>10. CASE MarkFailed(w) \/ RecordFailure(w) \/ BindFailure(w)
  <2>1. PICK pc \in {"raised", "record_failure", "bind_failure"} : At(w, pc)
    BY <1>10 DEF MarkFailed, RecordFailure, BindFailure
  <2>2. WorkersKeepTheirWay' /\ worker'[w].pc = pc /\ \A u \in Workers : u # w => worker'[u] = worker[u]
    BY <1>3, <2>1
  <2>3. worker[w].pc \in {"failing", "record_failure", "bind_failure"} /\ client' = client
    BY <1>10 DEF MarkFailed, RecordFailure, BindFailure
  <2>4. filed' \subseteq filed \cup {Failed} /\ \A r \in Rounds : Failed # Cancelled(r)
    BY <1>10 DEF MarkFailed, RecordFailure, BindFailure, Failed, Cancelled
  <2>5. \/ row' = row
        \/ row'.status = "failed" /\ (row'.current = row.current \/ row'.current = Failed)
    BY <1>10 DEF MarkFailed, RecordFailure, BindFailure, Mark, Bind, Failed
  <2>6. Failed.status = "failed"
    BY DEF Failed
  <2> QED
    BY <2>2, <2>3, <2>4, <2>5, <2>6 DEF WorkerMay, Active
<1>11. CASE Leave(w)
  <2>1. worker' = [worker EXCEPT ![w] = IdleWorker] /\ worker[w].pc \in {"left", "left_by_error"}
        /\ UNCHANGED <<row, filed>>
    BY <1>11 DEF Leave, dbVars
  <2>2. IdleWorker.pc = "off" /\ IdleWorker.review.status = "none"
    BY DEF IdleWorker, None
  <2>3. WorkersKeepTheirWay' /\ worker'[w] = IdleWorker /\ \A u \in Workers : u # w => worker'[u] = worker[u]
    BY <1>2, <2>1, <2>2
  <2>4. client' = client \/ (w \in Clients /\ client' = [client EXCEPT ![w] = IdleClient])
    BY <1>11 DEF Leave, Reply, Workers
  <2> QED
    BY <2>1, <2>2, <2>3, <2>4 DEF WorkerMay, Active
<1> QED
  BY <1>5, <1>6, <1>7, <1>8, <1>9, <1>10, <1>11 DEF WorkerStep

LEMMA InitSettled == Init => SettledInv
BY ConstantsAssumption DEF Init, SettledInv, WorkersKeepTheirWay, AwaitingIsCalm, ChecksHold, NothingBeforeTheStart,
   StoppedIsOver, Workers, IdleWorker, IdleClient, None

\* The thread and the request of the one client are never both at work.
LEMMA OneActiveWorker ==
    ASSUME TypeInv, OneClient, ChecksHold, NEW w \in Workers, Active(w)
    PROVE  \A v \in Workers : v # w => ~Active(v)
BY DEF OneClient, ChecksHold, Active, Workers

LEMMA WorkersSettle ==
    ASSUME TypeInv, SettledInv, OneClient, NEW w \in Workers, WorkerStep(w)
    PROVE  SettledInv'
<1> USE StatesOfWorkers DEF SettledInv
<1>1. WorkerMay(w)
  BY WorkersDoNoMore
<1>2. \A v \in Workers : Active(v)' => Active(v)
  BY <1>1 DEF WorkerMay, Active
<1>3. Calm => Calm'
  BY <1>2 DEF Calm
<1>4. row' # row => ~Calm /\ \A v \in Workers : v # w => ~Active(v)
  BY <1>1, OneActiveWorker DEF WorkerMay, Calm
<1>5. WorkersKeepTheirWay'
  BY <1>1 DEF WorkerMay
<1>6. AwaitingIsCalm'
  <2>1. CASE row' = row
    BY <2>1, <1>3 DEF AwaitingIsCalm
  <2>2. CASE row' # row
    <3>1. row'.status = "awaiting_answers" => ~Active(w)' /\ row'.current \in Snapshots
                                                /\ row'.current.status = "awaiting_answers"
      BY <1>1, <2>2 DEF WorkerMay
    <3>2. row'.status = "awaiting_answers" => Calm'
      BY <1>2, <1>4, <2>2, <3>1 DEF Calm
    <3> QED
      BY <3>1, <3>2 DEF AwaitingIsCalm
  <2> QED
    BY <2>1, <2>2
<1>7. \A c \in Clients : /\ client'[c] = client[c] \/ (c = w /\ client'[c] = IdleClient /\ worker'[c].pc = "off")
                         /\ worker'[c].pc # "off" => worker[c].pc # "off"
  BY <1>1 DEF WorkerMay
<1>8. ChecksHold'
  <2> SUFFICES ASSUME NEW c \in Clients
               PROVE  /\ client'[c].pc \in {"check_current", "get", "resume", "record", "bind"} =>
                             row'.status = "awaiting_answers"
                      /\ client'[c].pc \in {"record", "bind"} => row'.current = client'[c].review
                      /\ client'[c].pc = "launch" => row'.status = "running" /\ Calm'
                      /\ client'[c].pc = "invoking" => ~Active("thread")'
                      /\ worker'[c].pc # "off" => client'[c].pc = "invoking"
    BY DEF ChecksHold
  <2>1. CASE client'[c] = client[c]
    <3>1. client[c].pc \in {"check_current", "get", "resume", "record", "bind", "launch"} => Calm
      BY DEF ChecksHold, AwaitingIsCalm
    <3>2. client[c].pc \in {"check_current", "get", "resume", "record", "bind", "launch"} => row' = row
      BY <3>1, <1>4
    <3> QED
      BY <2>1, <3>1, <3>2, <1>2, <1>3, <1>7 DEF ChecksHold
  <2>2. CASE client'[c] = IdleClient /\ worker'[c].pc = "off"
    BY <2>2 DEF IdleClient
  <2> QED
    BY <1>7, <2>1, <2>2
<1>9. NothingBeforeTheStart'
  <2>1. row.status # "none" /\ row'.status # "none"
    BY <1>1 DEF WorkerMay, NothingBeforeTheStart
  <2> QED
    BY <2>1 DEF NothingBeforeTheStart
<1>10. StoppedIsOver'
  <2>1. row'.current.status = "cancelled" => row' = row
    BY <1>1, <1>4 DEF WorkerMay, StoppedIsOver
  <2> QED
    BY <2>1, <1>3 DEF StoppedIsOver
<1> QED
  BY <1>5, <1>6, <1>8, <1>9, <1>10

\* A request that moves no worker and no row has only itself to account for.
LEMMA OnlyTheRequestMoves ==
    ASSUME TypeInv, SettledInv, OneClient, NEW c \in Clients, NEW v, v \in ClientStates,
           client' = [client EXCEPT ![c] = v], UNCHANGED <<row, worker>>,
           v.pc \in {"check_current", "get", "resume", "record", "bind"} => row.status = "awaiting_answers",
           v.pc \in {"record", "bind"} => row.current = v.review,
           v.pc \notin {"launch", "invoking"}, client[c].pc # "invoking"
    PROVE  SettledInv'
<1> USE StatesOfWorkers DEF SettledInv
<1>1. client'[c] = v /\ \A d \in Clients : d = c
  BY DEF OneClient
<1>2. \A w \in Workers : Active(w)' <=> Active(w)
  BY DEF Active
<1>3. ChecksHold'
  BY <1>1 DEF ChecksHold
<1>4. WorkersKeepTheirWay' /\ NothingBeforeTheStart'
  BY DEF WorkersKeepTheirWay, NothingBeforeTheStart
<1>5. Calm' <=> Calm
  BY <1>2 DEF Calm
<1>6. AwaitingIsCalm' /\ StoppedIsOver'
  BY <1>5 DEF AwaitingIsCalm, StoppedIsOver
<1> QED
  BY <1>3, <1>4, <1>6

LEMMA RequestsSettle ==
    ASSUME TypeInv, SettledInv, OneClient, NEW c \in Clients, NewRequest(c) \/ RequestStep(c)
    PROVE  SettledInv'
<1> USE StatesOfWorkers
<1>1. /\ client[c] \in ClientStates /\ IdleClient \in ClientStates /\ IdleClient.pc = "idle"
      /\ \A d \in Clients : d = c
      /\ \A w \in Workers : w = "thread" \/ w = c
  BY IdleIsTyped DEF ClientIsTyped, OneClient, IdleClient, Workers
<1>2. ASSUME NEW request, Request(c, request), request \in ClientStates, request.pc \in {"check_status", "flag"}
      PROVE  SettledInv'
  BY <1>1, <1>2, OnlyTheRequestMoves DEF Request, dbVars
<1>3. ASSUME NEW pc \in ClientPcs, Proceed(c, pc), UNCHANGED <<row, worker>>,
             client[c].pc # "invoking", pc \notin {"launch", "invoking"},
             pc \in {"check_current", "get", "resume", "record", "bind"} => row.status = "awaiting_answers",
             pc \in {"record", "bind"} => row.current = client[c].review
      PROVE  SettledInv'
  <2> DEFINE v == [client[c] EXCEPT !.pc = pc]
  <2>1. v \in ClientStates /\ v.pc = pc /\ v.review = client[c].review
    BY <1>1 DEF ClientStates
  <2>2. client' = [client EXCEPT ![c] = v]
    BY <1>3 DEF Proceed
  <2> HIDE DEF v
  <2> QED
    BY <1>3, <2>1, <2>2, OnlyTheRequestMoves
<1>4. ASSUME Reply(c), UNCHANGED <<row, worker>>, client[c].pc # "invoking"
      PROVE  SettledInv'
  BY <1>1, <1>4, OnlyTheRequestMoves DEF Reply
<1>5. ASSUME NEW op \in {"start", "start_background"}, Start(c, op)
      PROVE  SettledInv'
  <2>1. /\ row.status = "none" /\ row' = [status |-> "running", current |-> None] /\ worker' = worker
        /\ client' = [client EXCEPT ![c] = [IdleClient EXCEPT !.op = op, !.pc = "launch"]]
    BY <1>5 DEF Start
  <2>2. \A w \in Workers : worker[w].pc = "off" /\ ~Active(w) /\ ~Active(w)'
    BY <2>1 DEF SettledInv, NothingBeforeTheStart, Active
  <2>3. Calm' /\ None.status = "none"
    BY <2>2 DEF Calm, None
  <2>4. client'[c].pc = "launch"
    BY <2>1 DEF IdleClient
  <2>5. ChecksHold'
    BY <1>1, <2>1, <2>2, <2>3, <2>4 DEF ChecksHold
  <2> QED
    BY <2>1, <2>3, <2>5 DEF SettledInv, WorkersKeepTheirWay, AwaitingIsCalm, NothingBeforeTheStart, StoppedIsOver
<1>6. ASSUME NewRequest(c), \A op \in {"start", "start_background"} : ~Start(c, op)
      PROVE  SettledInv'
  <2>1. CASE \E review \in filed, op \in {"resume", "resume_background"}, stop \in BOOLEAN :
                 RequestAnswer(c, op, review, stop)
    <3>1. PICK review \in filed, op \in {"resume", "resume_background"}, stop \in BOOLEAN :
              RequestAnswer(c, op, review, stop)
      BY <2>1
    <3> DEFINE request == [op |-> op, pc |-> "check_status", review |-> review, stop |-> stop]
    <3>2. request \in ClientStates
      BY DEF TypeInv, RowsAreTyped, ClientStates, ClientOps, ClientPcs
    <3> QED
      BY <1>2, <3>1, <3>2 DEF RequestAnswer
  <2>2. CASE \E review \in filed : RequestCancel(c, review)
    <3>1. PICK review \in filed : RequestCancel(c, review)
      BY <2>2
    <3> DEFINE request == [op |-> "cancel", pc |-> "check_status", review |-> review, stop |-> FALSE]
    <3>2. request \in ClientStates
      BY DEF TypeInv, RowsAreTyped, ClientStates, ClientOps, ClientPcs
    <3> QED
      BY <1>2, <3>1, <3>2 DEF RequestCancel
  <2>3. CASE \E review \in filed : Delete(c, review)
    <3>1. client' = [client EXCEPT ![c] = IdleClient] /\ UNCHANGED <<row, worker>> /\ client[c] = IdleClient
      BY <2>3 DEF Delete
    <3> QED
      BY <1>1, <1>4, <3>1 DEF Reply
  <2>4. CASE RequestCancelRun(c)
    <3> DEFINE request == [IdleClient EXCEPT !.op = "cancel_run", !.pc = "flag"]
    <3>1. request \in ClientStates /\ request.pc = "flag"
      BY <1>1 DEF ClientStates, ClientOps, ClientPcs, IdleClient
    <3> QED
      BY <1>2, <2>4, <3>1 DEF RequestCancelRun
  <2> QED
    BY <1>6, <2>1, <2>2, <2>3, <2>4 DEF NewRequest
<1>7. CASE CheckStatus(c)
  BY <1>3, <1>4, <1>7 DEF CheckStatus, ClientPcs, dbVars, IsWaiting
<1>8. CASE CheckCurrent(c)
  <2>1. row.status = "awaiting_answers" /\ row.current \in Snapshots /\ row.current # None
    BY <1>8, SnapshotKinds DEF CheckCurrent, SettledInv, ChecksHold, AwaitingIsCalm
  <2> QED
    BY <1>3, <1>4, <1>8, <2>1 DEF CheckCurrent, ClientPcs, dbVars, StandsOn
<1>9. CASE GetReview(c)
  BY <1>3, <1>4, <1>9 DEF GetReview, ClientPcs, dbVars, SettledInv, ChecksHold
<1>10. CASE Resume(c)
  <2>1. /\ client[c].pc = "resume" /\ worker' = worker /\ row'.status = "running" /\ row'.current = row.current
        /\ client'[c].pc = "launch"
    BY <1>1, <1>10 DEF Resume, Mark, Proceed, ClientStates
  <2>2. Calm /\ row.current.status # "cancelled"
    BY <2>1 DEF SettledInv, ChecksHold, AwaitingIsCalm
  <2>3. \A w \in Workers : ~Active(w)'
    BY <2>1, <2>2 DEF Calm, Active
  <2>4. Calm'
    BY <2>3 DEF Calm
  <2>5. ChecksHold'
    BY <1>1, <2>1, <2>3, <2>4 DEF SettledInv, ChecksHold
  <2> QED
    BY <2>1, <2>2, <2>4, <2>5 DEF SettledInv, WorkersKeepTheirWay, AwaitingIsCalm, NothingBeforeTheStart, StoppedIsOver
<1>11. CASE LaunchThread(c)
  <2>1. /\ client[c].pc = "launch" /\ row' = row /\ client' = [client EXCEPT ![c] = IdleClient]
        /\ row.status = "running" /\ Calm /\ row.current.status # "cancelled" /\ worker[c].pc = "off"
    BY <1>11 DEF LaunchThread, dbVars, Reply, SettledInv, ChecksHold, StoppedIsOver
  <2>2. /\ worker'[c] = worker[c]
        /\ \/ worker'["thread"] = worker["thread"]
           \/ worker'["thread"].pc = "load" /\ worker'["thread"].review = None
    BY <1>1, <1>11 DEF LaunchThread, IdleWorker, ConstantsAssumption
  <2>3. WorkersKeepTheirWay'
    BY <1>1, <2>2 DEF SettledInv, WorkersKeepTheirWay, None
  <2>4. ChecksHold'
    BY <1>1, <2>1, <2>2 DEF ChecksHold
  <2> QED
    BY <2>1, <2>3, <2>4 DEF SettledInv, AwaitingIsCalm, NothingBeforeTheStart, StoppedIsOver
<1>12. CASE LaunchInline(c)
  <2>1. /\ client[c].pc = "launch" /\ row' = row /\ client'[c].pc = "invoking"
        /\ row.status = "running" /\ Calm /\ row.current.status # "cancelled"
    BY <1>1, <1>12 DEF LaunchInline, dbVars, Proceed, ClientStates, SettledInv, ChecksHold, StoppedIsOver
  <2>2. worker'["thread"] = worker["thread"] /\ worker'[c].pc = "load" /\ worker'[c].review = None
    BY <1>1, <1>12 DEF LaunchInline, IdleWorker
  <2>3. WorkersKeepTheirWay'
    BY <1>1, <2>2 DEF SettledInv, WorkersKeepTheirWay, None
  <2>4. ~Active("thread")'
    BY <2>1, <2>2 DEF Calm, Active
  <2>5. ChecksHold'
    BY <1>1, <2>1, <2>4 DEF ChecksHold
  <2> QED
    BY <2>1, <2>3, <2>5 DEF SettledInv, AwaitingIsCalm, NothingBeforeTheStart, StoppedIsOver
<1>13. CASE CancelRecord(c)
  BY <1>3, <1>13 DEF CancelRecord, ClientPcs, SettledInv, ChecksHold
<1>14. CASE CancelBind(c)
  <2>1. /\ client[c].pc = "bind" /\ row'.status = "cancelled" /\ worker' = worker /\ client'[c].pc = "release"
    BY <1>1, <1>14 DEF CancelBind, Bind, Cancelled, Proceed, ClientStates
  <2>2. Calm /\ worker[c].pc = "off"
    BY <2>1 DEF SettledInv, ChecksHold, AwaitingIsCalm
  <2>3. Calm'
    BY <2>1, <2>2 DEF Calm, Active
  <2>4. ChecksHold'
    BY <1>1, <2>1, <2>2 DEF ChecksHold
  <2> QED
    BY <2>1, <2>3, <2>4 DEF SettledInv, WorkersKeepTheirWay, AwaitingIsCalm, NothingBeforeTheStart, StoppedIsOver
<1>15. CASE CancelRelease(c)
  BY <1>4, <1>15 DEF CancelRelease, dbVars
<1>16. CASE CancelRunFlag(c)
  BY <1>3, <1>16 DEF CancelRunFlag, ClientPcs, dbVars
<1>17. CASE CancelRunMark(c)
  <2>1. /\ client[c].pc = "mark" /\ row'.status = "cancelled" /\ row'.current = row.current /\ worker' = worker
        /\ client'[c] = IdleClient
    BY <1>1, <1>17 DEF CancelRunMark, Mark, Reply
  <2>2. worker[c].pc = "off"
    BY <2>1 DEF SettledInv, ChecksHold
  <2>3. Calm => Calm'
    BY <2>1 DEF Calm, Active
  <2>4. ChecksHold'
    BY <1>1, <2>1, <2>2 DEF ChecksHold
  <2> QED
    BY <2>1, <2>3, <2>4 DEF SettledInv, WorkersKeepTheirWay, AwaitingIsCalm, NothingBeforeTheStart, StoppedIsOver
<1> QED
  BY <1>5, <1>6, <1>7, <1>8, <1>9, <1>10, <1>11, <1>12, <1>13, <1>14, <1>15, <1>16, <1>17 DEF RequestStep

LEMMA StepsSettle ==
    ASSUME TypeInv, SettledInv, OneClient, [Next]_vars
    PROVE  SettledInv'
<1>1. CASE UNCHANGED vars
  <2>1. UNCHANGED <<row, worker, client>>
    BY <1>1 DEF vars
  <2> QED
    BY <2>1 DEF SettledInv, WorkersKeepTheirWay, AwaitingIsCalm, ChecksHold, NothingBeforeTheStart, StoppedIsOver,
                Calm, Active
<1>2. CASE Restart
  <2>1. /\ worker' = [w \in Workers |-> IdleWorker] /\ client' = [c \in Clients |-> IdleClient]
        /\ row'.current = row.current /\ row'.status \in {row.status, "failed"}
        /\ row.status = "cancelled" => row'.status = "cancelled"
    BY <1>2, StatesOfWorkers DEF Restart, Reconciled, Running
  <2>2. \A w \in Workers : ~Active(w)' /\ worker'[w].pc = "off" /\ worker'[w].review.status = "none"
    BY <2>1 DEF Active, IdleWorker, None
  <2>3. \A c \in Clients : client'[c].pc = "idle" /\ worker'[c].pc = "off"
    BY <2>1, <2>2, StatesOfWorkers DEF IdleClient
  <2>4. Calm'
    BY <2>2 DEF Calm
  <2>5. WorkersKeepTheirWay' /\ NothingBeforeTheStart'
    BY <2>2, StatesOfWorkers DEF WorkersKeepTheirWay, NothingBeforeTheStart
  <2>6. ChecksHold'
    BY <2>3 DEF ChecksHold
  <2> QED
    BY <2>1, <2>4, <2>5, <2>6 DEF SettledInv, AwaitingIsCalm, StoppedIsOver
<1> QED
  BY <1>1, <1>2, WorkersSettle, RequestsSettle DEF Next

(***************************************************************************)
(* A page of a round that was already answered stops nothing (cancel): only *)
(* cancel files a stopped snapshot, and by ChecksHold the page it was asked *)
(* from is still the snapshot the execution stands on when it does.         *)
(***************************************************************************)
THEOREM StalePagesDoNothing ==
    ASSUME OneClient
    PROVE  Spec => StalePagesStopNothing
<1> DEFINE P == \A r \in Rounds : Cancelled(r) \in filed' \ filed => row.current = Waiting(r)
<1>1. Init => TypeInv /\ SettledInv
  BY InitTyped, InitSettled
<1>2. TypeInv /\ SettledInv /\ [Next]_vars => (TypeInv /\ SettledInv)'
  BY StepsKeepTypes, StepsSettle
<1>3. TypeInv /\ SettledInv /\ [Next]_vars => [P]_vars
  <2> SUFFICES ASSUME TypeInv, SettledInv, Next, NEW r \in Rounds, Cancelled(r) \in filed', Cancelled(r) \notin filed
               PROVE  row.current = Waiting(r)
    OBVIOUS
  <2>1. ASSUME NEW w \in Workers, WorkerStep(w)
        PROVE  FALSE
    BY <2>1, WorkersDoNoMore DEF SettledInv, WorkerMay
  <2>2. ASSUME NEW c \in Clients, CancelRecord(c)
        PROVE  row.current = Waiting(r)
    <3>1. row.current = client[c].review /\ client[c].review.status = "awaiting_answers"
          /\ client[c].review \in Snapshots
      BY <2>2, SnapshotKinds, StatesOfWorkers
         DEF CancelRecord, SettledInv, ChecksHold, ClientIsTyped, AwaitingIsCalm
    <3>2. client[c].review = Waiting(client[c].review.round)
      BY <3>1, SnapshotKinds
    <3>3. Cancelled(r) = Cancelled(client[c].review.round)
      BY <2>2 DEF CancelRecord
    <3>4. r = client[c].review.round
      BY <3>3 DEF Cancelled
    <3> QED
      BY <3>1, <3>2, <3>4
  <2>3. ASSUME NEW c \in Clients, NewRequest(c) \/ RequestStep(c), ~CancelRecord(c)
        PROVE  FALSE
    BY <2>3 DEF NewRequest, RequestStep, Start, RequestAnswer, RequestCancel, RequestCancelRun, Request, Delete,
                CheckStatus, CheckCurrent, GetReview, Resume, LaunchThread, LaunchInline, CancelBind, CancelRelease,
                CancelRunFlag, CancelRunMark, dbVars
  <2>4. ~Restart
    BY DEF Restart
  <2> QED
    BY <2>1, <2>2, <2>3, <2>4 DEF Next
<1> QED
  BY <1>1, <1>2, <1>3, PTL DEF Spec, StalePagesStopNothing

(***************************************************************************)
(* A review stopped while it waited is over (cancel, bind): once its row   *)
(* stands on the stopped snapshot no worker is left that could move it,    *)
(* and the checks of a resume or of a second stop all refuse.              *)
(***************************************************************************)
THEOREM StopsAreFinal ==
    ASSUME OneClient
    PROVE  Spec => StoppedReviewsStayStopped
<1> DEFINE P == row.current.status = "cancelled" => row'.current = row.current /\ filed' \subseteq filed
<1>1. Init => TypeInv /\ SettledInv
  BY InitTyped, InitSettled
<1>2. TypeInv /\ SettledInv /\ [Next]_vars => (TypeInv /\ SettledInv)'
  BY StepsKeepTypes, StepsSettle
<1>3. TypeInv /\ SettledInv /\ [Next]_vars => [P]_vars
  <2> SUFFICES ASSUME TypeInv, SettledInv, Next, row.current.status = "cancelled"
               PROVE  row'.current = row.current /\ filed' \subseteq filed
    OBVIOUS
  <2>1. row.status = "cancelled" /\ Calm
    BY DEF SettledInv, StoppedIsOver
  <2>2. ASSUME NEW w \in Workers, WorkerStep(w)
        PROVE  UNCHANGED <<row, filed>>
    BY <2>1, <2>2, WorkersDoNoMore DEF SettledInv, WorkerMay, Calm
  <2>3. ASSUME NEW c \in Clients
        PROVE  ~Resume(c) /\ ~CancelRecord(c) /\ ~CancelBind(c) /\ \A op : ~Start(c, op)
    BY <2>1 DEF SettledInv, ChecksHold, Resume, CancelRecord, CancelBind, Start
  <2>4. ASSUME NEW c \in Clients, NewRequest(c) \/ RequestStep(c)
        PROVE  row'.current = row.current /\ filed' \subseteq filed
    BY <2>3, <2>4, StatesOfWorkers
       DEF NewRequest, RequestStep, RequestAnswer, RequestCancel, RequestCancelRun, Request, Delete, CheckStatus,
           CheckCurrent, GetReview, LaunchThread, LaunchInline, CancelRelease, CancelRunFlag, CancelRunMark, Mark, dbVars
  <2>5. CASE Restart
    BY <2>5, StatesOfWorkers DEF Restart, Reconciled
  <2> QED
    BY <2>2, <2>4, <2>5 DEF Next
<1> QED
  BY <1>1, <1>2, <1>3, PTL DEF Spec, StoppedReviewsStayStopped

-----------------------------------------------------------------------------
\* Waiting reviews can be resumed

\* A worker that judges stands where the saver does, and files what that place says.
InPlace(w) ==
    /\ worker[w].pc \in {"stream", "bind", "check_stop", "finish_step"} =>
           checkpoint \in Positions /\ checkpoint = worker[w].position
    /\ worker[w].pc \in {"bind", "check_stop", "finish_step", "bind_result"} =>
           worker[w].review = Composed(worker[w].position)
    /\ worker[w].pc = "bind_result" =>
           checkpoint \in Positions /\ checkpoint.round = worker[w].position.round
    /\ w = "thread" /\ worker[w].pc \in {"check_stop", "finish_step"} => row.current = worker[w].review

WaitsAtItsCheckpoint ==
    row.status = "awaiting_answers" => checkpoint \in Positions /\ checkpoint.round = row.current.round

\* As long as nobody hurries the thread, one of them is at work at a time.
PlaceInv ==
    ~rushed => /\ Alive("thread") => \A c \in Clients : client[c] = IdleClient
               /\ \A w \in Workers : InPlace(w)
               /\ WaitsAtItsCheckpoint

LEMMA InitInPlace == Init => PlaceInv
BY ConstantsAssumption DEF Init, PlaceInv, InPlace, WaitsAtItsCheckpoint, Workers, IdleWorker, Alive

LEMMA ComposedKeepsTheRound ==
    ASSUME NEW position
    PROVE  Composed(position).round = position.round
BY DEF Composed, Waiting, Completed

LEMMA WorkersStayInPlace ==
    ASSUME TypeInv, TypeInv', SettledInv, PlaceInv, OneClient, NEW w \in Workers, WorkerStep(w)
    PROVE  PlaceInv'
<1> SUFFICES ASSUME ~rushed'
             PROVE  /\ Alive("thread")' => \A c \in Clients : client'[c] = IdleClient
                    /\ \A v \in Workers : InPlace(v)'
                    /\ WaitsAtItsCheckpoint'
  BY DEF PlaceInv
<1> USE StatesOfWorkers
<1>1. WorkerMay(w)
  BY WorkersDoNoMore DEF SettledInv
<1>2. ~rushed
  BY DEF WorkerStep, Load, TakeAnswers, Judge, Raise, RecordReview, BindUpdate, CheckStop, FinishStep, BindResult,
         MarkFailed, RecordFailure, BindFailure, Release, Leave, boundVars
<1>3. \A v \in Workers : v # w => worker[v].pc = "off" /\ worker'[v].pc = "off"
  BY <1>1, <1>2 DEF WorkerMay, PlaceInv, SettledInv, ChecksHold, OneClient, Workers, Alive, IdleClient
<1>4. Alive("thread")' => \A c \in Clients : client'[c] = IdleClient
  <2>1. Alive("thread")' => w = "thread" /\ Alive("thread")
    BY <1>1, <1>3 DEF Alive, WorkerMay
  <2> QED
    BY <1>1, <1>2, <2>1 DEF WorkerMay, PlaceInv
<1>5. \A v \in Workers : v # w => InPlace(v)'
  BY <1>3 DEF InPlace
<1>6. InPlace(w) /\ WaitsAtItsCheckpoint /\ (row.status = "awaiting_answers" => ~Active(w))
  BY <1>2 DEF PlaceInv, SettledInv, AwaitingIsCalm, Calm
<1>7. ASSUME NEW pc, At(w, pc)
      PROVE  /\ worker'[w].pc = pc /\ worker'[w].review = worker[w].review
             /\ worker'[w].position = worker[w].position
  BY <1>7 DEF At, WorkerStates
<1>8. ASSUME NEW position, Advance(w, position, "stream")
      PROVE  worker'[w].pc = "stream" /\ worker'[w].position = position
  BY <1>8 DEF Advance, WorkerStates
<1>9. checkpoint' \in Positions \/ checkpoint' = NoCheckpoint
  BY DEF TypeInv, CheckpointIsTyped
<1>10. CASE Load(w) \/ TakeAnswers(w) \/ Judge(w) \/ Raise(w)
  <2>1. row' = row /\ row.status # "awaiting_answers"
    BY <1>6, <1>10 DEF Load, TakeAnswers, Judge, Raise, dbVars, Active
  <2>2. \/ At(w, "failing") \/ At(w, "ended")
        \/ Advance(w, checkpoint', "stream") /\ checkpoint' # NoCheckpoint
    <3>1. CASE Load(w)
      BY <3>1 DEF Load, NoCheckpoint
    <3>2. CASE TakeAnswers(w)
      BY <3>2 DEF TakeAnswers, NoCheckpoint
    <3>3. CASE Judge(w)
      <4>1. checkpoint \in Positions /\ checkpoint = worker[w].position
        BY <1>6, <3>3 DEF InPlace, Judge
      <4>2. \A at \in {"recording", "sealing"} : [worker[w].position EXCEPT !.at = at] # NoCheckpoint
        BY <4>1 DEF Positions, NoCheckpoint
      <4> QED
        BY <3>3, <4>2 DEF Judge
    <3>4. CASE Raise(w)
      BY <3>4 DEF Raise
    <3> QED
      BY <1>10, <3>1, <3>2, <3>3, <3>4
  <2>3. InPlace(w)'
    BY <1>7, <1>8, <1>9, <2>2 DEF InPlace
  <2> QED
    BY <1>4, <1>5, <2>1, <2>3 DEF WaitsAtItsCheckpoint
<1>11. CASE RecordReview(w)
  <2>1. /\ worker'[w].pc \in {"bind", "finish_step"} /\ (w = "thread" => worker'[w].pc = "bind")
        /\ worker'[w].review = Composed(worker[w].position) /\ worker'[w].position = worker[w].position
        /\ worker[w].pc = "stream" /\ UNCHANGED <<row, checkpoint>>
    BY <1>11 DEF RecordReview, WorkerStates
  <2> QED
    BY <1>4, <1>5, <1>6, <2>1 DEF InPlace, WaitsAtItsCheckpoint
<1>12. CASE BindUpdate(w) \/ BindResult(w)
  <2>1. PICK pc \in {"check_stop", "ended"} :
            /\ At(w, pc) /\ Bind(worker[w].review) /\ checkpoint' = checkpoint
            /\ worker[w].pc \in {"bind", "bind_result"}
    BY <1>12 DEF BindUpdate, BindResult
  <2>2. checkpoint \in Positions /\ checkpoint.round = worker[w].review.round
    BY <1>6, <2>1, ComposedKeepsTheRound DEF InPlace
  <2>3. row'.current = worker[w].review
    BY <2>1 DEF Bind
  <2>4. pc = "check_stop" => worker[w].pc = "bind"
    BY <1>12, <1>7, <2>1 DEF BindUpdate, BindResult
  <2> QED
    BY <1>4, <1>5, <1>6, <1>7, <2>1, <2>2, <2>3, <2>4 DEF InPlace, WaitsAtItsCheckpoint
<1>13. CASE CheckStop(w)
  <2>1. PICK pc \in {"ended", "finish_step"} : At(w, pc)
    BY <1>13 DEF CheckStop
  <2>2. worker[w].pc = "check_stop" /\ UNCHANGED <<row, checkpoint>>
    BY <1>13 DEF CheckStop, dbVars
  <2> QED
    BY <1>4, <1>5, <1>6, <1>7, <2>1, <2>2 DEF InPlace, WaitsAtItsCheckpoint
<1>14. CASE FinishStep(w)
  <2>1. /\ worker[w].pc = "finish_step" /\ row' = row
        /\ \/ w = "thread" /\ worker'[w].pc = "ended"
           \/ w # "thread" /\ worker'[w].pc = "bind_result"
        /\ worker'[w].review = worker[w].review /\ worker'[w].position = worker[w].position
    BY <1>7, <1>14 DEF FinishStep, dbVars
  <2>2. worker[w].position \in Positions /\ worker[w].review = Composed(worker[w].position)
    BY <1>6, <2>1 DEF InPlace
  <2>3. checkpoint' \in Positions /\ checkpoint'.round = worker[w].position.round
    <3> DEFINE interrupt == [worker[w].position EXCEPT !.at = "interrupt"]
    <3>1. interrupt \in Positions /\ interrupt.round = worker[w].position.round
      BY <2>2 DEF Positions
    <3>2. checkpoint' = interrupt \/ checkpoint' = worker[w].position
      BY <1>14 DEF FinishStep
    <3> QED
      BY <2>2, <3>1, <3>2
  <2>4. row.status = "awaiting_answers" => w = "thread" /\ row.current.round = worker[w].position.round
    BY <1>6, <2>1, <2>2, ComposedKeepsTheRound DEF Active, InPlace
  <2>5. InPlace(w)'
    BY <2>1, <2>2, <2>3 DEF InPlace
  <2> QED
    BY <1>4, <1>5, <2>1, <2>3, <2>4, <2>5 DEF WaitsAtItsCheckpoint
<1>15. CASE MarkFailed(w) \/ RecordFailure(w) \/ BindFailure(w)
  <2>1. PICK pc \in {"raised", "record_failure", "bind_failure"} : At(w, pc)
    BY <1>15 DEF MarkFailed, RecordFailure, BindFailure
  <2>2. row.status # "awaiting_answers"
    BY <1>6, <1>15 DEF MarkFailed, RecordFailure, BindFailure, Active
  <2>3. row'.status # "awaiting_answers"
    BY <1>15, <2>2 DEF MarkFailed, RecordFailure, BindFailure, Mark, Bind, Failed
  <2> QED
    BY <1>4, <1>5, <1>7, <2>1, <2>3 DEF InPlace, WaitsAtItsCheckpoint
<1>16. CASE Release(w)
  <2>1. PICK pc \in {"left", "left_by_error"} : At(w, pc)
    BY <1>16 DEF Release
  <2>2. row' = row /\ (row.status = "awaiting_answers" => checkpoint' = checkpoint)
    BY <1>16 DEF Release, dbVars, Released
  <2> QED
    BY <1>4, <1>5, <1>6, <1>7, <2>1, <2>2 DEF InPlace, WaitsAtItsCheckpoint
<1>17. CASE Leave(w)
  <2>1. worker'[w].pc = "off" /\ UNCHANGED <<row, checkpoint>>
    BY <1>17 DEF Leave, dbVars, IdleWorker
  <2> QED
    BY <1>4, <1>5, <1>6, <2>1 DEF InPlace, WaitsAtItsCheckpoint
<1> QED
  BY <1>10, <1>11, <1>12, <1>13, <1>14, <1>15, <1>16, <1>17 DEF WorkerStep

LEMMA RequestsStayInPlace ==
    ASSUME TypeInv, SettledInv, PlaceInv, OneClient, NEW c \in Clients, NewRequest(c) \/ RequestStep(c)
    PROVE  PlaceInv'
<1> SUFFICES ASSUME ~rushed'
             PROVE  /\ Alive("thread")' => \A d \in Clients : client'[d] = IdleClient
                    /\ \A w \in Workers : InPlace(w)'
                    /\ WaitsAtItsCheckpoint'
  BY DEF PlaceInv
<1> USE StatesOfWorkers
<1>1. /\ client[c] \in ClientStates /\ IdleClient.pc = "idle" /\ \A d \in Clients : d = c
      /\ \A w \in Workers : w = "thread" \/ w = c
  BY DEF ClientIsTyped, OneClient, IdleClient, Workers
<1>2. CASE NewRequest(c)
  <2>1. \/ \E op : Start(c, op)
        \/ \E request : Request(c, request)
        \/ \E review : Delete(c, review)
    BY <1>2 DEF NewRequest, RequestAnswer, RequestCancel, RequestCancelRun
  <2>2. UNCHANGED <<worker, checkpoint>> /\ ~rushed /\ (client' # client => ~Alive("thread"))
    <3>1. ASSUME NEW request, Request(c, request)
          PROVE  UNCHANGED <<worker, checkpoint>> /\ ~rushed /\ ~Alive("thread")
      BY <3>1 DEF Request
    <3>2. ASSUME NEW op, Start(c, op)
          PROVE  UNCHANGED <<worker, checkpoint>> /\ ~rushed /\ ~Alive("thread")
      BY <3>2 DEF Start, boundVars, SettledInv, NothingBeforeTheStart, Alive
    <3>3. ASSUME NEW review, Delete(c, review)
          PROVE  UNCHANGED <<worker, checkpoint>> /\ ~rushed /\ client' = client
      BY <3>3 DEF Delete
    <3> QED
      BY <2>1, <3>1, <3>2, <3>3
  <2>3. row' = row \/ (row'.status = "running" /\ \A w \in Workers : worker[w].pc = "off")
    <3>1. ASSUME NEW op, Start(c, op)
          PROVE  row'.status = "running" /\ \A w \in Workers : worker[w].pc = "off"
      BY <3>1 DEF Start, SettledInv, NothingBeforeTheStart
    <3>2. ASSUME NEW request, Request(c, request)
          PROVE  row' = row
      BY <3>2 DEF Request, dbVars
    <3>3. ASSUME NEW review, Delete(c, review)
          PROVE  row' = row
      BY <3>3 DEF Delete
    <3> QED
      BY <2>1, <3>1, <3>2, <3>3
  <2>4. \A w \in Workers : InPlace(w)'
    <3>1. \A w \in Workers : InPlace(w)
      BY <2>2 DEF PlaceInv
    <3> QED
      BY <2>2, <2>3, <3>1 DEF InPlace
  <2>5. WaitsAtItsCheckpoint /\ (Alive("thread") => \A d \in Clients : client[d] = IdleClient)
    BY <2>2 DEF PlaceInv
  <2>6. WaitsAtItsCheckpoint'
    BY <2>2, <2>3, <2>5 DEF WaitsAtItsCheckpoint
  <2>7. Alive("thread")' <=> Alive("thread")
    BY <2>2 DEF Alive
  <2> QED
    BY <2>2, <2>4, <2>5, <2>6, <2>7
<1>3. CASE RequestStep(c)
  <2>1. ~rushed /\ client[c].pc \notin {"idle", "invoking"}
    BY <1>3 DEF RequestStep, CheckStatus, CheckCurrent, GetReview, Resume, LaunchThread, LaunchInline, CancelRecord,
                CancelBind, CancelRelease, CancelRunFlag, CancelRunMark, boundVars
  <2>2. \A w \in Workers : worker[w].pc = "off"
    BY <1>1, <2>1 DEF PlaceInv, Alive, SettledInv, ChecksHold
  <2>3. \/ worker' = worker
        \/ worker'["thread"].pc = "load" /\ worker'[c] = worker[c] /\ client'[c] = IdleClient
        \/ worker'[c].pc = "load" /\ worker'["thread"] = worker["thread"]
    BY <1>1, <1>3 DEF RequestStep, CheckStatus, CheckCurrent, GetReview, Resume, LaunchThread, LaunchInline, Reply,
                CancelRecord, CancelBind, CancelRelease, CancelRunFlag, CancelRunMark, IdleWorker
  <2>4. \A w \in Workers : worker'[w].pc \in {"off", "load"}
    BY <1>1, <2>2, <2>3
  <2>5. \A w \in Workers : InPlace(w)'
    BY <2>4 DEF InPlace
  <2>6. Alive("thread")' => \A d \in Clients : client'[d] = IdleClient
    BY <1>1, <2>2, <2>3 DEF Alive
  <2>7. \/ row' = row /\ (row.status = "awaiting_answers" => checkpoint' = checkpoint)
        \/ row'.status \in {"running", "cancelled"}
    BY <1>3 DEF RequestStep, CheckStatus, CheckCurrent, GetReview, Resume, LaunchThread, LaunchInline, CancelRecord,
                CancelBind, CancelRelease, CancelRunFlag, CancelRunMark, Mark, Bind, Cancelled, Released, dbVars
  <2> QED
    BY <2>1, <2>5, <2>6, <2>7 DEF PlaceInv, WaitsAtItsCheckpoint
<1> QED
  BY <1>2, <1>3

LEMMA StepsStayInPlace ==
    ASSUME TypeInv, SettledInv, PlaceInv, OneClient, [Next]_vars
    PROVE  PlaceInv'
<1>1. CASE UNCHANGED vars
  BY <1>1 DEF vars, PlaceInv, InPlace, WaitsAtItsCheckpoint, Alive
<1>2. CASE Restart
  <2>1. /\ \A w \in Workers : worker'[w].pc = "off"
        /\ row'.status = "awaiting_answers" => row' = row /\ checkpoint' = checkpoint
        /\ rushed' = rushed
    BY <1>2, StatesOfWorkers DEF Restart, Reconciled, Running, IdleWorker
  <2> QED
    BY <2>1, StatesOfWorkers DEF PlaceInv, InPlace, WaitsAtItsCheckpoint, Alive
<1> QED
  BY <1>1, <1>2, StepsKeepTypes, WorkersStayInPlace, RequestsStayInPlace DEF Next

(***************************************************************************)
(* A review that says it waits can be resumed from its own round           *)
(* (_release): what ended, died or was refused leaves its checkpoint where *)
(* the snapshot it stands on says, unless a request hurried the thread.    *)
(***************************************************************************)
THEOREM WaitingReviewsKeepTheirCheckpoint ==
    ASSUME OneClient
    PROVE  Spec => []WaitingReviewsAreResumable
<1>1. Init => TypeInv /\ SettledInv /\ PlaceInv
  BY InitTyped, InitSettled, InitInPlace
<1>2. TypeInv /\ SettledInv /\ PlaceInv /\ [Next]_vars => (TypeInv /\ SettledInv /\ PlaceInv)'
  BY StepsKeepTypes, StepsSettle, StepsStayInPlace
<1>3. PlaceInv => WaitingReviewsAreResumable
  BY DEF PlaceInv, WaitsAtItsCheckpoint, WaitingReviewsAreResumable, Positions, NoCheckpoint
<1> QED
  BY <1>1, <1>2, <1>3, PTL DEF Spec

=============================================================================

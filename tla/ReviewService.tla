--------------------------- MODULE ReviewService ---------------------------
(***************************************************************************)
(* One review as the process around it sees it (workflow/service.py,       *)
(* workflow/runs.py, persistence/executions.py): the execution row, the    *)
(* filed snapshots, the graph's checkpoint, the runner's thread and stop   *)
(* flag, and the requests that reach them while the thread is working.     *)
(*                                                                         *)
(* Every database transaction and every use of the runner's lock is a step *)
(* of its own, so a request and the thread interleave between any two. The *)
(* graph is reduced to which round it judges (module ReviewGraph has the   *)
(* rest). A restart kills the thread and every open request, and           *)
(* reconciles what they left.                                              *)
(*                                                                         *)
(* An operator named Faulty... is no part of the specification: it is a    *)
(* plausible mistake in the operator defined after it, kept to show that   *)
(* a property notices it.                                                  *)
(***************************************************************************)
EXTENDS Naturals, FiniteSets

CONSTANTS
    Clients,            \* whoever sends requests: tabs, scripts
    LastRound,          \* the round after which nothing more is asked
    Operations,         \* the requests these clients send
    MaxRequests,        \* bound: requests sent in a behaviour
    MaxRestarts         \* bound: restarts of the process

ASSUME ConstantsAssumption ==
    /\ "thread" \notin Clients
    /\ LastRound \in Nat \ {0}
    /\ Operations \subseteq {"start", "start_background", "resume", "resume_background",
                             "cancel", "cancel_run", "delete"}
    /\ MaxRequests \in Nat
    /\ MaxRestarts \in Nat

\* The runner's thread, or the request that invokes the graph itself.
Workers == {"thread"} \cup Clients
Rounds == 1..LastRound

\* The ids of the snapshots one review can file: a cancelled snapshot derives its
\* id from the waiting one it replaces, a failed one from the thread alone.
Waiting(r) == [status |-> "awaiting_answers", round |-> r]
Completed(r) == [status |-> "completed", round |-> r]
Cancelled(r) == [status |-> "cancelled", round |-> r]
Failed == [status |-> "failed", round |-> 0]
Snapshots ==
    {Waiting(r) : r \in Rounds} \cup {Completed(r) : r \in Rounds}
        \cup {Cancelled(r) : r \in Rounds} \cup {Failed}
None == [status |-> "none", round |-> 0]

\* Where the graph stands: "recording" is the step before record_waiting_review,
\* "interrupt" the await_answers a Command resumes, "sealing" the last nodes.
Positions == [round : Rounds, at : {"judging", "recording", "interrupt", "sealing"}]
NoCheckpoint == [round |-> 0, at |-> "none"]

VARIABLES
    row,                \* review_executions: status and current_review_id
    aliases,            \* review_execution_aliases: the reviews bound to the row
    filed,              \* core_review_snapshots
    checkpoint,         \* what the saver holds for this thread id
    worker,             \* what each worker is doing, and its copy of the graph
    stopFlag,           \* the run is in ReviewRunner._cancelled
    memory,             \* ReviewRunner._runs: the status this process shows
    client,             \* the request each client has open
    taken,              \* history: how often a round's answers were recorded
    rushed,             \* history: a request came while the thread was finishing
    requests, restarts  \* bounds

vars == <<row, aliases, filed, checkpoint, worker, stopFlag, memory, client, taken,
          rushed, requests, restarts>>
dbVars == <<row, aliases, filed>>
boundVars == <<rushed, requests, restarts>>

IdleWorker == [pc |-> "off", position |-> NoCheckpoint, answers |-> 0, stop |-> FALSE,
               review |-> None]
IdleClient == [op |-> "none", pc |-> "idle", review |-> None, stop |-> FALSE]

Init ==
    /\ row = [status |-> "none", current |-> None]
    /\ aliases = {}
    /\ filed = {}
    /\ checkpoint = NoCheckpoint
    /\ worker = [w \in Workers |-> IdleWorker]
    /\ stopFlag = FALSE
    /\ memory = "none"
    /\ client = [c \in Clients |-> IdleClient]
    /\ taken = [r \in Rounds |-> 0]
    /\ rushed = FALSE
    /\ requests = 0
    /\ restarts = 0

-----------------------------------------------------------------------------
\* Helpers

Alive(w) == worker[w].pc # "off"
Running == row.status = "running"

\* One UPDATE of both columns, and the alias inserted once.
Bind(review) ==
    /\ row' = [status |-> review.status, current |-> review]
    /\ aliases' = aliases \cup {review}

Mark(status) == row' = [row EXCEPT !.status = status]

\* A client that is done with a request, or goes to the next step of it.
Reply(c) == client' = [client EXCEPT ![c] = IdleClient]
Proceed(c, pc) == client' = [client EXCEPT ![c].pc = pc]
At(w, pc) == worker' = [worker EXCEPT ![w].pc = pc]

\* _release: everything but a waiting review lets go of its checkpoints.
FaultyReleased == NoCheckpoint
FaultyNotReleased == checkpoint
Released == IF row.status = "awaiting_answers" THEN checkpoint ELSE NoCheckpoint

-----------------------------------------------------------------------------
\* Requests

Request(c, request) ==
    /\ client[c] = IdleClient
    /\ request.op \in Operations
    /\ requests < MaxRequests
    /\ requests' = requests + 1
    /\ client' = [client EXCEPT ![c] = request]
    /\ rushed' = (rushed \/ Alive("thread"))
    /\ UNCHANGED <<dbVars, checkpoint, worker, stopFlag, memory, taken, restarts>>

\* POST /api/reviews and /api/reviews/runs: _begin has written the row.
Start(c, op) ==
    /\ row.status = "none"
    /\ client[c] = IdleClient
    /\ op \in Operations
    /\ row' = [status |-> "running", current |-> None]
    /\ client' = [client EXCEPT ![c] = [IdleClient EXCEPT !.op = op, !.pc = "launch"]]
    /\ UNCHANGED <<aliases, filed, checkpoint, worker, stopFlag, memory, taken, boundVars>>

\* Any snapshot somebody has a page of may be answered or cancelled.
RequestAnswer(c, op, review, stop) ==
    /\ review \in filed
    /\ Request(c, [op |-> op, pc |-> "check_status", review |-> review, stop |-> stop])

RequestCancel(c, review) ==
    /\ review \in filed
    /\ Request(c, [op |-> "cancel", pc |-> "check_status", review |-> review, stop |-> FALSE])

RequestCancelRun(c) ==
    /\ row.status # "none"
    /\ Request(c, [IdleClient EXCEPT !.op = "cancel_run", !.pc = "flag"])

\* reviews.delete: the snapshot goes, and nothing else.
Delete(c, review) ==
    /\ client[c] = IdleClient
    /\ "delete" \in Operations
    /\ requests < MaxRequests
    /\ review \in filed
    /\ filed' = filed \ {review}
    /\ requests' = requests + 1
    /\ UNCHANGED <<row, aliases, checkpoint, worker, stopFlag, memory, client, taken, rushed,
                   restarts>>

FaultyIsWaiting == TRUE
IsWaiting == row.status = "awaiting_answers"

\* The two checks _resume_command and cancel share, and the order they are made in.
CheckStatus(c) ==
    /\ client[c].pc = "check_status"
    /\ IF /\ client[c].op = "cancel" => client[c].review.status = "awaiting_answers"
          /\ client[c].review \in aliases
          /\ IsWaiting
       THEN Proceed(c, "check_current")
       ELSE Reply(c)
    /\ UNCHANGED <<dbVars, checkpoint, worker, stopFlag, memory, taken, boundVars>>

FaultyStandsOn(review) == TRUE
StandsOn(review) == row.current = None \/ row.current = review

CheckCurrent(c) ==
    /\ client[c].pc = "check_current"
    /\ IF StandsOn(client[c].review)
       THEN IF client[c].op = "cancel" THEN Proceed(c, "record") ELSE Proceed(c, "get")
       ELSE Reply(c)
    /\ UNCHANGED <<dbVars, checkpoint, worker, stopFlag, memory, taken, boundVars>>

\* A snapshot that was deleted, or is no waiting one, is refused.
GetReview(c) ==
    /\ client[c].pc = "get"
    /\ IF client[c].review \in filed /\ client[c].review.status = "awaiting_answers"
       THEN Proceed(c, "resume")
       ELSE Reply(c)
    /\ UNCHANGED <<dbVars, checkpoint, worker, stopFlag, memory, taken, boundVars>>

\* executions.resume, before anything runs.
Resume(c) ==
    /\ client[c].pc = "resume"
    /\ Mark("running")
    /\ Proceed(c, "launch")
    /\ UNCHANGED <<aliases, filed, checkpoint, worker, stopFlag, memory, taken, boundVars>>

\* runner.start on a thread of its own, refused while the last one is alive. It
\* forgets whatever stop the run was asked for before.
LaunchThread(c) ==
    /\ client[c].pc = "launch"
    /\ client[c].op \in {"start_background", "resume_background"}
    /\ IF Alive("thread")
       THEN UNCHANGED <<worker, stopFlag, memory>>
       ELSE /\ worker' = [worker EXCEPT !["thread"] =
                            [IdleWorker EXCEPT !.pc = "load",
                               !.answers = client[c].review.round, !.stop = client[c].stop]]
            /\ stopFlag' = FALSE
            /\ memory' = "running"
    /\ Reply(c)
    /\ UNCHANGED <<dbVars, checkpoint, taken, boundVars>>

\* graph.invoke inside the request.
LaunchInline(c) ==
    /\ client[c].pc = "launch"
    /\ client[c].op \in {"start", "resume"}
    /\ worker' = [worker EXCEPT ![c] =
                    [IdleWorker EXCEPT !.pc = "load",
                       !.answers = client[c].review.round, !.stop = client[c].stop]]
    /\ Proceed(c, "invoking")
    /\ UNCHANGED <<dbVars, checkpoint, stopFlag, memory, taken, boundVars>>

\* cancel: the cancelled snapshot is filed, bound, and the checkpoints go.
CancelRecord(c) ==
    /\ client[c].pc = "record"
    /\ filed' = filed \cup {Cancelled(client[c].review.round)}
    /\ Proceed(c, "bind")
    /\ UNCHANGED <<row, aliases, checkpoint, worker, stopFlag, memory, taken, boundVars>>

CancelBind(c) ==
    /\ client[c].pc = "bind"
    /\ Bind(Cancelled(client[c].review.round))
    /\ Proceed(c, "release")
    /\ UNCHANGED <<filed, checkpoint, worker, stopFlag, memory, taken, boundVars>>

CancelRelease(c) ==
    /\ client[c].pc = "release"
    /\ checkpoint' = Released
    /\ Reply(c)
    /\ UNCHANGED <<dbVars, worker, stopFlag, memory, taken, boundVars>>

\* cancel_run: the flag the thread reads, then the word on the row.
CancelRunFlag(c) ==
    /\ client[c].pc = "flag"
    /\ stopFlag' = TRUE
    /\ Proceed(c, "mark")
    /\ UNCHANGED <<dbVars, checkpoint, worker, memory, taken, boundVars>>

CancelRunMark(c) ==
    /\ client[c].pc = "mark"
    /\ Mark("cancelled")
    /\ Reply(c)
    /\ UNCHANGED <<aliases, filed, checkpoint, worker, stopFlag, memory, taken, boundVars>>

-----------------------------------------------------------------------------
\* The graph, on the thread or inside a request

\* The stop flag is read after every update the thread's stream hands over, and
\* a request that invokes the graph never reads it.
FaultyStops(w) == FALSE
Stops(w) == w = "thread" /\ stopFlag

Advance(w, position, pc) ==
    worker' = [worker EXCEPT ![w].position = position, ![w].pc = pc]

\* A first run starts from its input. A Command goes on from what the saver holds,
\* and with nothing there the graph raises.
Load(w) ==
    /\ worker[w].pc = "load"
    /\ IF worker[w].answers = 0
       THEN /\ checkpoint' = [round |-> 1, at |-> "judging"]
            /\ Advance(w, checkpoint', "stream")
       ELSE /\ IF checkpoint = NoCheckpoint
               THEN At(w, "failing")
               ELSE Advance(w, checkpoint, "stream")
            /\ UNCHANGED checkpoint
    /\ UNCHANGED <<dbVars, stopFlag, memory, client, taken, boundVars>>

\* At the interrupt the Command's answers are recorded, if they are this round's:
\* with_answers refuses another round's, and revise_case raises. A graph that was
\* anywhere else when the Command came goes on without them.
TakeAnswers(w) ==
    /\ worker[w].pc = "stream"
    /\ worker[w].position.at = "interrupt"
    /\ LET r == worker[w].position.round
           next == [round |-> r + 1, at |-> IF worker[w].stop THEN "sealing" ELSE "judging"]
       IN  IF r # worker[w].answers
           THEN /\ At(w, "failing")
                /\ UNCHANGED <<checkpoint, taken>>
           ELSE /\ taken' = [taken EXCEPT ![r] = @ + 1]
                /\ IF Stops(w)
                   THEN At(w, "ended") /\ UNCHANGED checkpoint
                   ELSE Advance(w, next, "stream") /\ checkpoint' = next
    /\ UNCHANGED <<dbVars, stopFlag, memory, client, boundVars>>

FaultyMayAsk(r) == r <= LastRound
MayAsk(r) == r < LastRound

\* The nodes up to the record: the round is judged and either asks or seals. An
\* update reaches the thread before the superstep is checkpointed.
Judge(w) ==
    /\ worker[w].pc = "stream"
    /\ worker[w].position.at = "judging"
    /\ \E next \in {"recording", "sealing"} :
          /\ next = "recording" => MayAsk(worker[w].position.round)
          /\ IF Stops(w)
             THEN /\ At(w, "ended")
                  /\ UNCHANGED checkpoint
             ELSE /\ Advance(w, [worker[w].position EXCEPT !.at = next], "stream")
                  /\ checkpoint' = [worker[w].position EXCEPT !.at = next]
    /\ UNCHANGED <<dbVars, stopFlag, memory, client, taken, boundVars>>

\* Any node may raise, and one of the early ones says there is nothing to review.
Raise(w) ==
    /\ worker[w].pc = "stream"
    /\ worker[w].position.at # "interrupt"
    /\ At(w, "failing")
    /\ UNCHANGED <<dbVars, checkpoint, stopFlag, memory, client, taken, boundVars>>

Composed(position) ==
    IF position.at = "recording" THEN Waiting(position.round) ELSE Completed(position.round)

\* The record nodes. The thread binds what they filed; a request that invokes the
\* graph binds after it returned.
RecordReview(w) ==
    /\ worker[w].pc = "stream"
    /\ worker[w].position.at \in {"recording", "sealing"}
    /\ LET review == Composed(worker[w].position)
       IN  /\ filed' = filed \cup {review}
           /\ worker' = [worker EXCEPT ![w].review = review,
                                       ![w].pc = IF w = "thread" THEN "bind" ELSE "finish_step"]
    /\ UNCHANGED <<row, aliases, checkpoint, stopFlag, memory, client, taken, boundVars>>

BindUpdate(w) ==
    /\ worker[w].pc = "bind"
    /\ Bind(worker[w].review)
    /\ At(w, "check_stop")
    /\ UNCHANGED <<filed, checkpoint, stopFlag, memory, client, taken, boundVars>>

CheckStop(w) ==
    /\ worker[w].pc = "check_stop"
    /\ IF Stops(w) THEN At(w, "ended") ELSE At(w, "finish_step")
    /\ UNCHANGED <<dbVars, checkpoint, stopFlag, memory, client, taken, boundVars>>

\* The superstep is checkpointed and the stream ends, at the interrupt or the end.
FinishStep(w) ==
    /\ worker[w].pc = "finish_step"
    /\ checkpoint' = IF worker[w].position.at = "recording"
                     THEN [worker[w].position EXCEPT !.at = "interrupt"]
                     ELSE worker[w].position
    /\ At(w, IF w = "thread" THEN "ended" ELSE "bind_result")
    /\ UNCHANGED <<dbVars, stopFlag, memory, client, taken, boundVars>>

BindResult(w) ==
    /\ worker[w].pc = "bind_result"
    /\ Bind(worker[w].review)
    /\ At(w, "ended")
    /\ UNCHANGED <<filed, checkpoint, stopFlag, memory, client, taken, boundVars>>

\* _record_failure: the word on the row first, then a snapshot of what the graph's
\* state holds, unless it holds too little or there was nothing to review.
MarkFailed(w) ==
    /\ worker[w].pc = "failing"
    /\ Mark("failed")
    /\ \/ At(w, "raised")
       \/ checkpoint # NoCheckpoint /\ At(w, "record_failure")
    /\ UNCHANGED <<aliases, filed, checkpoint, stopFlag, memory, client, taken, boundVars>>

RecordFailure(w) ==
    /\ worker[w].pc = "record_failure"
    /\ filed' = filed \cup {Failed}
    /\ At(w, "bind_failure")
    /\ UNCHANGED <<row, aliases, checkpoint, stopFlag, memory, client, taken, boundVars>>

BindFailure(w) ==
    /\ worker[w].pc = "bind_failure"
    /\ Bind(Failed)
    /\ At(w, "raised")
    /\ UNCHANGED <<filed, checkpoint, stopFlag, memory, client, taken, boundVars>>

Release(w) ==
    /\ worker[w].pc \in {"ended", "raised"}
    /\ checkpoint' = Released
    /\ At(w, IF worker[w].pc = "ended" THEN "left" ELSE "left_by_error")
    /\ UNCHANGED <<dbVars, stopFlag, memory, client, taken, boundVars>>

\* ReviewRunner._run's end, or the answer to the request.
Leave(w) ==
    /\ worker[w].pc \in {"left", "left_by_error"}
    /\ worker' = [worker EXCEPT ![w] = IdleWorker]
    /\ IF w = "thread"
       THEN /\ memory' = IF worker[w].pc = "left_by_error" THEN "failed"
                         ELSE IF stopFlag THEN "cancelled" ELSE "finished"
            /\ UNCHANGED client
       ELSE /\ Reply(w)
            /\ UNCHANGED memory
    /\ UNCHANGED <<dbVars, checkpoint, stopFlag, taken, boundVars>>

-----------------------------------------------------------------------------
\* The process dies with its threads and its requests, and build_runtime
\* reconciles: what was running failed, and only waiting reviews keep checkpoints.
FaultyReconciled == row
Reconciled == IF Running THEN [row EXCEPT !.status = "failed"] ELSE row

Restart ==
    /\ restarts < MaxRestarts
    /\ restarts' = restarts + 1
    /\ row' = Reconciled
    /\ checkpoint' = IF row.status = "awaiting_answers" THEN checkpoint ELSE NoCheckpoint
    /\ worker' = [w \in Workers |-> IdleWorker]
    /\ client' = [c \in Clients |-> IdleClient]
    /\ stopFlag' = FALSE
    /\ memory' = "none"
    /\ UNCHANGED <<aliases, filed, taken, rushed, requests>>

NewRequest(c) ==
    \/ \E op \in {"start", "start_background"} : Start(c, op)
    \/ \E review \in filed :
          \/ \E op \in {"resume", "resume_background"}, stop \in BOOLEAN :
                RequestAnswer(c, op, review, stop)
          \/ RequestCancel(c, review)
          \/ Delete(c, review)
    \/ RequestCancelRun(c)

RequestStep(c) ==
    \/ CheckStatus(c)
    \/ CheckCurrent(c)
    \/ GetReview(c)
    \/ Resume(c)
    \/ LaunchThread(c)
    \/ LaunchInline(c)
    \/ CancelRecord(c)
    \/ CancelBind(c)
    \/ CancelRelease(c)
    \/ CancelRunFlag(c)
    \/ CancelRunMark(c)

WorkerStep(w) ==
    \/ Load(w)
    \/ TakeAnswers(w)
    \/ Judge(w)
    \/ Raise(w)
    \/ RecordReview(w)
    \/ BindUpdate(w)
    \/ CheckStop(w)
    \/ FinishStep(w)
    \/ BindResult(w)
    \/ MarkFailed(w)
    \/ RecordFailure(w)
    \/ BindFailure(w)
    \/ Release(w)
    \/ Leave(w)

Next ==
    \/ \E c \in Clients : NewRequest(c) \/ RequestStep(c)
    \/ \E w \in Workers : WorkerStep(w)
    \/ Restart

(***************************************************************************)
(* A thread that is working keeps working and a request that was received  *)
(* is handled. Nobody has to send one, and no restart has to come.         *)
(***************************************************************************)
Fairness ==
    /\ \A c \in Clients : WF_vars(RequestStep(c))
    /\ \A w \in Workers : WF_vars(WorkerStep(w))

Spec == Init /\ [][Next]_vars /\ Fairness

-----------------------------------------------------------------------------
\* Properties

\* The state is well typed.
TypeOK ==
    /\ row \in [status : {"none", "running", "awaiting_answers", "completed", "failed",
                          "cancelled"},
                current : Snapshots \cup {None}]
    /\ aliases \in SUBSET Snapshots
    /\ filed \in SUBSET Snapshots
    /\ checkpoint \in Positions \cup {NoCheckpoint}
    /\ \A w \in Workers :
          /\ worker[w].position \in Positions \cup {NoCheckpoint}
          /\ worker[w].answers \in 0..LastRound
          /\ worker[w].review \in Snapshots \cup {None}
    /\ stopFlag \in BOOLEAN
    /\ memory \in {"none", "running", "finished", "cancelled", "failed"}
    /\ \A c \in Clients : client[c].review \in Snapshots \cup {None}
    /\ taken \in [Rounds -> Nat]
    /\ rushed \in BOOLEAN

\* Nothing is working on the review and no request is being handled.
Quiet ==
    /\ \A w \in Workers : ~Alive(w)
    /\ \A c \in Clients : client[c] = IdleClient

\* A review that says it waits can be resumed, from its own round: nothing that was
\* refused, died or was started over takes its checkpoint (_release). A request
\* sent before run_state says the thread has ended can lose it.
WaitingReviewsAreResumable ==
    Quiet /\ ~rushed /\ row.status = "awaiting_answers" =>
        /\ checkpoint # NoCheckpoint
        /\ checkpoint.round = row.current.round

\* A review that completed or failed keeps no checkpoint, whoever brought it to
\* its end.
EndedReviewsKeepNoCheckpoint ==
    Quiet /\ row.status \in {"completed", "failed"} => checkpoint = NoCheckpoint

\* The answers of a round are recorded once, and on the round they were written
\* for: a retry, a second tab and a resume after a restart included.
\* Not run: the code does otherwise (README, disagreements that are not run).
AnswersAreTakenOnce == \A r \in Rounds : taken[r] <= 1

\* A review stopped while it waited is over: once its execution stands on the
\* cancelled snapshot it never moves off it and files no other (cancel's checks).
StoppedReviewsStayStopped ==
    [][row.current.status = "cancelled" =>
          row'.current = row.current /\ filed' \subseteq filed]_vars

\* A page of a round that was already answered stops nothing: what is cancelled is
\* the snapshot the execution stands on (cancel).
StalePagesStopNothing ==
    [][\A r \in Rounds : Cancelled(r) \in filed' \ filed => row.current = Waiting(r)]_vars

\* A run that begins to judge leaves "running" behind: it asks, ends, fails, is
\* stopped or is reconciled.
JudgingSettles ==
    \A w \in Workers : worker[w].pc \in {"load", "stream"} ~> ~Running

\* A thread that was asked to stop goes no further than the node in flight.
StoppedThreadsGoNoFurther ==
    [][stopFlag /\ worker["thread"].pc # "load" =>
          worker'["thread"].position \in {worker["thread"].position, NoCheckpoint}]_vars

\* persistence/executions.py:135: "`running` is only ever written by `begin` and
\* `resume`, and every way out of a run writes something else over it, so this is
\* 'not finished' rather than a guess at it."
RunningMeansUnfinished == Quiet => ~Running

\* workflow/runs.py:141: the run's status in memory says `cancelled` where somebody
\* asked it to stop, "and the two have to agree".
StoppedRunsReadCancelled ==
    Quiet /\ memory = "cancelled" => row.status = "cancelled"

=============================================================================

----------------------------- MODULE RelayPool -----------------------------
(***************************************************************************)
(* The bounded goroutine pool of internal/infra/runtime/gopool.go, which   *)
(* runs refunds, cache updates, logs and the batch updater.                *)
(*                                                                         *)
(* CtxGo starts a worker if needed, sends the task to a buffered channel   *)
(* (blocking while it is full), and looks again whether a worker is        *)
(* needed. Workers start lazily, up to a cap, and leave when they have     *)
(* been idle: the timer, the look at the channel and the decrement of the  *)
(* counter are separate steps, and only the counter is under the mutex.    *)
(* A task may itself call CtxGo: the refund's IncreaseUserQuota does, to   *)
(* update the Redis copy of the quota.                                     *)
(***************************************************************************)
EXTENDS Integers, Sequences, FiniteSets

CONSTANTS
  Tasks,        \* the tasks that may be submitted, each once
  Clients,      \* goroutines outside the pool
  Submits,      \* the task each client submits
  Nested,       \* tasks whose body submits another
  ChildOf,      \* the task each of them submits
  Endless,      \* tasks that never return (InitBatchUpdater)
  Workers,      \* places for workers: as many as maxWorkers
  QueueSize,    \* capacity of the channel
  IdleExits,    \* whether the run is long enough for idle timeouts
  NoTask

ASSUME PoolAssumption ==
  /\ IsFiniteSet(Tasks) /\ IsFiniteSet(Workers) /\ Workers # {}
  /\ Clients \cap Workers = {} /\ NoTask \notin Tasks
  /\ Submits \in [Clients -> Tasks]
  /\ Nested \subseteq Tasks /\ ChildOf \in [Nested -> Tasks]
  /\ QueueSize \in Nat \ {0} /\ IdleExits \in BOOLEAN
\* A task is submitted by one caller.
ASSUME CallerAssumption ==
  /\ \A c, d \in Clients : Submits[c] = Submits[d] => c = d
  /\ \A t, u \in Nested : ChildOf[t] = ChildOf[u] => t = u
  /\ \A c \in Clients, t \in Nested : Submits[c] # ChildOf[t]

Callers == Clients \cup Workers
MaxWorkers == Cardinality(Workers)

VARIABLES
  workers,    \* p.workers
  tasks,      \* p.tasks, the buffered channel
  inFlight,   \* p.inFlight, the WaitGroup
  call,       \* how far each caller is in CtxGo
  carries,    \* the task it submits
  mode,       \* where each worker goroutine is
  doing,      \* the task it runs
  submitted,  \* history: tasks handed to CtxGo
  finished,   \* history: tasks whose function has returned
  missed      \* history: an idle worker left while a task was under way

vars == <<workers, tasks, inFlight, call, carries, mode, doing, submitted, finished, missed>>

-----------------------------------------------------------------------------

Init ==
  /\ workers = 0 /\ tasks = <<>> /\ inFlight = 0
  /\ call = [a \in Callers |-> "out"]
  /\ carries = [a \in Callers |-> NoTask]
  /\ mode = [w \in Workers |-> "absent"]
  /\ doing = [w \in Workers |-> NoTask]
  /\ submitted = {} /\ finished = {} /\ missed = FALSE

\* A caller enters CtxGo with task t.
EnterCtxGo(a, t) ==
  /\ call[a] = "out" /\ t \notin submitted
  /\ call' = [call EXCEPT ![a] = "starting"]
  /\ carries' = [carries EXCEPT ![a] = t]
  /\ submitted' = submitted \cup {t}
  /\ inFlight' = inFlight + 1
  /\ UNCHANGED <<workers, tasks, mode, doing, finished, missed>>

ClientSubmits(c) == EnterCtxGo(c, Submits[c])

NestedSubmits(w) ==
  /\ mode[w] = "running" /\ doing[w] \in Nested
  /\ EnterCtxGo(w, ChildOf[doing[w]])

\* Mutant: the length is compared with <= .
WorkerNeeded_TooLazy == workers < MaxWorkers /\ ~(workers > 0 /\ Len(tasks) <= workers)

WorkerNeeded == workers < MaxWorkers /\ ~(workers > 0 /\ Len(tasks) < workers)

\* Mutant: the counter is not incremented for the new worker.
StartWorkerIfNeeded_Uncounted ==
  IF WorkerNeeded
  THEN \E w \in Workers : mode[w] = "absent" /\ mode' = [mode EXCEPT ![w] = "select"] /\ UNCHANGED workers
  ELSE UNCHANGED <<workers, mode>>

\* startWorkerIfNeeded, under the mutex.
StartWorkerIfNeeded ==
  IF WorkerNeeded
  THEN /\ workers' = workers + 1
       /\ \E w \in Workers : mode[w] = "absent" /\ mode' = [mode EXCEPT ![w] = "select"]
  ELSE UNCHANGED <<workers, mode>>

\* The two calls of CtxGo, before and after the send.
StartBefore(a) ==
  /\ call[a] = "starting"
  /\ StartWorkerIfNeeded
  /\ call' = [call EXCEPT ![a] = "sending"]
  /\ UNCHANGED <<tasks, inFlight, carries, doing, submitted, finished, missed>>

\* Mutant: CtxGo returns after the send.
StartAfter_Dropped(a) ==
  /\ call[a] = "sent"
  /\ call' = [call EXCEPT ![a] = "out"]
  /\ carries' = [carries EXCEPT ![a] = NoTask]
  /\ UNCHANGED <<workers, mode, tasks, inFlight, doing, submitted, finished, missed>>

StartAfter(a) ==
  /\ call[a] = "sent"
  /\ StartWorkerIfNeeded
  /\ call' = [call EXCEPT ![a] = "out"]
  /\ carries' = [carries EXCEPT ![a] = NoTask]
  /\ UNCHANGED <<tasks, inFlight, doing, submitted, finished, missed>>

\* Mutant: the channel is made one place short.
Send_OneShort(a) ==
  /\ call[a] = "sending" /\ Len(tasks) < QueueSize - 1
  /\ tasks' = Append(tasks, carries[a])
  /\ call' = [call EXCEPT ![a] = "sent"]
  /\ UNCHANGED <<workers, inFlight, carries, mode, doing, submitted, finished, missed>>

\* The send blocks while the channel is full.
Send(a) ==
  /\ call[a] = "sending" /\ Len(tasks) < QueueSize
  /\ tasks' = Append(tasks, carries[a])
  /\ call' = [call EXCEPT ![a] = "sent"]
  /\ UNCHANGED <<workers, inFlight, carries, mode, doing, submitted, finished, missed>>

-----------------------------------------------------------------------------
\* The worker's loop.

\* Mutant: the worker peeks at the task and leaves it in the channel.
Take_Peek(w) ==
  /\ mode[w] = "select" /\ tasks # <<>>
  /\ doing' = [doing EXCEPT ![w] = Head(tasks)]
  /\ mode' = [mode EXCEPT ![w] = "running"]
  /\ UNCHANGED <<workers, tasks, inFlight, call, carries, submitted, finished, missed>>

Take(w) ==
  /\ mode[w] = "select" /\ tasks # <<>>
  /\ doing' = [doing EXCEPT ![w] = Head(tasks)]
  /\ tasks' = Tail(tasks)
  /\ mode' = [mode EXCEPT ![w] = "running"]
  /\ UNCHANGED <<workers, inFlight, call, carries, submitted, finished, missed>>

\* Mutant: inFlight.Done is not deferred, so a panic skips it.
Finish_DoneSkipped(w) ==
  /\ mode[w] = "running" /\ call[w] = "out"
  /\ doing[w] \notin Endless
  /\ doing[w] \in Nested => ChildOf[doing[w]] \in submitted
  /\ finished' = finished \cup {doing[w]}
  /\ inFlight' \in {inFlight, inFlight - 1}
  /\ doing' = [doing EXCEPT ![w] = NoTask]
  /\ mode' = [mode EXCEPT ![w] = "select"]
  /\ UNCHANGED <<workers, tasks, call, carries, submitted, missed>>

\* The task's function returns or panics: runRelayTask recovers, and the
\* deferred inFlight.Done runs in both cases.
Finish(w) ==
  /\ mode[w] = "running" /\ call[w] = "out"
  /\ doing[w] \notin Endless
  /\ doing[w] \in Nested => ChildOf[doing[w]] \in submitted
  /\ finished' = finished \cup {doing[w]}
  /\ inFlight' = inFlight - 1
  /\ doing' = [doing EXCEPT ![w] = NoTask]
  /\ mode' = [mode EXCEPT ![w] = "select"]
  /\ UNCHANGED <<workers, tasks, call, carries, submitted, missed>>

\* The idle timer fires and the worker sees an empty channel; with tasks in
\* the channel the timer is reset and nothing changes.
IdleTimeout(w) ==
  /\ IdleExits /\ mode[w] = "select" /\ tasks = <<>>
  /\ mode' = [mode EXCEPT ![w] = "leaving"]
  /\ UNCHANGED <<workers, tasks, inFlight, call, carries, doing, submitted, finished, missed>>

\* Only then does it take the mutex, give up its place and return.
Leave(w) ==
  /\ mode[w] = "leaving"
  /\ workers' = workers - 1
  /\ missed' = (missed \/ submitted # finished)
  /\ mode' = [mode EXCEPT ![w] = "absent"]
  /\ UNCHANGED <<tasks, inFlight, call, carries, doing, submitted, finished>>

-----------------------------------------------------------------------------

Submission(a) == StartBefore(a) \/ StartAfter(a)

Terminated ==
  /\ \A c \in Clients : Submits[c] \in submitted
  /\ \A a \in Callers : call[a] = "out"
  /\ submitted \ finished \subseteq Endless /\ tasks = <<>>

Next ==
  \/ \E c \in Clients : ClientSubmits(c)
  \/ \E a \in Callers : Submission(a) \/ Send(a)
  \/ \E w \in Workers : NestedSubmits(w) \/ Take(w) \/ Finish(w) \/ IdleTimeout(w) \/ Leave(w)
  \/ Terminated /\ UNCHANGED vars

Spec == Init /\ [][Next]_vars

\* Goroutines that can run do run; tasks that can return do. The runtime
\* serves blocked senders in their order and chooses evenly between the ready
\* cases of a select, so a send and a take that are possible again and again
\* happen. No client has to submit, and no timer has to fire.
Fairness ==
  /\ \A a \in Callers : WF_vars(Submission(a)) /\ SF_vars(Send(a))
  /\ \A w \in Workers :
       /\ WF_vars(NestedSubmits(w)) /\ SF_vars(Take(w))
       /\ WF_vars(Finish(w)) /\ WF_vars(Leave(w))

FairSpec == Spec /\ Fairness

-----------------------------------------------------------------------------

Live == {w \in Workers : mode[w] # "absent"}
Queued == {tasks[i] : i \in 1..Len(tasks)}
Running == {w \in Workers : mode[w] = "running"}
\* Tasks that CtxGo has accepted and not put into the channel yet.
Carried == {carries[a] : a \in {b \in Callers : call[b] \in {"starting", "sending"}}}

TypeOK ==
  /\ workers \in Nat /\ inFlight \in Nat
  /\ tasks \in Seq(Tasks) /\ Len(tasks) <= QueueSize
  /\ call \in [Callers -> {"out", "starting", "sending", "sent"}]
  /\ carries \in [Callers -> Tasks \cup {NoTask}]
  /\ mode \in [Workers -> {"absent", "select", "running", "leaving"}]
  /\ doing \in [Workers -> Tasks \cup {NoTask}]
  /\ submitted \subseteq Tasks /\ finished \subseteq Tasks /\ missed \in BOOLEAN

\* p.workers is the number of worker goroutines at every moment, lazy starts
\* and idle exits included: never above the cap, and 0 only with none left.
WorkersCounted == workers = Cardinality(Live)

\* A submitted task is in exactly one place: with its submitter, in the
\* channel, with one worker, or finished. None is lost, none runs twice.
EachTaskOnce ==
  /\ submitted = Carried \cup Queued \cup {doing[w] : w \in Running} \cup finished
  /\ Carried \cap (Queued \cup finished) = {}
  /\ \A i, j \in 1..Len(tasks) : tasks[i] = tasks[j] => i = j
  /\ \A w \in Running :
       /\ doing[w] \notin Carried \cup Queued \cup finished
       /\ \A v \in Running : doing[v] = doing[w] => v = w
  /\ Queued \cap finished = {}

\* WaitRelayTasks returns (inFlight = 0) exactly when every task that was
\* submitted has finished (gopool.go:166).
WaitIsExact == inFlight = Cardinality(submitted \ finished)

\* Every submitted task comes to an end, but for those that never return.
EveryTaskRuns == \A t \in Tasks \ Endless : t \in submitted ~> t \in finished

\* A caller that waits for a place in a full channel.
Blocked(a) == call[a] = "sending" /\ Len(tasks) = QueueSize

\* Nobody is left to take what waits in the channel, although the pool may
\* have more workers: those that have not left run tasks that never return or
\* wait for a place themselves, and nobody else is in CtxGo to start one.
Abandoned ==
  /\ workers < MaxWorkers /\ tasks # <<>>
  /\ \A w \in Live : doing[w] \in Endless \/ Blocked(w)
  /\ \A c \in Clients : call[c] = "out" \/ Blocked(c)

\* Every submitted task comes to an end unless a free worker left while tasks
\* were under way: neither lazy starts, nor a full channel, nor a task that holds
\* its worker for ever, nor one that submits another, keeps it waiting.
TasksRunOrAreLeft == \A t \in Tasks \ Endless : t \in submitted ~> t \in finished \/ (missed /\ Abandoned)

\* A submission that finds the channel full waits and then goes through, with
\* the same exception, as long as there is a place for every submission that a
\* task makes: with fewer, all workers may wait in CtxGo for one of themselves.
SubmissionsReturn == \A a \in Callers : call[a] # "out" ~> call[a] = "out" \/ (missed /\ Abandoned)

\* Tasks left behind by the last idle workers run when anybody submits again:
\* they are not left a second time, unless a task comes to wait in a full
\* channel for a submission of its own.
NextSubmissionRevives ==
  \A t \in Tasks \ Endless :
    (t \in Queued /\ workers = 0 /\ \E a \in Callers : call[a] = "starting")
      ~> t \in finished \/ \E w \in Workers : Abandoned /\ Blocked(w)
=============================================================================

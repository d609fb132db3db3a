-------------------------- MODULE RelayPoolProofs --------------------------
(***************************************************************************)
(* The counters of the goroutine pool are exact and no task is lost or run *)
(* twice, for every number of callers, tasks and workers and every         *)
(* capacity of the channel, with idle exits and nested submissions.        *)
(***************************************************************************)
EXTENDS RelayPool, FiniteSetTheorems, TLAPS

Entering == {"starting", "sending"}

\* The types, but for the two counters being natural numbers.
Shape ==
  /\ tasks \in Seq(Tasks) /\ Len(tasks) <= QueueSize
  /\ call \in [Callers -> {"out", "starting", "sending", "sent"}]
  /\ carries \in [Callers -> Tasks \cup {NoTask}]
  /\ mode \in [Workers -> {"absent", "select", "running", "leaving"}]
  /\ doing \in [Workers -> Tasks \cup {NoTask}]
  /\ submitted \subseteq Tasks /\ finished \subseteq Tasks /\ missed \in BOOLEAN

\* What EachTaskOnce needs from one step to the next: a caller that has not
\* sent yet and a worker that runs have a task, and no two callers the same.
Places ==
  /\ \A a \in Callers : call[a] \in Entering => carries[a] \in submitted
  /\ \A a, b \in Callers :
       call[a] \in Entering /\ call[b] \in Entering /\ carries[a] = carries[b] => a = b
  /\ EachTaskOnce

PoolInv == Shape /\ Places /\ WorkersCounted /\ WaitIsExact

-----------------------------------------------------------------------------
\* The counter of the workers.

\* One more or one fewer goroutine changes the number of live ones by one.
LEMMA LiveGrows ==
  ASSUME Shape, NEW w \in Workers, mode[w] = "absent", mode' = [mode EXCEPT ![w] = "select"]
  PROVE  Cardinality(Live') = Cardinality(Live) + 1
<1>1. IsFiniteSet(Live) /\ w \notin Live
  BY PoolAssumption, FS_Subset DEF Live
<1>2. Live' = Live \cup {w}
  BY DEF Live, Shape
<1>. QED BY <1>1, <1>2, FS_AddElement

LEMMA LiveShrinks ==
  ASSUME Shape, NEW w \in Workers, mode[w] = "leaving", mode' = [mode EXCEPT ![w] = "absent"]
  PROVE  Cardinality(Live') = Cardinality(Live) - 1
<1>1. IsFiniteSet(Live) /\ w \in Live
  BY PoolAssumption, FS_Subset DEF Live
<1>2. Live' = Live \ {w}
  BY DEF Live, Shape
<1>. QED BY <1>1, <1>2, FS_RemoveElement

LEMMA LiveStays ==
  ASSUME Shape, NEW w \in Workers, mode[w] # "absent", NEW m, m # "absent",
         mode' = [mode EXCEPT ![w] = m]
  PROVE  Live' = Live
BY DEF Live, Shape

LEMMA NextWorkersCounted == Shape /\ WorkersCounted /\ [Next]_vars => WorkersCounted'
<1>. SUFFICES ASSUME Shape, WorkersCounted, [Next]_vars PROVE WorkersCounted'
  OBVIOUS
<1>1. CASE UNCHANGED <<workers, mode>>
  BY <1>1 DEF WorkersCounted, Live
<1>2. CASE StartWorkerIfNeeded
  BY <1>1, <1>2, LiveGrows DEF StartWorkerIfNeeded, WorkersCounted
<1>3. ASSUME NEW w \in Workers, Take(w) \/ Finish(w) \/ IdleTimeout(w) PROVE WorkersCounted'
  BY <1>3, LiveStays DEF Take, Finish, IdleTimeout, WorkersCounted
<1>4. ASSUME NEW w \in Workers, Leave(w) PROVE WorkersCounted'
  BY <1>4, LiveShrinks DEF Leave, WorkersCounted
<1>. QED BY <1>1, <1>2, <1>3, <1>4 DEF Next, Submission, StartBefore, StartAfter, Send,
           ClientSubmits, NestedSubmits, EnterCtxGo, vars

-----------------------------------------------------------------------------
\* The places of the tasks.

LEMMA QueuedAppend ==
  ASSUME tasks \in Seq(Tasks), NEW t, tasks' = Append(tasks, t)
  PROVE  Queued' = Queued \cup {t}
<1>1. Len(tasks') = Len(tasks) + 1 /\ tasks'[Len(tasks) + 1] = t
  OBVIOUS
<1>2. \A i \in 1..Len(tasks) : tasks'[i] = tasks[i]
  OBVIOUS
<1>. QED BY <1>1, <1>2 DEF Queued

LEMMA QueuedTail ==
  ASSUME tasks \in Seq(Tasks), tasks # <<>>, tasks' = Tail(tasks)
  PROVE  Queued = Queued' \cup {Head(tasks)}
<1>1. Len(tasks) \in Nat /\ Len(tasks) >= 1 /\ Len(tasks') = Len(tasks) - 1 /\ Head(tasks) = tasks[1]
  OBVIOUS
<1>2. \A i \in 1..Len(tasks') : tasks'[i] = tasks[i + 1] /\ i + 1 \in 1..Len(tasks)
  BY <1>1
<1>3. \A i \in 1..Len(tasks) : i = 1 \/ (i - 1 \in 1..Len(tasks') /\ tasks'[i - 1] = tasks[i])
  <2>1. SUFFICES ASSUME NEW i \in 1..Len(tasks), i # 1
                 PROVE  i - 1 \in 1..Len(tasks') /\ tasks'[i - 1] = tasks[i]
    OBVIOUS
  <2>2. i - 1 \in 1..Len(tasks')
    BY <1>1, <2>1
  <2>3. tasks'[i - 1] = tasks[(i - 1) + 1]
    BY <1>2, <2>2
  <2>. QED BY <2>2, <2>3
<1>4. 1 \in 1..Len(tasks)
  BY <1>1
<1>5. ASSUME NEW x \in Queued PROVE x \in Queued' \cup {Head(tasks)}
  <2>1. PICK i \in 1..Len(tasks) : x = tasks[i]
    BY DEF Queued
  <2>2. CASE i = 1
    BY <1>1, <2>1, <2>2
  <2>3. CASE i # 1
    BY <1>3, <2>1, <2>3 DEF Queued
  <2>. QED BY <2>2, <2>3
<1>6. Head(tasks) \in Queued
  BY <1>1, <1>4 DEF Queued
<1>7. ASSUME NEW x \in Queued' PROVE x \in Queued
  <2>1. PICK i \in 1..Len(tasks') : x = tasks'[i]
    BY DEF Queued
  <2>. QED BY <1>2, <2>1 DEF Queued
<1>. QED BY <1>5, <1>6, <1>7

\* The parts of EachTaskOnce and Places, as they are used below.
LEMMA EnterPlaces ==
  ASSUME Shape, Places, NEW a \in Callers, NEW t \in Tasks, EnterCtxGo(a, t) PROVE Places'
<1>1. /\ call' = [call EXCEPT ![a] = "starting"] /\ carries' = [carries EXCEPT ![a] = t]
      /\ call[a] = "out" /\ t \notin submitted /\ submitted' = submitted \cup {t}
      /\ call \in [Callers -> {"out", "starting", "sending", "sent"}]
      /\ carries \in [Callers -> Tasks \cup {NoTask}]
      /\ UNCHANGED <<tasks, mode, doing, finished>>
  BY DEF EnterCtxGo, Shape
<1>2. Carried' = Carried \cup {t}
  BY <1>1 DEF Carried
<1>3. Queued' = Queued /\ Running' = Running
  BY <1>1 DEF Queued, Running
<1>4. t \notin Queued /\ t \notin finished /\ \A w \in Running : doing[w] # t
  BY <1>1 DEF Places, EachTaskOnce
<1>5. \A b \in Callers : call'[b] \in Entering => carries'[b] \in submitted'
  BY <1>1 DEF Places
<1>6. \A b, c \in Callers :
        call'[b] \in Entering /\ call'[c] \in Entering /\ carries'[b] = carries'[c] => b = c
  BY <1>1 DEF Places
<1>7. EachTaskOnce'
  BY <1>1, <1>2, <1>3, <1>4 DEF Places, EachTaskOnce
<1>. QED BY <1>5, <1>6, <1>7 DEF Places

LEMMA StartPlaces ==
  ASSUME Shape, Places, NEW a \in Callers, Submission(a) PROVE Places'
<1>1. UNCHANGED <<tasks, doing, submitted, finished>>
  BY DEF Submission, StartBefore, StartAfter
<1>2. \A w \in Workers : mode'[w] = "running" <=> mode[w] = "running"
  BY DEF Submission, StartBefore, StartAfter, StartWorkerIfNeeded, Shape
<1>3. \A b \in Callers : /\ call'[b] \in Entering <=> call[b] \in Entering
                         /\ call[b] \in Entering => carries'[b] = carries[b]
  BY DEF Submission, StartBefore, StartAfter, Shape, Entering
<1>4. Queued' = Queued /\ Running' = Running
  BY <1>1, <1>2 DEF Queued, Running
<1>5. Carried' = Carried
  BY <1>3 DEF Carried, Entering
<1>6. EachTaskOnce'
  BY <1>1, <1>4, <1>5 DEF Places, EachTaskOnce
<1>. QED BY <1>1, <1>3, <1>6 DEF Places

LEMMA SendPlaces ==
  ASSUME Shape, Places, NEW a \in Callers, Send(a) PROVE Places'
<1>. DEFINE t == carries[a]
<1>1. /\ call[a] = "sending" /\ call' = [call EXCEPT ![a] = "sent"] /\ tasks' = Append(tasks, t)
      /\ call \in [Callers -> {"out", "starting", "sending", "sent"}] /\ tasks \in Seq(Tasks)
      /\ UNCHANGED <<carries, mode, doing, submitted, finished>>
  BY DEF Send, Shape
<1>2. t \in Carried /\ t \notin Queued /\ t \notin finished
  BY <1>1 DEF Carried, Places, EachTaskOnce
<1>3. Queued' = Queued \cup {t} /\ Running' = Running
  BY <1>1, QueuedAppend DEF Running
<1>4. Carried' = Carried \ {t}
  <2>1. \A b \in Callers : b # a /\ call[b] \in Entering => carries[b] # t
    BY <1>1 DEF Places, Entering
  <2>. QED BY <1>1, <2>1 DEF Carried, Entering
<1>5. \A b \in Callers : call'[b] \in Entering => call[b] \in Entering
  BY <1>1 DEF Entering
<1>6. \A i, j \in 1..Len(tasks') : tasks'[i] = tasks'[j] => i = j
  <2>1. Len(tasks') = Len(tasks) + 1 /\ tasks'[Len(tasks) + 1] = t /\ Len(tasks) \in Nat
    BY <1>1
  <2>2. \A i \in 1..Len(tasks) : tasks'[i] = tasks[i] /\ tasks[i] # t
    BY <1>1, <1>2 DEF Queued
  <2>3. \A i, j \in 1..Len(tasks) : tasks[i] = tasks[j] => i = j
    BY DEF Places, EachTaskOnce
  <2>4. \A i \in 1..Len(tasks') : i \in 1..Len(tasks) \/ i = Len(tasks) + 1
    BY <2>1
  <2>. QED BY <2>1, <2>2, <2>3, <2>4
<1>7. \A w \in Running : doing[w] # t
  BY <1>2 DEF Places, EachTaskOnce
<1>8. /\ submitted = Carried \cup Queued \cup {doing[w] : w \in Running} \cup finished
      /\ Carried \cap (Queued \cup finished) = {} /\ Queued \cap finished = {}
      /\ \A w \in Running :
           /\ doing[w] \notin Carried \cup Queued \cup finished
           /\ \A v \in Running : doing[v] = doing[w] => v = w
  BY DEF Places, EachTaskOnce
<1>9. submitted' = Carried' \cup Queued' \cup {doing'[w] : w \in Running'} \cup finished'
  BY <1>1, <1>2, <1>3, <1>4, <1>8
<1>10. EachTaskOnce'
  BY <1>1, <1>2, <1>3, <1>4, <1>6, <1>7, <1>8, <1>9 DEF EachTaskOnce
<1>. QED BY <1>1, <1>5, <1>10 DEF Places

LEMMA TakePlaces ==
  ASSUME Shape, Places, NEW w \in Workers, Take(w) PROVE Places'
<1>. DEFINE t == Head(tasks)
<1>1. /\ mode[w] = "select" /\ mode' = [mode EXCEPT ![w] = "running"] /\ tasks # <<>>
      /\ doing' = [doing EXCEPT ![w] = t] /\ tasks' = Tail(tasks) /\ tasks \in Seq(Tasks)
      /\ mode \in [Workers -> {"absent", "select", "running", "leaving"}]
      /\ doing \in [Workers -> Tasks \cup {NoTask}]
      /\ UNCHANGED <<call, carries, submitted, finished>>
  BY DEF Take, Shape
<1>2. Queued = Queued' \cup {t}
  BY <1>1, QueuedTail
<1>3. /\ Len(tasks) \in Nat /\ Len(tasks) >= 1 /\ Len(tasks') = Len(tasks) - 1 /\ t = tasks[1]
      /\ \A i \in 1..Len(tasks') : tasks'[i] = tasks[i + 1] /\ i + 1 \in 1..Len(tasks)
  <2>1. Len(tasks) \in Nat /\ Len(tasks) >= 1 /\ Len(tasks') = Len(tasks) - 1 /\ t = tasks[1]
    BY <1>1
  <2>. QED BY <1>1, <2>1
<1>4. \A i, j \in 1..Len(tasks) : tasks[i] = tasks[j] => i = j
  BY DEF Places, EachTaskOnce
<1>5. t \notin Queued'
  <2>1. SUFFICES ASSUME NEW i \in 1..Len(tasks'), tasks'[i] = t PROVE FALSE
    BY DEF Queued
  <2>2. tasks[i + 1] = tasks[1] /\ 1 \in 1..Len(tasks) /\ i + 1 # 1
    BY <1>3, <2>1
  <2>. QED BY <1>3, <1>4, <2>2
<1>6. \A i, j \in 1..Len(tasks') : tasks'[i] = tasks'[j] => i = j
  <2>1. SUFFICES ASSUME NEW i \in 1..Len(tasks'), NEW j \in 1..Len(tasks'), tasks'[i] = tasks'[j]
                 PROVE  i = j
    OBVIOUS
  <2>2. i + 1 = j + 1
    BY <1>3, <1>4, <2>1
  <2>. QED BY <2>2
<1>7. Running' = Running \cup {w} /\ w \notin Running /\ Carried' = Carried
  BY <1>1 DEF Running, Carried
<1>8. doing'[w] = t /\ \A v \in Running : doing'[v] = doing[v]
  BY <1>1, <1>7 DEF Running
<1>9. /\ submitted = Carried \cup Queued \cup {doing[v] : v \in Running} \cup finished
      /\ Carried \cap (Queued \cup finished) = {} /\ Queued \cap finished = {}
      /\ \A v \in Running :
           /\ doing[v] \notin Carried \cup Queued \cup finished
           /\ \A u \in Running : doing[u] = doing[v] => u = v
  BY DEF Places, EachTaskOnce
<1>10. {doing'[v] : v \in Running'} = {doing[v] : v \in Running} \cup {t}
  BY <1>7, <1>8
<1>11. submitted' = Carried' \cup Queued' \cup {doing'[v] : v \in Running'} \cup finished'
  BY <1>1, <1>2, <1>7, <1>9, <1>10
<1>12. EachTaskOnce'
  BY <1>1, <1>2, <1>5, <1>6, <1>7, <1>8, <1>9, <1>11 DEF EachTaskOnce
<1>. QED BY <1>1, <1>12 DEF Places

LEMMA FinishPlaces ==
  ASSUME Shape, Places, NEW w \in Workers, Finish(w) PROVE Places'
<1>. DEFINE t == doing[w]
<1>1. /\ mode[w] = "running" /\ mode' = [mode EXCEPT ![w] = "select"]
      /\ doing' = [doing EXCEPT ![w] = NoTask] /\ finished' = finished \cup {t}
      /\ mode \in [Workers -> {"absent", "select", "running", "leaving"}]
      /\ doing \in [Workers -> Tasks \cup {NoTask}]
      /\ UNCHANGED <<tasks, call, carries, submitted>>
  BY DEF Finish, Shape
<1>2. Running' = Running \ {w} /\ w \in Running /\ Carried' = Carried /\ Queued' = Queued
  BY <1>1 DEF Running, Carried, Queued
<1>3. \A v \in Running' : doing'[v] = doing[v]
  BY <1>1, <1>2
<1>4. /\ submitted = Carried \cup Queued \cup {doing[v] : v \in Running} \cup finished
      /\ Carried \cap (Queued \cup finished) = {} /\ Queued \cap finished = {}
      /\ \A i, j \in 1..Len(tasks) : tasks[i] = tasks[j] => i = j
      /\ \A v \in Running :
           /\ doing[v] \notin Carried \cup Queued \cup finished
           /\ \A u \in Running : doing[u] = doing[v] => u = v
  BY DEF Places, EachTaskOnce
<1>5. {doing[v] : v \in Running} = {doing'[v] : v \in Running'} \cup {t}
  BY <1>2, <1>3
<1>6. submitted' = Carried' \cup Queued' \cup {doing'[v] : v \in Running'} \cup finished'
  BY <1>1, <1>2, <1>4, <1>5
<1>7. EachTaskOnce'
  BY <1>1, <1>2, <1>3, <1>4, <1>6 DEF EachTaskOnce
<1>. QED BY <1>1, <1>7 DEF Places

LEMMA IdlePlaces ==
  ASSUME Shape, Places, NEW w \in Workers, IdleTimeout(w) \/ Leave(w) PROVE Places'
<1>1. UNCHANGED <<tasks, call, carries, doing, submitted, finished>>
  BY DEF IdleTimeout, Leave
<1>2. Running' = Running /\ Carried' = Carried /\ Queued' = Queued
  BY <1>1 DEF IdleTimeout, Leave, Running, Carried, Queued, Shape
<1>. QED BY <1>1, <1>2 DEF Places, EachTaskOnce

LEMMA NextPlaces == Shape /\ Places /\ [Next]_vars => Places'
<1>. SUFFICES ASSUME Shape, Places, [Next]_vars PROVE Places'
  OBVIOUS
<1>1. ASSUME NEW c \in Clients, ClientSubmits(c) PROVE Places'
  BY <1>1, PoolAssumption, EnterPlaces DEF ClientSubmits, Callers
<1>2. ASSUME NEW w \in Workers, NestedSubmits(w) PROVE Places'
  BY <1>2, PoolAssumption, EnterPlaces DEF NestedSubmits, Callers
<1>3. CASE UNCHANGED vars
  <2>1. Running' = Running /\ Carried' = Carried /\ Queued' = Queued
    BY <1>3 DEF vars, Running, Carried, Queued
  <2>. QED BY <1>3, <2>1 DEF vars, Places, EachTaskOnce
<1>. QED BY <1>1, <1>2, <1>3, StartPlaces, SendPlaces, TakePlaces, FinishPlaces, IdlePlaces DEF Next

-----------------------------------------------------------------------------
\* The types, and the WaitGroup.

LEMMA NextShape == Shape /\ Places /\ [Next]_vars => Shape'
<1>. SUFFICES ASSUME Shape, Places, [Next]_vars PROVE Shape'
  OBVIOUS
<1>1. ASSUME NEW a \in Callers, NEW t \in Tasks, EnterCtxGo(a, t) PROVE Shape'
  BY <1>1 DEF EnterCtxGo, Shape
<1>2. ASSUME NEW a \in Callers, Submission(a) PROVE Shape'
  BY <1>2 DEF Submission, StartBefore, StartAfter, StartWorkerIfNeeded, Shape
<1>3. ASSUME NEW a \in Callers, Send(a) PROVE Shape'
  <2>1. carries[a] \in Tasks
    BY <1>3 DEF Send, Shape, Places, Entering
  <2>2. tasks' \in Seq(Tasks) /\ Len(tasks') <= QueueSize
    BY <1>3, <2>1, PoolAssumption DEF Send, Shape
  <2>. QED BY <1>3, <2>2 DEF Send, Shape
<1>4. ASSUME NEW w \in Workers, Take(w) PROVE Shape'
  <2>1. /\ tasks' \in Seq(Tasks) /\ Head(tasks) \in Tasks
        /\ Len(tasks') = Len(tasks) - 1 /\ Len(tasks) \in Nat
    BY <1>4 DEF Take, Shape
  <2>2. Len(tasks') <= QueueSize
    BY <2>1, PoolAssumption DEF Shape
  <2>. QED BY <1>4, <2>1, <2>2 DEF Take, Shape
<1>5. ASSUME NEW w \in Workers, Finish(w) PROVE Shape'
  <2>1. doing[w] \in Tasks
    BY <1>5 DEF Finish, Shape, Places, EachTaskOnce, Running
  <2>. QED BY <1>5, <2>1 DEF Finish, Shape
<1>6. ASSUME NEW w \in Workers, IdleTimeout(w) \/ Leave(w) PROVE Shape'
  BY <1>6 DEF IdleTimeout, Leave, Shape
<1>7. CASE UNCHANGED vars
  BY <1>7 DEF vars, Shape
<1>8. \A c \in Clients : c \in Callers /\ Submits[c] \in Tasks
  BY PoolAssumption DEF Callers
<1>9. ASSUME NEW w \in Workers, NestedSubmits(w) PROVE Shape'
  BY <1>1, <1>9, PoolAssumption DEF NestedSubmits, Callers
<1>. QED BY <1>1, <1>2, <1>3, <1>4, <1>5, <1>6, <1>7, <1>8, <1>9 DEF Next, ClientSubmits

LEMMA NextWaitIsExact ==
  Shape /\ Places /\ WaitIsExact /\ [Next]_vars => WaitIsExact'
<1>. SUFFICES ASSUME Shape, Places, WaitIsExact, [Next]_vars PROVE WaitIsExact'
  OBVIOUS
<1>0. IsFiniteSet(submitted \ finished)
  BY PoolAssumption, FS_Subset DEF Shape
<1>1. CASE UNCHANGED <<inFlight, submitted, finished>>
  BY <1>1 DEF WaitIsExact
<1>2. ASSUME NEW a \in Callers, NEW t, EnterCtxGo(a, t) PROVE WaitIsExact'
  <2>1. t \notin submitted \ finished /\ t \notin finished
    BY <1>2 DEF EnterCtxGo, Places, EachTaskOnce
  <2>2. submitted' \ finished' = (submitted \ finished) \cup {t} /\ inFlight' = inFlight + 1
    BY <1>2, <2>1 DEF EnterCtxGo
  <2>. QED BY <1>0, <2>1, <2>2, FS_AddElement DEF WaitIsExact
<1>3. ASSUME NEW w \in Workers, Finish(w) PROVE WaitIsExact'
  <2>1. doing[w] \in submitted \ finished
    BY <1>3 DEF Finish, Places, EachTaskOnce, Running
  <2>2. submitted' \ finished' = (submitted \ finished) \ {doing[w]} /\ inFlight' = inFlight - 1
    BY <1>3 DEF Finish
  <2>. QED BY <1>0, <2>1, <2>2, FS_RemoveElement DEF WaitIsExact
<1>. QED BY <1>1, <1>2, <1>3 DEF Next, ClientSubmits, NestedSubmits, Submission, StartBefore,
           StartAfter, Send, Take, IdleTimeout, Leave, vars, Callers

LEMMA InitPoolInv == Init => PoolInv
<1>. SUFFICES ASSUME Init PROVE PoolInv
  OBVIOUS
<1>1. Shape
  <2>1. <<>> \in Seq(Tasks) /\ Len(<<>>) = 0 /\ 0 <= QueueSize
    BY PoolAssumption
  <2>2. tasks \in Seq(Tasks) /\ Len(tasks) <= QueueSize
    BY <2>1 DEF Init
  <2>. QED BY <2>2 DEF Init, Shape
<1>2. Carried = {} /\ Queued = {} /\ Running = {} /\ Live = {}
  BY DEF Init, Carried, Queued, Running, Live
<1>3. Cardinality({}) = 0
  BY FS_EmptySet
<1>4. WorkersCounted /\ WaitIsExact
  BY <1>2, <1>3 DEF Init, WorkersCounted, WaitIsExact
<1>5. Places
  BY <1>2 DEF Init, Places, EachTaskOnce, Entering
<1>. QED BY <1>1, <1>4, <1>5 DEF PoolInv

LEMMA PoolInductive == Spec => []PoolInv
<1>1. PoolInv /\ [Next]_vars => PoolInv'
  BY NextShape, NextPlaces, NextWorkersCounted, NextWaitIsExact DEF PoolInv
<1>. QED BY <1>1, InitPoolInv, PTL DEF Spec

\* Every state is well typed; in particular the WaitGroup never goes below
\* zero, which would panic (gopool.go:137).
THEOREM PoolTypeCorrect == Spec => []TypeOK
<1>1. ASSUME PoolInv PROVE TypeOK
  <2>1. IsFiniteSet(Live) /\ IsFiniteSet(submitted \ finished)
    BY <1>1, PoolAssumption, FS_Subset DEF PoolInv, Shape, Live
  <2>2. workers \in Nat /\ inFlight \in Nat
    BY <1>1, <2>1, FS_CardinalityType DEF PoolInv, WorkersCounted, WaitIsExact
  <2>. QED BY <1>1, <2>2 DEF PoolInv, Shape, TypeOK
<1>. QED BY <1>1, PoolInductive, PTL

\* p.workers is always the number of worker goroutines (gopool.go:105-124).
THEOREM WorkersAlwaysCounted == Spec => []WorkersCounted
<1>. QED BY PoolInductive, PTL DEF PoolInv

\* A submitted task is in exactly one place and runs at most once, whatever
\* leaves, blocks or panics (gopool.go:85-156).
THEOREM NoTaskLostOrRepeated == Spec => []EachTaskOnce
<1>. QED BY PoolInductive, PTL DEF PoolInv, Places

\* WaitRelayTasks returns exactly when nothing is under way (gopool.go:132-172).
THEOREM WaitAlwaysExact == Spec => []WaitIsExact
<1>. QED BY PoolInductive, PTL DEF PoolInv
=============================================================================

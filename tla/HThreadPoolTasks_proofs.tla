--------------------- MODULE HThreadPoolTasks_proofs ---------------------
(***************************************************************************)
(* What becomes of the tasks given to the thread pool: it implements       *)
(* TaskPool, wait() is a barrier, pause() is kept, and there are always    *)
(* threads enough, awake enough, for the queue.  The invariant is that of  *)
(* HThreadPool_proofs with what is known of each task, of each client      *)
(* inside wait() and of the number of threads.                             *)
(***************************************************************************)
EXTENDS HThreadPool_proofs

-----------------------------------------------------------------------------
(* The inductive invariant.                                                *)

\* A task is in one place: with the client that commits it, in the queue, with the
\* thread that runs it, or done.
OnePlace ==
    /\ \A i, j \in DOMAIN tasks : tasks[i] = tasks[j] => i = j
    /\ \A i \in DOMAIN tasks : tasks[i] \notin Running \cup done
    /\ \A w \in Workers : pc[w] = "run" => job[w] \in Tasks \ done
    /\ \A v, w \in Workers : pc[v] = "run" /\ pc[w] = "run" /\ job[v] = job[w] => v = w
    /\ \A c \in Clients : call[c].task # None => call[c].task \notin Committed
    /\ \A c, d \in Clients :
          call[c].task # None /\ call[c].task = call[d].task => c = d

\* What client c inside wait() has found out.
Reads   == {"idle_read", "cur_read"}
Waiting == {"empty", "compare"} \cup Reads
Found(c) ==
    /\ call[c].at = "empty" => call[c].until \subseteq Committed
    /\ call[c].at \in {"compare"} \cup Reads => call[c].until \subseteq Running \cup done
    /\ call[c].at \in Reads /\ ~call[c].moved => ThreadMutexFree
    /\ call[c].at = "idle_read" /\ ~call[c].moved
          => call[c].until \subseteq done \/ call[c].seen < cur_thread_num
    /\ call[c].at = "cur_read" /\ ~call[c].moved
          => call[c].until \subseteq done \/ call[c].seen = cur_thread_num
WaitState == \A c \in Clients : Found(c)

\* A thread that has started a task in the pause is not waiting for another.
EagerState == status = "PAUSE" => \A w \in eager : pc[w] \in {"run", "ran", "loop", "gate"}

USE DEF poolVars, counters, workerVars, queueVars, history

-----------------------------------------------------------------------------
(* Where each task is.                                                     *)

\* What the invariant says of a queue, whatever the clients and threads are.
LEMMA InQueue ==
    ASSUME TypeOK
    PROVE  /\ \A i \in DOMAIN tasks : tasks[i] \in Tasks /\ tasks[i] \in Queued
           /\ \A t \in Queued : \E i \in DOMAIN tasks : t = tasks[i]
           /\ DOMAIN tasks = 1..Len(tasks) /\ Len(tasks) \in Nat
BY DEF TypeOK, Queued

\* A step that moves no task.
LEMMA PlaceKept ==
    ASSUME OnePlace, UNCHANGED <<tasks, done, job>>,
           \A w \in Workers : pc'[w] = "run" <=> pc[w] = "run",
           \A d \in Clients : call'[d].task \in {call[d].task, None}
    PROVE  OnePlace' /\ Running' = Running
<1>1. Running' = Running BY DEF Running
<1>2. Committed' = Committed BY <1>1 DEF Committed, Queued
<1>3. (\A c \in Clients : call[c].task # None => call[c].task \notin Committed)'
  BY <1>2 DEF OnePlace
<1>4. (\A c, d \in Clients :
          call[c].task # None /\ call[c].task = call[d].task => c = d)'
  BY DEF OnePlace
<1>5. /\ (\A i, j \in DOMAIN tasks : tasks[i] = tasks[j] => i = j)'
      /\ (\A i \in DOMAIN tasks : tasks[i] \notin Running \cup done)'
  BY <1>1 DEF OnePlace
<1>6. /\ (\A w \in Workers : pc[w] = "run" => job[w] \in Tasks \ done)'
      /\ (\A v, w \in Workers :
              pc[v] = "run" /\ pc[w] = "run" /\ job[v] = job[w] => v = w)'
  BY DEF OnePlace
<1> QED BY <1>1, <1>3, <1>4, <1>5, <1>6 DEF OnePlace

\* The head of the queue goes to a thread.
LEMMA PlaceTaken ==
    ASSUME TypeOK, Jobs, OnePlace, NEW w \in Workers, Take(w)
    PROVE  /\ OnePlace'
           /\ Running' = Running \cup {Head(tasks)}
           /\ Head(tasks) \notin Running \cup done
<1>1. /\ tasks # <<>> /\ pc[w] \in {"lock", "expired"}
      /\ job' = [job EXCEPT ![w] = Head(tasks)] /\ tasks' = Tail(tasks)
      /\ pc' = [pc EXCEPT ![w] = "run"] /\ UNCHANGED <<call, done>>
  BY DEF Take, StartTask, Returned, Move
<1>2. /\ tasks \in Seq(Tasks) /\ pc \in [Workers -> WorkerPcs]
      /\ job \in [Workers -> Tasks \cup {None}] /\ done \subseteq Tasks
  BY DEF TypeOK
<1>3. PICK t : t = tasks[1] OBVIOUS
<1>4. Head(tasks) = t /\ 1 \in DOMAIN tasks /\ t \in Tasks BY <1>1, <1>2, <1>3
<1>5. /\ Len(tasks) \in Nat /\ DOMAIN tasks = 1..Len(tasks)
      /\ DOMAIN tasks' = 1..(Len(tasks) - 1)
      /\ \A i \in DOMAIN tasks' : i + 1 \in DOMAIN tasks /\ tasks'[i] = tasks[i + 1]
  BY <1>1, <1>2
<1>6. /\ job'[w] = t /\ pc'[w] = "run"
      /\ \A v \in Workers \ {w} : job'[v] = job[v] /\ pc'[v] = pc[v]
  BY <1>1, <1>2, <1>4
<1>7. t \notin Running \cup done BY <1>3, <1>4 DEF OnePlace
<1>8. Running' = Running \cup {t} BY <1>1, <1>6 DEF Running
<1>9. \A i \in DOMAIN tasks' : tasks'[i] # t
  <2>1. ASSUME NEW i \in DOMAIN tasks' PROVE tasks'[i] # t
    <3>1. i + 1 \in DOMAIN tasks /\ tasks'[i] = tasks[i + 1] /\ i + 1 # 1 BY <1>5
    <3> QED BY <1>3, <1>4, <3>1 DEF OnePlace
  <2> QED BY <2>1
<1>10. \A i, j \in DOMAIN tasks' : tasks'[i] = tasks'[j] => i = j
  <2>1. ASSUME NEW i \in DOMAIN tasks', NEW j \in DOMAIN tasks', tasks'[i] = tasks'[j]
        PROVE  i = j
    <3>1. i + 1 = j + 1 BY <1>5, <2>1 DEF OnePlace
    <3> QED BY <1>5, <3>1
  <2> QED BY <2>1
<1>11. \A i \in DOMAIN tasks' : tasks'[i] \notin Running' \cup done'
  BY <1>1, <1>5, <1>8, <1>9 DEF OnePlace
<1>12. \A v \in Workers : pc'[v] = "run" => job'[v] \in Tasks \ done'
  BY <1>1, <1>4, <1>6, <1>7 DEF OnePlace
<1>13. \A u, v \in Workers : pc'[u] = "run" /\ pc'[v] = "run" /\ job'[u] = job'[v] => u = v
  <2>1. \A v \in Workers \ {w} : pc'[v] = "run" => job'[v] # t BY <1>6, <1>7 DEF Running
  <2> QED BY <1>6, <2>1 DEF OnePlace
<1>14. Committed' \subseteq Committed
  <2>1. Queued' \subseteq Queued BY <1>5 DEF Queued
  <2>2. t \in Queued BY <1>3, <1>4 DEF Queued
  <2> QED BY <1>1, <1>8, <2>1, <2>2 DEF Committed
<1>15. /\ \A c \in Clients : call'[c].task # None => call'[c].task \notin Committed'
       /\ \A c, d \in Clients :
             call'[c].task # None /\ call'[c].task = call'[d].task => c = d
  BY <1>1, <1>14 DEF OnePlace
<1>16. OnePlace' BY <1>10, <1>11, <1>12, <1>13, <1>15 DEF OnePlace
<1> QED BY <1>4, <1>7, <1>8, <1>16

\* A thread ends its task.
LEMMA PlaceDone ==
    ASSUME TypeOK, Jobs, OnePlace, NEW w \in Workers, RunTask(w)
    PROVE  /\ OnePlace'
           /\ job[w] \in Running /\ Running' = Running \ {job[w]}
<1>1. /\ pc[w] = "run" /\ done' = done \cup {job[w]}
      /\ job' = [job EXCEPT ![w] = None] /\ pc' = [pc EXCEPT ![w] = "ran"]
      /\ UNCHANGED <<call, tasks>>
  BY DEF RunTask, Move
<1>2. /\ pc'[w] = "ran"
      /\ \A v \in Workers \ {w} : job'[v] = job[v] /\ pc'[v] = pc[v]
  BY <1>1 DEF TypeOK
<1>3. job[w] \in Running BY <1>1 DEF Running
<1>4. Running' = Running \ {job[w]}
  <2>1. \A v \in Workers \ {w} : pc[v] = "run" => job[v] # job[w] BY <1>1 DEF OnePlace
  <2> QED BY <1>1, <1>2, <2>1 DEF Running
<1>5. Committed' = Committed BY <1>1, <1>3, <1>4 DEF Committed, Queued
<1>6. \A v \in Workers : pc'[v] = "run" => job'[v] \in Tasks \ done'
  BY <1>1, <1>2 DEF OnePlace
<1>7. \A u, v \in Workers : pc'[u] = "run" /\ pc'[v] = "run" /\ job'[u] = job'[v] => u = v
  BY <1>2 DEF OnePlace
<1>8. \A i \in DOMAIN tasks' : tasks'[i] \notin Running' \cup done'
  BY <1>1, <1>3, <1>4 DEF OnePlace
<1> QED BY <1>1, <1>3, <1>4, <1>5, <1>6, <1>7, <1>8 DEF OnePlace

\* A client's task goes to the end of the queue.
LEMMA PlaceQueued ==
    ASSUME TypeOK, CreateState, Jobs, OnePlace, NEW c \in Clients, CommitPush(c)
    PROVE  /\ OnePlace' /\ Running' = Running
           /\ call[c].task \in Tasks \ Committed
<1>0. Typed BY DEF TypeOK, Typed
<1>1. /\ call[c].at = "push" /\ tasks' = Append(tasks, call[c].task)
      /\ UNCHANGED <<done, pc, job>>
  BY DEF CommitPush, At
<1>2. OnlyCall(c) /\ call'[c].task = None BY CommitPushEffect
<1>3. PICK t : t = call[c].task OBVIOUS
<1>4. t # None /\ t \in Tasks BY <1>0, <1>1, <1>3, FieldTypes DEF CreateState, Typed
<1>5. t \notin Committed BY <1>3, <1>4 DEF OnePlace
<1>6. Running' = Running BY <1>1 DEF Running
<1>7. /\ Len(tasks) \in Nat /\ DOMAIN tasks = 1..Len(tasks)
      /\ DOMAIN tasks' = 1..(Len(tasks) + 1)
      /\ \A i \in DOMAIN tasks : tasks'[i] = tasks[i]
      /\ tasks'[Len(tasks) + 1] = t
  BY <1>1, <1>3, <1>4 DEF TypeOK
<1>8. \A i \in DOMAIN tasks : tasks[i] # t BY <1>5 DEF Committed, Queued
<1>9. \A i, j \in DOMAIN tasks' : tasks'[i] = tasks'[j] => i = j
  <2>1. ASSUME NEW i \in DOMAIN tasks', NEW j \in DOMAIN tasks', tasks'[i] = tasks'[j]
        PROVE  i = j
    <3>1. CASE i \in DOMAIN tasks /\ j \in DOMAIN tasks BY <1>7, <2>1, <3>1 DEF OnePlace
    <3>2. CASE i \notin DOMAIN tasks /\ j \notin DOMAIN tasks BY <1>7, <3>2
    <3>3. CASE i \in DOMAIN tasks /\ j \notin DOMAIN tasks
      <4>1. j = Len(tasks) + 1 BY <1>7, <3>3
      <4> QED BY <1>7, <1>8, <2>1, <3>3, <4>1
    <3>4. CASE i \notin DOMAIN tasks /\ j \in DOMAIN tasks
      <4>1. i = Len(tasks) + 1 BY <1>7, <3>4
      <4> QED BY <1>7, <1>8, <2>1, <3>4, <4>1
    <3> QED BY <3>1, <3>2, <3>3, <3>4
  <2> QED BY <2>1
<1>10. \A i \in DOMAIN tasks' : tasks'[i] = t \/ \E k \in DOMAIN tasks : tasks'[i] = tasks[k]
  <2>1. ASSUME NEW i \in DOMAIN tasks', i \notin DOMAIN tasks PROVE tasks'[i] = t
    <3>1. i = Len(tasks) + 1 BY <1>7, <2>1
    <3> QED BY <1>7, <3>1
  <2> QED BY <1>7, <2>1
<1>11. \A i \in DOMAIN tasks' : tasks'[i] \notin Running' \cup done'
  BY <1>1, <1>5, <1>6, <1>10 DEF OnePlace, Committed
<1>12. Committed' \subseteq Committed \cup {t} BY <1>1, <1>6, <1>10 DEF Committed, Queued
<1>13. \A d \in Clients \ {c} : call'[d].task = call[d].task BY <1>2 DEF OnlyCall
<1>14. /\ \A d \in Clients : call'[d].task # None => call'[d].task \notin Committed'
       /\ \A b, d \in Clients :
             call'[b].task # None /\ call'[b].task = call'[d].task => b = d
  BY <1>2, <1>3, <1>12, <1>13 DEF OnePlace
<1>15. /\ \A w \in Workers : pc'[w] = "run" => job'[w] \in Tasks \ done'
       /\ \A v, w \in Workers :
             pc'[v] = "run" /\ pc'[w] = "run" /\ job'[v] = job'[w] => v = w
  BY <1>1 DEF OnePlace
<1>16. OnePlace' BY <1>9, <1>11, <1>14, <1>15 DEF OnePlace
<1> QED BY <1>3, <1>4, <1>5, <1>6, <1>16

\* The tasks the clients hold are theirs until they are queued.
OldTasks == \A d \in Clients : call'[d].task \in {call[d].task, None}
OldRuns  == \A w \in Workers : pc'[w] = "run" <=> pc[w] = "run"
Simulates == OnePlace' /\ [Promise!Next]_(Promise!vars)

\* Such a step is a stutter of TaskPool.
LEMMA PlaceStutters ==
    ASSUME OnePlace, UNCHANGED <<tasks, done, job>>, OldTasks, OldRuns
    PROVE  Simulates
BY PlaceKept DEF OldTasks, OldRuns, Simulates, Promise!vars

\* Each step queues a task, starts one, ends one or moves none.
LEMMA SimulationStep ==
    ASSUME TypeOK, CreateState, Jobs, OnePlace, [Next]_vars
    PROVE  Simulates
<1>0. Typed BY DEF TypeOK, Typed
<1> USE <1>0
<1>1. ASSUME NEW c \in Clients, StartTest(c) PROVE Simulates
  <2>1. UNCHANGED <<tasks, done, job>> BY <1>1 DEF StartTest
  <2>2. OldTasks BY <1>1, StartTestEffect, IdleFields DEF OnlyCall, KeepsTask, OldTasks
  <2>3. OldRuns BY <1>1 DEF StartTest, OldRuns
  <2> QED BY <2>1, <2>2, <2>3, PlaceStutters
<1>2. ASSUME NEW c \in Clients, StartRun(c) PROVE Simulates
  <2>1. UNCHANGED <<tasks, done, job>> BY <1>2 DEF StartRun
  <2>2. OldTasks BY <1>2, StartRunEffect, IdleFields DEF OnlyCall, KeepsTask, OldTasks
  <2>3. OldRuns BY <1>2 DEF StartRun, OldRuns
  <2> QED BY <2>1, <2>2, <2>3, PlaceStutters
<1>3. ASSUME NEW c \in Clients, CommitCheck(c) PROVE Simulates
  <2>1. UNCHANGED <<tasks, done, job>> BY <1>3 DEF CommitCheck
  <2>2. OldTasks BY <1>3, CommitCheckEffect, IdleFields DEF OnlyCall, KeepsTask, OldTasks
  <2>3. OldRuns BY <1>3 DEF CommitCheck, OldRuns
  <2> QED BY <2>1, <2>2, <2>3, PlaceStutters
<1>4. ASSUME NEW c \in Clients, CommitSize(c) PROVE Simulates
  <2>1. UNCHANGED <<tasks, done, job>> BY <1>4 DEF CommitSize
  <2>2. OldTasks BY <1>4, CommitSizeEffect, IdleFields DEF OnlyCall, KeepsTask, OldTasks
  <2>3. OldRuns BY <1>4 DEF CommitSize, OldRuns
  <2> QED BY <2>1, <2>2, <2>3, PlaceStutters
<1>4a. ASSUME NEW c \in Clients, CommitRoom(c) PROVE Simulates
  <2>1. UNCHANGED <<tasks, done, job>> BY <1>4a DEF CommitRoom
  <2>2. OldTasks BY <1>4a, CommitRoomEffect, IdleFields DEF OnlyCall, KeepsTask, OldTasks
  <2>3. OldRuns BY <1>4a DEF CommitRoom, OldRuns
  <2> QED BY <2>1, <2>2, <2>3, PlaceStutters
<1>5. ASSUME NEW c \in Clients, CreateDone(c) PROVE Simulates
  <2>1. UNCHANGED <<tasks, done, job>> BY <1>5 DEF CreateDone
  <2>2. OldTasks BY <1>5, CreateDoneEffect, IdleFields DEF OnlyCall, KeepsTask, OldTasks
  <2>3. OldRuns BY <1>5 DEF CreateDone, OldRuns
  <2> QED BY <2>1, <2>2, <2>3, PlaceStutters
<1>6. ASSUME NEW c \in Clients, CreateThread(c) PROVE Simulates
  <2>1. UNCHANGED <<tasks, done, job>> BY <1>6 DEF CreateThread
  <2>2. OldTasks BY <1>6, CreateThreadEffect, IdleFields DEF OnlyCall, KeepsTask, OldTasks
  <2>3. OldRuns BY <1>6, NewThreadMoves DEF OldRuns
  <2> QED BY <2>1, <2>2, <2>3, PlaceStutters
<1>7. ASSUME NEW c \in Clients, AddThread1(c) PROVE Simulates
  <2>1. UNCHANGED <<tasks, done, job>> BY <1>7 DEF AddThread1
  <2>2. OldTasks BY <1>7, AddThread1Effect DEF OnlyMoved, KeepsTask, OldTasks
  <2>3. OldRuns BY <1>7 DEF AddThread1, OldRuns
  <2> QED BY <2>1, <2>2, <2>3, PlaceStutters
<1>8. ASSUME NEW c \in Clients, AddThread2(c) PROVE Simulates
  <2>1. UNCHANGED <<tasks, done, job>> BY <1>8 DEF AddThread2
  <2>0. call[c].left > 0 BY <1>8 DEF AddThread2, At, CreateState
  <2>2. OldTasks BY <1>8, <2>0, AddThread2Effect DEF OnlyMoved, KeepsTask, OldTasks
  <2>3. OldRuns BY <1>8 DEF AddThread2, OldRuns
  <2> QED BY <2>1, <2>2, <2>3, PlaceStutters
<1>9. ASSUME NEW c \in Clients, CommitPush(c) PROVE Simulates
  <2>1. /\ OnePlace' /\ Running' = Running /\ call[c].task \in Tasks \ Committed
    BY <1>9, PlaceQueued
  <2>2. tasks' = Append(tasks, call[c].task) /\ done' = done BY <1>9 DEF CommitPush
  <2>3. ~Promise!Known(call[c].task) BY <2>1 DEF Promise!Known, Committed, Queued
  <2>4. Promise!Commit(call[c].task) BY <2>1, <2>2, <2>3 DEF Promise!Commit
  <2> QED BY <2>1, <2>4 DEF Simulates, Promise!Next
<1>10. ASSUME NEW c \in Clients, CommitNotify(c) PROVE Simulates
  <2>1. UNCHANGED <<tasks, done, job>> BY <1>10 DEF CommitNotify
  <2>2. OldTasks
    BY <1>10, CommitNotifyEffect, IdleFields DEF OnlyCall, KeepsTask, OldTasks
  <2>3. OldRuns BY <1>10 DEF CommitNotify, TypeOK, OldRuns
  <2> QED BY <2>1, <2>2, <2>3, PlaceStutters
<1>11. ASSUME NEW c \in Clients, StopNotify(c) PROVE Simulates
  <2>1. UNCHANGED <<tasks, done, job>> BY <1>11 DEF StopNotify
  <2>2. OldTasks BY <1>11, StopNotifyEffect, IdleFields DEF OnlyCall, KeepsTask, OldTasks
  <2>3. OldRuns BY <1>11 DEF StopNotify, TypeOK, OldRuns
  <2> QED BY <2>1, <2>2, <2>3, PlaceStutters
<1>12. ASSUME NEW c \in Clients, StopJoin(c) PROVE Simulates
  <2>1. UNCHANGED <<tasks, done, job>> BY <1>12 DEF StopJoin
  <2>2. OldTasks BY <1>12, StopJoinEffect, IdleFields DEF OnlyCall, KeepsTask, OldTasks
  <2>3. OldRuns BY <1>12 DEF StopJoin, TypeOK, OldRuns
  <2> QED BY <2>1, <2>2, <2>3, PlaceStutters
<1>13. ASSUME NEW c \in Clients, PauseSet(c) PROVE Simulates
  <2>1. UNCHANGED <<tasks, done, job>> BY <1>13 DEF PauseSet
  <2>2. OldTasks BY <1>13, PauseSetEffect, IdleFields DEF OnlyCall, KeepsTask, OldTasks
  <2>3. OldRuns BY <1>13 DEF PauseSet, OldRuns
  <2> QED BY <2>1, <2>2, <2>3, PlaceStutters
<1>14. ASSUME NEW c \in Clients, ResumeSet(c) PROVE Simulates
  <2>1. UNCHANGED <<tasks, done, job>> BY <1>14 DEF ResumeSet
  <2>2. OldTasks BY <1>14, ResumeSetEffect, IdleFields DEF OnlyCall, KeepsTask, OldTasks
  <2>3. OldRuns BY <1>14 DEF ResumeSet, OldRuns
  <2> QED BY <2>1, <2>2, <2>3, PlaceStutters
<1>15. ASSUME NEW c \in Clients, WaitStopped(c) PROVE Simulates
  <2>1. UNCHANGED <<tasks, done, job>> BY <1>15 DEF WaitStopped
  <2>2. OldTasks BY <1>15, WaitStoppedEffect, IdleFields DEF OnlyCall, KeepsTask, OldTasks
  <2>3. OldRuns BY <1>15 DEF WaitStopped, OldRuns
  <2> QED BY <2>1, <2>2, <2>3, PlaceStutters
<1>16. ASSUME NEW c \in Clients, WaitEmpty(c) PROVE Simulates
  <2>1. UNCHANGED <<tasks, done, job>> BY <1>16 DEF WaitEmpty
  <2>2. OldTasks BY <1>16, WaitEmptyEffect, IdleFields DEF OnlyCall, KeepsTask, OldTasks
  <2>3. OldRuns BY <1>16 DEF WaitEmpty, OldRuns
  <2> QED BY <2>1, <2>2, <2>3, PlaceStutters
<1>17. ASSUME NEW c \in Clients, WaitRead(c) PROVE Simulates
  <2>1. UNCHANGED <<tasks, done, job>> BY <1>17 DEF WaitRead
  <2>2. OldTasks BY <1>17, WaitReadEffect, IdleFields DEF OnlyCall, KeepsTask, OldTasks
  <2>3. OldRuns BY <1>17 DEF WaitRead, OldRuns
  <2> QED BY <2>1, <2>2, <2>3, PlaceStutters
<1>18. ASSUME NEW c \in Clients, WaitCompare(c) PROVE Simulates
  <2>1. UNCHANGED <<tasks, done, job>> BY <1>18 DEF WaitCompare
  <2>2. OldTasks BY <1>18, WaitCompareEffect, IdleFields DEF OnlyCall, KeepsTask, OldTasks
  <2>3. OldRuns BY <1>18 DEF WaitCompare, OldRuns
  <2> QED BY <2>1, <2>2, <2>3, PlaceStutters
<1>19. ASSUME NEW c \in Clients, StartCall(c) PROVE Simulates
  <2>1. UNCHANGED <<tasks, done, job>> BY <1>19 DEF StartCall
  <2>2. OldTasks BY <1>19, StartCallEffect, IdleFields DEF OnlyCall, KeepsTask, OldTasks
  <2>3. OldRuns BY <1>19 DEF StartCall, OldRuns
  <2> QED BY <2>1, <2>2, <2>3, PlaceStutters
<1>20. ASSUME NEW c \in Clients, StopCall(c) PROVE Simulates
  <2>1. UNCHANGED <<tasks, done, job>> BY <1>20 DEF StopCall
  <2>2. OldTasks BY <1>20, StopCallEffect, IdleFields DEF OnlyCall, KeepsTask, OldTasks
  <2>3. OldRuns BY <1>20 DEF StopCall, OldRuns
  <2> QED BY <2>1, <2>2, <2>3, PlaceStutters
<1>21. ASSUME NEW c \in Clients, PauseCall(c) PROVE Simulates
  <2>1. UNCHANGED <<tasks, done, job>> BY <1>21 DEF PauseCall
  <2>2. OldTasks BY <1>21, PauseCallEffect, IdleFields DEF OnlyCall, KeepsTask, OldTasks
  <2>3. OldRuns BY <1>21 DEF PauseCall, OldRuns
  <2> QED BY <2>1, <2>2, <2>3, PlaceStutters
<1>22. ASSUME NEW c \in Clients, ResumeCall(c) PROVE Simulates
  <2>1. UNCHANGED <<tasks, done, job>> BY <1>22 DEF ResumeCall
  <2>2. OldTasks BY <1>22, ResumeCallEffect, IdleFields DEF OnlyCall, KeepsTask, OldTasks
  <2>3. OldRuns BY <1>22 DEF ResumeCall, OldRuns
  <2> QED BY <2>1, <2>2, <2>3, PlaceStutters
<1>23. ASSUME NEW c \in Clients, WaitCall(c) PROVE Simulates
  <2>1. UNCHANGED <<tasks, done, job>> BY <1>23 DEF WaitCall
  <2>2. OldTasks BY <1>23, WaitCallEffect, IdleFields DEF OnlyCall, KeepsTask, OldTasks
  <2>3. OldRuns BY <1>23 DEF WaitCall, OldRuns
  <2> QED BY <2>1, <2>2, <2>3, PlaceStutters
<1>24. ASSUME NEW c \in Clients, NEW t \in Tasks, CommitCall(c, t) PROVE Simulates
  <2>1. /\ UNCHANGED <<tasks, done, job, pc>> /\ t \notin Committed
        /\ \A d \in Clients : call[d].task # t
    BY <1>24 DEF CommitCall
  <2>2. call'[c].task = t /\ \A d \in Clients \ {c} : call'[d].task = call[d].task
    BY <1>24, CommitCallEffect DEF OnlyCall
  <2>3. Running' = Running /\ Committed' = Committed
    BY <2>1 DEF Running, Committed, Queued
  <2>4. /\ \A d \in Clients : call'[d].task # None => call'[d].task \notin Committed'
        /\ \A b, d \in Clients :
              call'[b].task # None /\ call'[b].task = call'[d].task => b = d
    BY <2>1, <2>2, <2>3 DEF OnePlace
  <2>5. OnePlace' BY <2>1, <2>3, <2>4 DEF OnePlace
  <2> QED BY <2>1, <2>3, <2>5 DEF Simulates, Promise!vars
<1>25. ASSUME NEW w \in Workers, Loop(w) PROVE Simulates
  <2>1. UNCHANGED <<tasks, done, job>> BY <1>25 DEF Loop, Move
  <2>2. OldTasks BY <1>25 DEF Loop, Move, OldTasks
  <2>3. OldRuns BY <1>25 DEF Loop, Move, TypeOK, OldRuns
  <2> QED BY <2>1, <2>2, <2>3, PlaceStutters
<1>26. ASSUME NEW w \in Workers, Gate(w) PROVE Simulates
  <2>1. UNCHANGED <<tasks, done, job>> BY <1>26 DEF Gate, Move
  <2>2. OldTasks BY <1>26 DEF Gate, Move, OldTasks
  <2>3. OldRuns BY <1>26 DEF Gate, Move, TypeOK, OldRuns
  <2> QED BY <2>1, <2>2, <2>3, PlaceStutters
<1>27. ASSUME NEW w \in Workers, Block(w) PROVE Simulates
  <2>1. UNCHANGED <<tasks, done, job>> BY <1>27 DEF Block, Move
  <2>2. OldTasks BY <1>27 DEF Block, Move, OldTasks
  <2>3. OldRuns BY <1>27 DEF Block, Move, TypeOK, OldRuns
  <2> QED BY <2>1, <2>2, <2>3, PlaceStutters
<1>28. ASSUME NEW w \in Workers, Wait(w) PROVE Simulates
  <2>1. UNCHANGED <<tasks, done, job>> BY <1>28 DEF Wait, Move
  <2>2. OldTasks BY <1>28 DEF Wait, Move, OldTasks
  <2>3. OldRuns BY <1>28 DEF Wait, Move, TypeOK, OldRuns
  <2> QED BY <2>1, <2>2, <2>3, PlaceStutters
<1>29. ASSUME NEW w \in Workers, Exit(w) PROVE Simulates
  <2>1. UNCHANGED <<tasks, done, job>> BY <1>29 DEF Exit, Move
  <2>2. OldTasks BY <1>29 DEF Exit, Move, OldTasks
  <2>3. OldRuns BY <1>29 DEF Exit, Move, TypeOK, OldRuns
  <2> QED BY <2>1, <2>2, <2>3, PlaceStutters
<1>30. ASSUME NEW w \in Workers, Take(w) PROVE Simulates
  <2>1. /\ OnePlace' /\ Running' = Running \cup {Head(tasks)}
        /\ Head(tasks) \notin Running \cup done
    BY <1>30, PlaceTaken
  <2>2. tasks # <<>> /\ tasks' = Tail(tasks) /\ done' = done BY <1>30 DEF Take, StartTask
  <2>3. Promise!Begin BY <2>1, <2>2 DEF Promise!Begin
  <2> QED BY <2>1, <2>3 DEF Simulates, Promise!Next
<1>31. ASSUME NEW w \in Workers, Expire(w) PROVE Simulates
  <2>1. UNCHANGED <<tasks, done, job>> BY <1>31 DEF Expire, Decide, Returned, Move
  <2>2. OldTasks BY <1>31 DEF Expire, Decide, Returned, Move, OldTasks
  <2>3. OldRuns BY <1>31 DEF Expire, Decide, Returned, Move, TypeOK, OldRuns
  <2> QED BY <2>1, <2>2, <2>3, PlaceStutters
<1>32. ASSUME NEW w \in Workers, Timeout(w) PROVE Simulates
  <2>1. UNCHANGED <<tasks, done, job>> BY <1>32 DEF Timeout, Move
  <2>2. OldTasks BY <1>32 DEF Timeout, Move, OldTasks
  <2>3. OldRuns BY <1>32 DEF Timeout, Move, TypeOK, OldRuns
  <2> QED BY <2>1, <2>2, <2>3, PlaceStutters
<1>33. ASSUME NEW w \in Workers, DelThread1(w) PROVE Simulates
  <2>1. UNCHANGED <<tasks, done, job>> BY <1>33 DEF DelThread1, Move
  <2>2. OldTasks BY <1>33, DelThreadEffect DEF DelThread1, Move, OnlyMoved, OldTasks
  <2>3. OldRuns BY <1>33 DEF DelThread1, Move, TypeOK, OldRuns
  <2> QED BY <2>1, <2>2, <2>3, PlaceStutters
<1>34. ASSUME NEW w \in Workers, DelThread2(w) PROVE Simulates
  <2>1. UNCHANGED <<tasks, done, job>> BY <1>34 DEF DelThread2, LeaveList
  <2>2. OldTasks BY <1>34, DelThreadEffect DEF DelThread2, LeaveList, OnlyMoved, OldTasks
  <2>3. OldRuns BY <1>34 DEF DelThread2, LeaveList, TypeOK, OldRuns
  <2> QED BY <2>1, <2>2, <2>3, PlaceStutters
<1>35. ASSUME NEW w \in Workers, RunTask(w) PROVE Simulates
  <2>1. OnePlace' /\ job[w] \in Running /\ Running' = Running \ {job[w]}
    BY <1>35, PlaceDone
  <2>2. done' = done \cup {job[w]} /\ tasks' = tasks BY <1>35 DEF RunTask
  <2>3. job[w] \in Tasks BY <1>35 DEF RunTask, Jobs
  <2>4. Promise!End(job[w]) BY <2>1, <2>2 DEF Promise!End
  <2> QED BY <2>1, <2>3, <2>4 DEF Simulates, Promise!Next
<1>36. ASSUME NEW w \in Workers, BackToIdle(w) PROVE Simulates
  <2>1. UNCHANGED <<tasks, done, job>> BY <1>36 DEF BackToIdle, Move
  <2>2. OldTasks BY <1>36 DEF BackToIdle, Move, OldTasks
  <2>3. OldRuns BY <1>36 DEF BackToIdle, Move, TypeOK, OldRuns
  <2> QED BY <2>1, <2>2, <2>3, PlaceStutters
<1>37. CASE UNCHANGED vars
  <2>1. UNCHANGED <<tasks, done, job, call, pc>> BY <1>37 DEF vars
  <2>2. OldTasks /\ OldRuns BY <2>1 DEF OldTasks, OldRuns
  <2> QED BY <2>1, <2>2, PlaceStutters
<1> QED
  BY <1>1, <1>2, <1>3, <1>4, <1>4a, <1>5, <1>6, <1>7, <1>8, <1>9, <1>10, <1>11, <1>12,
     <1>13, <1>14, <1>15, <1>16, <1>17, <1>18, <1>19, <1>20, <1>21, <1>22, <1>23, <1>24,
     <1>25, <1>26, <1>27, <1>28, <1>29, <1>30, <1>31, <1>32, <1>33, <1>34, <1>35, <1>36,
     <1>37
     DEF Next, Proceed, Begin, Thread

-----------------------------------------------------------------------------
(* wait().                                                                 *)

\* No task is lost: those committed stay so, those started too, those done too.
NoneLost ==
    /\ Committed \subseteq Committed'
    /\ Running \cup done \subseteq (Running \cup done)'
    /\ done \subseteq done'

\* No step loses a task.
LEMMA NoTaskLost ==
    ASSUME TypeOK, CreateState, Jobs, OnePlace, [Next]_vars
    PROVE  NoneLost
<1>1. [Promise!Next]_(Promise!vars) BY SimulationStep DEF Simulates
<1>2. tasks \in Seq(Tasks) BY DEF TypeOK
<1>3. CASE UNCHANGED Promise!vars
  BY <1>3 DEF Promise!vars, NoneLost, Committed, Queued
<1>4. CASE Promise!Begin
  <2>1. /\ tasks # <<>> /\ tasks' = Tail(tasks) /\ Running' = Running \cup {Head(tasks)}
        /\ done' = done
    BY <1>4 DEF Promise!Begin
  <2>2. ASSUME NEW i \in DOMAIN tasks
        PROVE  tasks[i] = Head(tasks) \/ \E j \in DOMAIN tasks' : tasks[i] = tasks'[j]
    <3>1. CASE i = 1 BY <1>2, <2>1, <3>1
    <3>2. CASE i # 1
      <4>1. i - 1 \in DOMAIN tasks' /\ tasks[i] = tasks'[i - 1] BY <1>2, <2>1, <3>2
      <4> QED BY <4>1
    <3> QED BY <3>1, <3>2
  <2>3. Queued \subseteq Queued' \cup {Head(tasks)} BY <2>2 DEF Queued
  <2> QED BY <2>1, <2>3 DEF NoneLost, Committed
<1>5. CASE \E t \in Tasks : Promise!Commit(t)
  <2>1. PICK t \in Tasks : tasks' = Append(tasks, t) /\ UNCHANGED <<Running, done>>
    BY <1>5 DEF Promise!Commit
  <2>2. \A i \in DOMAIN tasks : i \in DOMAIN tasks' /\ tasks'[i] = tasks[i] BY <1>2, <2>1
  <2>3. Queued \subseteq Queued' BY <2>2 DEF Queued
  <2> QED BY <2>1, <2>3 DEF NoneLost, Committed
<1>6. CASE \E t \in Tasks : Promise!End(t)
  <2>1. PICK t \in Tasks : Running' = Running \ {t} /\ done' = done \cup {t} /\ tasks' = tasks
    BY <1>6 DEF Promise!End
  <2> QED BY <2>1 DEF NoneLost, Committed, Queued
<1> QED BY <1>1, <1>3, <1>4, <1>5, <1>6 DEF Promise!Next

\* While no thread is being added or removed, the counters differ by the busy threads.
LEMMA BusyCounted ==
    ASSUME TypeOK, CountersAgree, ThreadMutexFree
    PROVE  /\ cur_thread_num \in Int /\ idle_thread_num \in Int
           /\ Running # {} => idle_thread_num < cur_thread_num
<1>1. cur_thread_num \in Int /\ idle_thread_num \in Int BY DEF TypeOK
<1>2. Adding = {} /\ Removing = {} BY DEF ThreadMutexFree
<1>3. Cardinality(Adding) = 0 /\ Cardinality(Removing) = 0 BY <1>2, FS_EmptySet
<1>4. idle_thread_num = cur_thread_num - Cardinality(Busy)
          + Cardinality(Removing) - Cardinality(Adding)
  BY DEF CountersAgree, Busy
<1>5. Cardinality(Busy) \in Nat BY FiniteParts, FS_CardinalityType
<1>6. Running # {} => Busy # {} BY DEF Running, Busy
<1>7. Busy # {} => Cardinality(Busy) # 0 BY FiniteParts, FS_EmptySet
<1> QED BY <1>1, <1>3, <1>4, <1>5, <1>6, <1>7

\* What a client has found out stays true while it takes no step itself.
LEMMA FoundKept ==
    ASSUME NEW d \in Clients, Found(d), NoneLost,
           call'[d].at = call[d].at, call'[d].until = call[d].until,
           call'[d].seen = call[d].seen,
           call[d].at \in Reads =>
               \/ call'[d].moved
               \/ /\ call'[d].moved = call[d].moved
                  /\ cur_thread_num' = cur_thread_num
                  /\ ThreadMutexFree => ThreadMutexFree'
    PROVE  Found(d)'
BY DEF Found, NoneLost, Reads

\* A client that is not inside wait() has found out nothing.
LEMMA NotWaiting ==
    ASSUME NEW d \in Clients, call'[d].at \notin Waiting
    PROVE  Found(d)'
BY DEF Found, Waiting, Reads

\* A step of client c that adds no thread.
LEMMA OthersWait ==
    ASSUME WaitState, NoneLost, NEW c \in Clients, OnlyCall(c), call'[c].at # "add2",
           cur_thread_num' = cur_thread_num,
           \A w \in Workers : pc'[w] = "del2" => pc[w] = "del2"
    PROVE  /\ \A d \in Clients \ {c} : Found(d)'
           /\ ThreadMutexFree => ThreadMutexFree'
<1>1. ThreadMutexFree => ThreadMutexFree'
  BY DEF ThreadMutexFree, Adding, Removing, OnlyCall
<1>2. ASSUME NEW d \in Clients \ {c} PROVE Found(d)'
  <2>1. call'[d] = call[d] BY DEF OnlyCall
  <2> QED BY <1>1, <2>1, FoundKept DEF WaitState
<1> QED BY <1>1, <1>2

\* A step of a thread that neither counts it nor leaves.
LEMMA ThreadsWait ==
    ASSUME WaitState, NoneLost, UNCHANGED <<call, cur_thread_num>>,
           \A w \in Workers : pc'[w] = "del2" => pc[w] = "del2"
    PROVE  WaitState'
<1>1. ThreadMutexFree => ThreadMutexFree' BY DEF ThreadMutexFree, Adding, Removing
<1>2. ASSUME NEW d \in Clients PROVE Found(d)'
  BY <1>1, FoundKept DEF WaitState
<1> QED BY <1>2 DEF WaitState

\* A step that is noticed by those who compare.
LEMMA NoticedWait ==
    ASSUME WaitState, NoneLost, NEW S \in SUBSET Clients,
           \A d \in S : OnlyMoved(call[d], call'[d])
    PROVE  \A d \in S : Found(d)'
<1>1. ASSUME NEW d \in S PROVE Found(d)'
  <2>1. /\ call'[d].at = call[d].at /\ call'[d].until = call[d].until
        /\ call'[d].seen = call[d].seen
        /\ call[d].at \in Reads => call'[d].moved
    BY DEF OnlyMoved, Reads
  <2> QED BY <2>1, FoundKept DEF WaitState
<1> QED BY <1>1

\* What a client inside wait() has found out stays true.
LEMMA WaitStep ==
    ASSUME TypeOK, CreateState, Jobs, StopAlone, Listed, CountersAgree, OnePlace,
           WaitState, [Next]_vars
    PROVE  WaitState'
<1>0. Typed /\ NoneLost BY NoTaskLost DEF TypeOK, Typed
<1> USE <1>0
<1>1. ASSUME NEW c \in Clients, StartTest(c) PROVE WaitState'
  <2>1. OnlyCall(c) /\ call'[c].at \notin Waiting /\ call'[c].at # "add2"
    BY <1>1, StartTestEffect, IdleFields DEF Waiting, Reads
  <2>2. cur_thread_num' = cur_thread_num BY <1>1 DEF StartTest
  <2>3. \A w \in Workers : pc'[w] = "del2" => pc[w] = "del2"
    BY <1>1 DEF StartTest, TypeOK
  <2> QED BY <2>1, <2>2, <2>3, OthersWait, NotWaiting DEF WaitState
<1>2. ASSUME NEW c \in Clients, StartRun(c) PROVE WaitState'
  <2>1. OnlyCall(c) /\ call'[c].at \notin Waiting /\ call'[c].at # "add2"
    BY <1>2, StartRunEffect, IdleFields DEF Waiting, Reads
  <2>2. cur_thread_num' = cur_thread_num BY <1>2 DEF StartRun
  <2>3. \A w \in Workers : pc'[w] = "del2" => pc[w] = "del2"
    BY <1>2 DEF StartRun, TypeOK
  <2> QED BY <2>1, <2>2, <2>3, OthersWait, NotWaiting DEF WaitState
<1>3. ASSUME NEW c \in Clients, CommitCheck(c) PROVE WaitState'
  <2>1. OnlyCall(c) /\ call'[c].at \notin Waiting /\ call'[c].at # "add2"
    BY <1>3, CommitCheckEffect, IdleFields DEF Waiting, Reads
  <2>2. cur_thread_num' = cur_thread_num BY <1>3 DEF CommitCheck
  <2>3. \A w \in Workers : pc'[w] = "del2" => pc[w] = "del2"
    BY <1>3 DEF CommitCheck, TypeOK
  <2> QED BY <2>1, <2>2, <2>3, OthersWait, NotWaiting DEF WaitState
<1>4. ASSUME NEW c \in Clients, CommitSize(c) PROVE WaitState'
  <2>1. OnlyCall(c) /\ call'[c].at \notin Waiting /\ call'[c].at # "add2"
    BY <1>4, CommitSizeEffect, IdleFields DEF Waiting, Reads
  <2>2. cur_thread_num' = cur_thread_num BY <1>4 DEF CommitSize
  <2>3. \A w \in Workers : pc'[w] = "del2" => pc[w] = "del2"
    BY <1>4 DEF CommitSize, TypeOK
  <2> QED BY <2>1, <2>2, <2>3, OthersWait, NotWaiting DEF WaitState
<1>4a. ASSUME NEW c \in Clients, CommitRoom(c) PROVE WaitState'
  <2>1. OnlyCall(c) /\ call'[c].at \notin Waiting /\ call'[c].at # "add2"
    BY <1>4a, CommitRoomEffect, IdleFields DEF Waiting, Reads
  <2>2. cur_thread_num' = cur_thread_num BY <1>4a DEF CommitRoom
  <2>3. \A w \in Workers : pc'[w] = "del2" => pc[w] = "del2"
    BY <1>4a DEF CommitRoom, TypeOK
  <2> QED BY <2>1, <2>2, <2>3, OthersWait, NotWaiting DEF WaitState
<1>5. ASSUME NEW c \in Clients, CreateDone(c) PROVE WaitState'
  <2>1. OnlyCall(c) /\ call'[c].at \notin Waiting /\ call'[c].at # "add2"
    BY <1>5, CreateDoneEffect, IdleFields DEF Waiting, Reads
  <2>2. cur_thread_num' = cur_thread_num BY <1>5 DEF CreateDone
  <2>3. \A w \in Workers : pc'[w] = "del2" => pc[w] = "del2"
    BY <1>5 DEF CreateDone, TypeOK
  <2> QED BY <2>1, <2>2, <2>3, OthersWait, NotWaiting DEF WaitState
<1>6. ASSUME NEW c \in Clients, CreateThread(c) PROVE WaitState'
  <2>1. OnlyCall(c) /\ call'[c].at \notin Waiting /\ call'[c].at # "add2"
    BY <1>6, CreateThreadEffect, IdleFields DEF Waiting, Reads
  <2>2. cur_thread_num' = cur_thread_num BY <1>6 DEF CreateThread
  <2>3. \A w \in Workers : pc'[w] = "del2" => pc[w] = "del2" BY <1>6, NewThreadMoves
  <2> QED BY <2>1, <2>2, <2>3, OthersWait, NotWaiting DEF WaitState
<1>7. ASSUME NEW c \in Clients, AddThread1(c) PROVE WaitState'
  <2>1. /\ call'[c].at = "add2"
        /\ \A d \in Clients \ {c} : OnlyMoved(call[d], call'[d])
    BY <1>7, AddThread1Effect
  <2>2. call'[c].at \notin Waiting BY <2>1 DEF Waiting, Reads
  <2>3. \A d \in Clients \ {c} : Found(d)' BY <2>1, NoticedWait
  <2> QED BY <2>2, <2>3, NotWaiting DEF WaitState
<1>8. ASSUME NEW c \in Clients, AddThread2(c) PROVE WaitState'
  <2>0. call[c].left > 0 BY <1>8 DEF AddThread2, At, CreateState
  <2>1. /\ call'[c].at = "create"
        /\ \A d \in Clients \ {c} : OnlyMoved(call[d], call'[d])
    BY <1>8, <2>0, AddThread2Effect
  <2>2. call'[c].at \notin Waiting BY <2>1 DEF Waiting, Reads
  <2>3. \A d \in Clients \ {c} : Found(d)' BY <2>1, NoticedWait
  <2> QED BY <2>2, <2>3, NotWaiting DEF WaitState
<1>9. ASSUME NEW c \in Clients, CommitPush(c) PROVE WaitState'
  <2>1. OnlyCall(c) /\ call'[c].at \notin Waiting /\ call'[c].at # "add2"
    BY <1>9, CommitPushEffect, IdleFields DEF Waiting, Reads
  <2>2. cur_thread_num' = cur_thread_num BY <1>9 DEF CommitPush
  <2>3. \A w \in Workers : pc'[w] = "del2" => pc[w] = "del2"
    BY <1>9 DEF CommitPush, TypeOK
  <2> QED BY <2>1, <2>2, <2>3, OthersWait, NotWaiting DEF WaitState
<1>10. ASSUME NEW c \in Clients, CommitNotify(c) PROVE WaitState'
  <2>1. OnlyCall(c) /\ call'[c].at \notin Waiting /\ call'[c].at # "add2"
    BY <1>10, CommitNotifyEffect, IdleFields DEF Waiting, Reads
  <2>2. cur_thread_num' = cur_thread_num BY <1>10 DEF CommitNotify
  <2>3. \A w \in Workers : pc'[w] = "del2" => pc[w] = "del2"
    BY <1>10 DEF CommitNotify, TypeOK
  <2> QED BY <2>1, <2>2, <2>3, OthersWait, NotWaiting DEF WaitState
<1>11. ASSUME NEW c \in Clients, StopNotify(c) PROVE WaitState'
  <2>1. OnlyCall(c) /\ call'[c].at \notin Waiting /\ call'[c].at # "add2"
    BY <1>11, StopNotifyEffect, IdleFields DEF Waiting, Reads
  <2>2. cur_thread_num' = cur_thread_num BY <1>11 DEF StopNotify
  <2>3. \A w \in Workers : pc'[w] = "del2" => pc[w] = "del2"
    BY <1>11 DEF StopNotify, TypeOK
  <2> QED BY <2>1, <2>2, <2>3, OthersWait, NotWaiting DEF WaitState
<1>12. ASSUME NEW c \in Clients, StopJoin(c) PROVE WaitState'
  <2>1. /\ OnlyCall(c) /\ call'[c] = Idle /\ call[c].at = "join" /\ done' = done
        /\ \A w \in Workers : threads[w] # None => pc[w] = "exited"
    BY <1>12, StopJoinEffect DEF StopJoin, At
  <2>2. \A d \in Clients \ {c} : call[d].at \notin Structural BY <2>1 DEF StopAlone, Stops
  <2>3. \A w \in Workers : pc[w] \in {"none", "exited"}
    BY <2>1, <2>2 DEF Listed, Structural
  <2>4. Running = {} BY <2>3 DEF Running
  <2>5. Adding' = {} BY <2>1, <2>2, IdleFields DEF Adding, OnlyCall, Structural
  <2>6. \A w \in Workers : pc'[w] \in {"none", "exited"} BY <1>12, <2>3 DEF StopJoin
  <2>7. ThreadMutexFree' BY <2>5, <2>6 DEF ThreadMutexFree, Removing
  <2>8. ASSUME NEW d \in Clients \ {c} PROVE Found(d)'
    <3>1. Found(d) /\ call'[d] = call[d] BY <2>1 DEF OnlyCall, WaitState
    <3>2. call[d].at \in {"compare"} \cup Reads => call[d].until \subseteq done
      BY <2>4, <3>1 DEF Found
    <3> QED BY <2>1, <2>7, <3>1, <3>2 DEF Found, NoneLost, Reads
  <2>9. Found(c)' BY <2>1, IdleFields, NotWaiting DEF Waiting, Reads
  <2> QED BY <2>8, <2>9 DEF WaitState
<1>13. ASSUME NEW c \in Clients, PauseSet(c) PROVE WaitState'
  <2>1. OnlyCall(c) /\ call'[c].at \notin Waiting /\ call'[c].at # "add2"
    BY <1>13, PauseSetEffect, IdleFields DEF Waiting, Reads
  <2>2. cur_thread_num' = cur_thread_num BY <1>13 DEF PauseSet
  <2>3. \A w \in Workers : pc'[w] = "del2" => pc[w] = "del2"
    BY <1>13 DEF PauseSet, TypeOK
  <2> QED BY <2>1, <2>2, <2>3, OthersWait, NotWaiting DEF WaitState
<1>14. ASSUME NEW c \in Clients, ResumeSet(c) PROVE WaitState'
  <2>1. OnlyCall(c) /\ call'[c].at \notin Waiting /\ call'[c].at # "add2"
    BY <1>14, ResumeSetEffect, IdleFields DEF Waiting, Reads
  <2>2. cur_thread_num' = cur_thread_num BY <1>14 DEF ResumeSet
  <2>3. \A w \in Workers : pc'[w] = "del2" => pc[w] = "del2"
    BY <1>14 DEF ResumeSet, TypeOK
  <2> QED BY <2>1, <2>2, <2>3, OthersWait, NotWaiting DEF WaitState
<1>15. ASSUME NEW c \in Clients, WaitStopped(c) PROVE WaitState'
  <2>1. OnlyCall(c) /\ call'[c].at \notin Waiting /\ call'[c].at # "add2"
    BY <1>15, WaitStoppedEffect, IdleFields DEF Waiting, Reads
  <2>2. cur_thread_num' = cur_thread_num BY <1>15 DEF WaitStopped
  <2>3. \A w \in Workers : pc'[w] = "del2" => pc[w] = "del2"
    BY <1>15 DEF WaitStopped, TypeOK
  <2> QED BY <2>1, <2>2, <2>3, OthersWait, NotWaiting DEF WaitState
<1>16. ASSUME NEW c \in Clients, WaitEmpty(c) PROVE WaitState'
  <2>1. OnlyCall(c) /\ call'[c].at # "add2" BY <1>16, WaitEmptyEffect, IdleFields
  <2>2. UNCHANGED <<cur_thread_num, idle_thread_num, pc, tasks, job, done>>
    BY <1>16 DEF WaitEmpty
  <2>3. /\ \A d \in Clients \ {c} : Found(d)'
        /\ ThreadMutexFree => ThreadMutexFree'
    BY <2>1, <2>2, OthersWait
  <2>4. Running' = Running /\ Queued' = Queued /\ Committed' = Committed
    BY <2>2 DEF Running, Queued, Committed
  <2>5. Found(c) BY DEF WaitState
  <2>6. Found(c)'
    <3>1. /\ call[c].at = "empty" /\ call'[c].until = call[c].until
          /\ call'[c].at \in {"empty", "compare"}
          /\ call'[c].at = "compare" => tasks = <<>>
      BY <1>16, WaitEmptyEffect DEF WaitEmpty, At, KeepsWait
    <3>2. call[c].until \subseteq Committed BY <2>5, <3>1 DEF Found
    <3>3. tasks = <<>> => Committed = Running \cup done BY DEF Committed, Queued
    <3> QED BY <2>2, <2>4, <3>1, <3>2, <3>3 DEF Found, Reads
  <2> QED BY <2>3, <2>6 DEF WaitState
<1>17. ASSUME NEW c \in Clients, WaitRead(c) PROVE WaitState'
  <2>1. OnlyCall(c) /\ call'[c].at # "add2" BY <1>17, WaitReadEffect, IdleFields
  <2>2. UNCHANGED <<cur_thread_num, idle_thread_num, pc, tasks, job, done>>
    BY <1>17 DEF WaitRead
  <2>3. /\ \A d \in Clients \ {c} : Found(d)'
        /\ ThreadMutexFree => ThreadMutexFree'
    BY <2>1, <2>2, OthersWait
  <2>4. Running' = Running /\ Queued' = Queued /\ Committed' = Committed
    BY <2>2 DEF Running, Queued, Committed
  <2>5. Found(c) BY DEF WaitState
  <2>6. Found(c)'
    <3>1. /\ call[c].at = "compare" /\ call'[c].until = call[c].until
          /\ call'[c].moved = ~ThreadMutexFree
          /\ \/ call'[c].at = "idle_read" /\ call'[c].seen = idle_thread_num
             \/ call'[c].at = "cur_read" /\ call'[c].seen = cur_thread_num
      BY <1>17, WaitReadEffect DEF WaitRead, At
    <3>2. call'[c].until \subseteq Running' \cup done' BY <2>2, <2>4, <2>5, <3>1 DEF Found
    <3>3. ~call'[c].moved => ThreadMutexFree /\ ThreadMutexFree' BY <2>3, <3>1
    <3>4. ThreadMutexFree /\ Running # {} => idle_thread_num < cur_thread_num
      BY BusyCounted
    <3>5. Running = {} => call'[c].until \subseteq done' BY <2>4, <3>2
    <3>6. CASE call'[c].at = "idle_read" /\ call'[c].seen = idle_thread_num
      BY <2>2, <3>2, <3>3, <3>4, <3>5, <3>6 DEF Found, Reads
    <3>7. CASE call'[c].at = "cur_read" /\ call'[c].seen = cur_thread_num
      BY <2>2, <3>2, <3>3, <3>7 DEF Found, Reads
    <3> QED BY <3>1, <3>6, <3>7
  <2> QED BY <2>3, <2>6 DEF WaitState
<1>18. ASSUME NEW c \in Clients, WaitCompare(c) PROVE WaitState'
  <2>1. OnlyCall(c) /\ call'[c].at # "add2" BY <1>18, WaitCompareEffect, IdleFields
  <2>2. UNCHANGED <<cur_thread_num, idle_thread_num, pc, tasks, job, done>>
    BY <1>18 DEF WaitCompare
  <2>3. /\ \A d \in Clients \ {c} : Found(d)'
        /\ ThreadMutexFree => ThreadMutexFree'
    BY <2>1, <2>2, OthersWait
  <2>4. Running' = Running /\ Queued' = Queued /\ Committed' = Committed
    BY <2>2 DEF Running, Queued, Committed
  <2>5. Found(c) BY DEF WaitState
  <2>6. Found(c)'
    <3>1. CASE call'[c] = Idle BY <3>1, IdleFields, NotWaiting DEF Waiting, Reads
    <3>2. CASE call'[c].at = "empty" /\ call'[c].until = call[c].until
      <4>1. call[c].at \in Reads BY <1>18 DEF WaitCompare, Reads
      <4>2. call[c].until \subseteq Committed BY <2>5, <4>1 DEF Found, Committed
      <4> QED BY <2>4, <3>2, <4>2 DEF Found, Reads
    <3> QED BY <1>18, <3>1, <3>2, WaitCompareEffect
  <2> QED BY <2>3, <2>6 DEF WaitState
<1>19. ASSUME NEW c \in Clients, StartCall(c) PROVE WaitState'
  <2>1. OnlyCall(c) /\ call'[c].at \notin Waiting /\ call'[c].at # "add2"
    BY <1>19, StartCallEffect, IdleFields DEF Waiting, Reads
  <2>2. cur_thread_num' = cur_thread_num BY <1>19 DEF StartCall
  <2>3. \A w \in Workers : pc'[w] = "del2" => pc[w] = "del2"
    BY <1>19 DEF StartCall, TypeOK
  <2> QED BY <2>1, <2>2, <2>3, OthersWait, NotWaiting DEF WaitState
<1>20. ASSUME NEW c \in Clients, StopCall(c) PROVE WaitState'
  <2>1. OnlyCall(c) /\ call'[c].at \notin Waiting /\ call'[c].at # "add2"
    BY <1>20, StopCallEffect, IdleFields DEF Waiting, Reads
  <2>2. cur_thread_num' = cur_thread_num BY <1>20 DEF StopCall
  <2>3. \A w \in Workers : pc'[w] = "del2" => pc[w] = "del2"
    BY <1>20 DEF StopCall, TypeOK
  <2> QED BY <2>1, <2>2, <2>3, OthersWait, NotWaiting DEF WaitState
<1>21. ASSUME NEW c \in Clients, PauseCall(c) PROVE WaitState'
  <2>1. OnlyCall(c) /\ call'[c].at \notin Waiting /\ call'[c].at # "add2"
    BY <1>21, PauseCallEffect, IdleFields DEF Waiting, Reads
  <2>2. cur_thread_num' = cur_thread_num BY <1>21 DEF PauseCall
  <2>3. \A w \in Workers : pc'[w] = "del2" => pc[w] = "del2"
    BY <1>21 DEF PauseCall, TypeOK
  <2> QED BY <2>1, <2>2, <2>3, OthersWait, NotWaiting DEF WaitState
<1>22. ASSUME NEW c \in Clients, ResumeCall(c) PROVE WaitState'
  <2>1. OnlyCall(c) /\ call'[c].at \notin Waiting /\ call'[c].at # "add2"
    BY <1>22, ResumeCallEffect, IdleFields DEF Waiting, Reads
  <2>2. cur_thread_num' = cur_thread_num BY <1>22 DEF ResumeCall
  <2>3. \A w \in Workers : pc'[w] = "del2" => pc[w] = "del2"
    BY <1>22 DEF ResumeCall, TypeOK
  <2> QED BY <2>1, <2>2, <2>3, OthersWait, NotWaiting DEF WaitState
<1>23. ASSUME NEW c \in Clients, WaitCall(c) PROVE WaitState'
  <2>1. OnlyCall(c) /\ call'[c].at # "add2" BY <1>23, WaitCallEffect, IdleFields
  <2>2. UNCHANGED <<cur_thread_num, idle_thread_num, pc, tasks, job, done>>
    BY <1>23 DEF WaitCall
  <2>3. /\ \A d \in Clients \ {c} : Found(d)'
        /\ ThreadMutexFree => ThreadMutexFree'
    BY <2>1, <2>2, OthersWait
  <2>4. Running' = Running /\ Queued' = Queued /\ Committed' = Committed
    BY <2>2 DEF Running, Queued, Committed
  <2>5. Found(c) BY DEF WaitState
  <2>6. Found(c)'
    <3>1. call'[c].at = "empty" /\ call'[c].until = Committed BY <1>23, WaitCallEffect
    <3> QED BY <2>4, <3>1 DEF Found, Reads
  <2> QED BY <2>3, <2>6 DEF WaitState
<1>24. ASSUME NEW c \in Clients, NEW t \in Tasks, CommitCall(c, t) PROVE WaitState'
  <2>1. OnlyCall(c) /\ call'[c].at \notin Waiting /\ call'[c].at # "add2"
    BY <1>24, CommitCallEffect, IdleFields DEF Waiting, Reads
  <2>2. cur_thread_num' = cur_thread_num BY <1>24 DEF CommitCall
  <2>3. \A w \in Workers : pc'[w] = "del2" => pc[w] = "del2"
    BY <1>24 DEF CommitCall, TypeOK
  <2> QED BY <2>1, <2>2, <2>3, OthersWait, NotWaiting DEF WaitState
<1>25. ASSUME NEW w \in Workers, Loop(w) PROVE WaitState'
  <2>1. UNCHANGED <<call, cur_thread_num>> BY <1>25 DEF Loop, Move
  <2>2. \A v \in Workers : pc'[v] = "del2" => pc[v] = "del2"
    BY <1>25 DEF Loop, Move, TypeOK
  <2> QED BY <2>1, <2>2, ThreadsWait
<1>26. ASSUME NEW w \in Workers, Gate(w) PROVE WaitState'
  <2>1. UNCHANGED <<call, cur_thread_num>> BY <1>26 DEF Gate, Move
  <2>2. \A v \in Workers : pc'[v] = "del2" => pc[v] = "del2"
    BY <1>26 DEF Gate, Move, TypeOK
  <2> QED BY <2>1, <2>2, ThreadsWait
<1>27. ASSUME NEW w \in Workers, Block(w) PROVE WaitState'
  <2>1. UNCHANGED <<call, cur_thread_num>> BY <1>27 DEF Block, Move
  <2>2. \A v \in Workers : pc'[v] = "del2" => pc[v] = "del2"
    BY <1>27 DEF Block, Move, TypeOK
  <2> QED BY <2>1, <2>2, ThreadsWait
<1>28. ASSUME NEW w \in Workers, Wait(w) PROVE WaitState'
  <2>1. UNCHANGED <<call, cur_thread_num>> BY <1>28 DEF Wait, Move
  <2>2. \A v \in Workers : pc'[v] = "del2" => pc[v] = "del2"
    BY <1>28 DEF Wait, Move, TypeOK
  <2> QED BY <2>1, <2>2, ThreadsWait
<1>29. ASSUME NEW w \in Workers, Exit(w) PROVE WaitState'
  <2>1. UNCHANGED <<call, cur_thread_num>> BY <1>29 DEF Exit, Move
  <2>2. \A v \in Workers : pc'[v] = "del2" => pc[v] = "del2"
    BY <1>29 DEF Exit, Move, TypeOK
  <2> QED BY <2>1, <2>2, ThreadsWait
<1>30. ASSUME NEW w \in Workers, Take(w) PROVE WaitState'
  <2>1. UNCHANGED <<call, cur_thread_num>> BY <1>30 DEF Take, StartTask, Returned, Move
  <2>2. \A v \in Workers : pc'[v] = "del2" => pc[v] = "del2"
    BY <1>30 DEF Take, StartTask, Returned, Move, TypeOK
  <2> QED BY <2>1, <2>2, ThreadsWait
<1>31. ASSUME NEW w \in Workers, Expire(w) PROVE WaitState'
  <2>1. UNCHANGED <<call, cur_thread_num>> BY <1>31 DEF Expire, Decide, Returned, Move
  <2>2. \A v \in Workers : pc'[v] = "del2" => pc[v] = "del2"
    BY <1>31 DEF Expire, Decide, Returned, Move, TypeOK
  <2> QED BY <2>1, <2>2, ThreadsWait
<1>32. ASSUME NEW w \in Workers, Timeout(w) PROVE WaitState'
  <2>1. UNCHANGED <<call, cur_thread_num>> BY <1>32 DEF Timeout, Move
  <2>2. \A v \in Workers : pc'[v] = "del2" => pc[v] = "del2"
    BY <1>32 DEF Timeout, Move, TypeOK
  <2> QED BY <2>1, <2>2, ThreadsWait
<1>33. ASSUME NEW w \in Workers, DelThread1(w) PROVE WaitState'
  <2>1. \A d \in Clients : OnlyMoved(call[d], call'[d])
    BY <1>33, DelThreadEffect DEF DelThread1, Move
  <2> QED BY <2>1, NoticedWait DEF WaitState
<1>34. ASSUME NEW w \in Workers, DelThread2(w) PROVE WaitState'
  <2>1. \A d \in Clients : OnlyMoved(call[d], call'[d])
    BY <1>34, DelThreadEffect DEF DelThread2, LeaveList
  <2> QED BY <2>1, NoticedWait DEF WaitState
<1>35. ASSUME NEW w \in Workers, RunTask(w) PROVE WaitState'
  <2>1. UNCHANGED <<call, cur_thread_num>> BY <1>35 DEF RunTask, Move
  <2>2. \A v \in Workers : pc'[v] = "del2" => pc[v] = "del2"
    BY <1>35 DEF RunTask, Move, TypeOK
  <2> QED BY <2>1, <2>2, ThreadsWait
<1>36. ASSUME NEW w \in Workers, BackToIdle(w) PROVE WaitState'
  <2>1. UNCHANGED <<call, cur_thread_num>> BY <1>36 DEF BackToIdle, Move
  <2>2. \A v \in Workers : pc'[v] = "del2" => pc[v] = "del2"
    BY <1>36 DEF BackToIdle, Move, TypeOK
  <2> QED BY <2>1, <2>2, ThreadsWait
<1>37. CASE UNCHANGED vars
  <2>1. UNCHANGED <<call, cur_thread_num, pc>> BY <1>37 DEF vars
  <2> QED BY <2>1, ThreadsWait
<1> QED
  BY <1>1, <1>2, <1>3, <1>4, <1>4a, <1>5, <1>6, <1>7, <1>8, <1>9, <1>10, <1>11, <1>12,
     <1>13, <1>14, <1>15, <1>16, <1>17, <1>18, <1>19, <1>20, <1>21, <1>22, <1>23, <1>24,
     <1>25, <1>26, <1>27, <1>28, <1>29, <1>30, <1>31, <1>32, <1>33, <1>34, <1>35, <1>36,
     <1>37
     DEF Next, Proceed, Begin, Thread

\* How a wait() that has read the counters may return.
Barrier ==
    \A c \in Clients :
        call[c].at \in Reads /\ call'[c] = Idle => call[c].until \subseteq done \/ call[c].moved

\* A step in which no client leaves its comparison.
LEMMA StaysInWait ==
    ASSUME \A d \in Clients : call[d].at \notin Reads \/ call'[d].at = call[d].at
    PROVE  Barrier
BY IdleFields DEF Barrier, Reads

\* Only WaitCompare returns from the comparison.
LEMMA BarrierStep ==
    ASSUME TypeOK, CreateState, Jobs, CountersAgree, WaitState, [Next]_vars
    PROVE  Barrier
<1>0. Typed BY DEF TypeOK, Typed
<1> USE <1>0
<1>1. ASSUME NEW c \in Clients, StartTest(c) PROVE Barrier
  <2>1. call[c].at \notin Reads BY <1>1 DEF StartTest, At, Reads
  <2>2. \A d \in Clients \ {c} : call'[d].at = call[d].at
    BY <1>1, StartTestEffect DEF OnlyCall
  <2> QED BY <2>1, <2>2, StaysInWait
<1>2. ASSUME NEW c \in Clients, StartRun(c) PROVE Barrier
  <2>1. call[c].at \notin Reads BY <1>2 DEF StartRun, At, Reads
  <2>2. \A d \in Clients \ {c} : call'[d].at = call[d].at
    BY <1>2, StartRunEffect DEF OnlyCall
  <2> QED BY <2>1, <2>2, StaysInWait
<1>3. ASSUME NEW c \in Clients, CommitCheck(c) PROVE Barrier
  <2>1. call[c].at \notin Reads BY <1>3 DEF CommitCheck, At, Reads
  <2>2. \A d \in Clients \ {c} : call'[d].at = call[d].at
    BY <1>3, CommitCheckEffect DEF OnlyCall
  <2> QED BY <2>1, <2>2, StaysInWait
<1>4. ASSUME NEW c \in Clients, CommitSize(c) PROVE Barrier
  <2>1. call[c].at \notin Reads BY <1>4 DEF CommitSize, At, Reads
  <2>2. \A d \in Clients \ {c} : call'[d].at = call[d].at
    BY <1>4, CommitSizeEffect DEF OnlyCall
  <2> QED BY <2>1, <2>2, StaysInWait
<1>4a. ASSUME NEW c \in Clients, CommitRoom(c) PROVE Barrier
  <2>1. call[c].at \notin Reads BY <1>4a DEF CommitRoom, At, Reads
  <2>2. \A d \in Clients \ {c} : call'[d].at = call[d].at
    BY <1>4a, CommitRoomEffect DEF OnlyCall
  <2> QED BY <2>1, <2>2, StaysInWait
<1>5. ASSUME NEW c \in Clients, CreateDone(c) PROVE Barrier
  <2>1. call[c].at \notin Reads BY <1>5 DEF CreateDone, At, Reads
  <2>2. \A d \in Clients \ {c} : call'[d].at = call[d].at
    BY <1>5, CreateDoneEffect DEF OnlyCall
  <2> QED BY <2>1, <2>2, StaysInWait
<1>6. ASSUME NEW c \in Clients, CreateThread(c) PROVE Barrier
  <2>1. call[c].at \notin Reads BY <1>6 DEF CreateThread, At, Reads
  <2>2. \A d \in Clients \ {c} : call'[d].at = call[d].at
    BY <1>6, CreateThreadEffect DEF OnlyCall
  <2> QED BY <2>1, <2>2, StaysInWait
<1>7. ASSUME NEW c \in Clients, AddThread1(c) PROVE Barrier
  <2>1. call[c].at \notin Reads BY <1>7 DEF AddThread1, At, Reads
  <2>2. \A d \in Clients \ {c} : call'[d].at = call[d].at
    BY <1>7, AddThread1Effect DEF OnlyMoved
  <2> QED BY <2>1, <2>2, StaysInWait
<1>8. ASSUME NEW c \in Clients, AddThread2(c) PROVE Barrier
  <2>0. call[c].left > 0 BY <1>8 DEF AddThread2, At, CreateState
  <2>1. call[c].at \notin Reads BY <1>8 DEF AddThread2, At, Reads
  <2>2. \A d \in Clients \ {c} : call'[d].at = call[d].at
    BY <1>8, <2>0, AddThread2Effect DEF OnlyMoved
  <2> QED BY <2>1, <2>2, StaysInWait
<1>9. ASSUME NEW c \in Clients, CommitPush(c) PROVE Barrier
  <2>1. call[c].at \notin Reads BY <1>9 DEF CommitPush, At, Reads
  <2>2. \A d \in Clients \ {c} : call'[d].at = call[d].at
    BY <1>9, CommitPushEffect DEF OnlyCall
  <2> QED BY <2>1, <2>2, StaysInWait
<1>10. ASSUME NEW c \in Clients, CommitNotify(c) PROVE Barrier
  <2>1. call[c].at \notin Reads BY <1>10 DEF CommitNotify, At, Reads
  <2>2. \A d \in Clients \ {c} : call'[d].at = call[d].at
    BY <1>10, CommitNotifyEffect DEF OnlyCall
  <2> QED BY <2>1, <2>2, StaysInWait
<1>11. ASSUME NEW c \in Clients, StopNotify(c) PROVE Barrier
  <2>1. call[c].at \notin Reads BY <1>11 DEF StopNotify, At, Reads
  <2>2. \A d \in Clients \ {c} : call'[d].at = call[d].at
    BY <1>11, StopNotifyEffect DEF OnlyCall
  <2> QED BY <2>1, <2>2, StaysInWait
<1>12. ASSUME NEW c \in Clients, StopJoin(c) PROVE Barrier
  <2>1. call[c].at \notin Reads BY <1>12 DEF StopJoin, At, Reads
  <2>2. \A d \in Clients \ {c} : call'[d].at = call[d].at
    BY <1>12, StopJoinEffect DEF OnlyCall
  <2> QED BY <2>1, <2>2, StaysInWait
<1>13. ASSUME NEW c \in Clients, PauseSet(c) PROVE Barrier
  <2>1. call[c].at \notin Reads BY <1>13 DEF PauseSet, At, Reads
  <2>2. \A d \in Clients \ {c} : call'[d].at = call[d].at
    BY <1>13, PauseSetEffect DEF OnlyCall
  <2> QED BY <2>1, <2>2, StaysInWait
<1>14. ASSUME NEW c \in Clients, ResumeSet(c) PROVE Barrier
  <2>1. call[c].at \notin Reads BY <1>14 DEF ResumeSet, At, Reads
  <2>2. \A d \in Clients \ {c} : call'[d].at = call[d].at
    BY <1>14, ResumeSetEffect DEF OnlyCall
  <2> QED BY <2>1, <2>2, StaysInWait
<1>15. ASSUME NEW c \in Clients, WaitStopped(c) PROVE Barrier
  <2>1. call[c].at \notin Reads BY <1>15 DEF WaitStopped, At, Reads
  <2>2. \A d \in Clients \ {c} : call'[d].at = call[d].at
    BY <1>15, WaitStoppedEffect DEF OnlyCall
  <2> QED BY <2>1, <2>2, StaysInWait
<1>16. ASSUME NEW c \in Clients, WaitEmpty(c) PROVE Barrier
  <2>1. call[c].at \notin Reads BY <1>16 DEF WaitEmpty, At, Reads
  <2>2. \A d \in Clients \ {c} : call'[d].at = call[d].at
    BY <1>16, WaitEmptyEffect DEF OnlyCall
  <2> QED BY <2>1, <2>2, StaysInWait
<1>17. ASSUME NEW c \in Clients, WaitRead(c) PROVE Barrier
  <2>1. call[c].at \notin Reads BY <1>17 DEF WaitRead, At, Reads
  <2>2. \A d \in Clients \ {c} : call'[d].at = call[d].at
    BY <1>17, WaitReadEffect DEF OnlyCall
  <2> QED BY <2>1, <2>2, StaysInWait
<1>18. ASSUME NEW c \in Clients, WaitCompare(c) PROVE Barrier
  <2>1. \A d \in Clients \ {c} : call'[d] = call[d]
    BY <1>18, WaitCompareEffect DEF OnlyCall
  <2>2. \A d \in Clients \ {c} : call[d].at \in Reads => call'[d] # Idle
    BY <2>1, IdleFields DEF Reads
  <2>3. call'[c] = Idle =>
            call[c].seen = IF At(c, "idle_read") THEN cur_thread_num ELSE idle_thread_num
    <3>1. CASE Becomes(c, [call[c] EXCEPT !.at = "empty", !.seen = 0, !.moved = FALSE])
      <4>1. PICK zero \in Int : zero = 0 OBVIOUS
      <4>2. Becomes(c, [call[c] EXCEPT !.at = "empty", !.seen = zero, !.moved = FALSE])
        BY <3>1, <4>1
      <4>3. "empty" \in ClientAts BY DEF ClientAts
      <4>4. call'[c].at = "empty" BY <4>2, <4>3, AtSeenMoved
      <4> QED BY <4>4, IdleFields
    <3> QED BY <1>18, <3>1 DEF WaitCompare
  <2>4. Found(c) BY DEF WaitState
  <2>5. ThreadMutexFree /\ Running # {} => idle_thread_num < cur_thread_num BY BusyCounted
  <2>6. call[c].at \in Reads /\ call'[c] = Idle => call[c].until \subseteq done \/ call[c].moved
    <3>1. SUFFICES ASSUME call[c].at \in Reads, call'[c] = Idle, ~call[c].moved,
                          ~(call[c].until \subseteq done)
                   PROVE  FALSE
      OBVIOUS
    <3>2. Running # {} /\ ThreadMutexFree BY <2>4, <3>1 DEF Found
    <3>3. cur_thread_num \in Int /\ idle_thread_num \in Int BY DEF TypeOK
    <3>4. CASE call[c].at = "idle_read"
      BY <2>3, <2>4, <3>1, <3>3, <3>4 DEF Found, At
    <3>5. CASE call[c].at = "cur_read"
      BY <2>3, <2>4, <2>5, <3>1, <3>2, <3>3, <3>5 DEF Found, At
    <3> QED BY <3>1, <3>4, <3>5 DEF Reads
  <2> QED BY <2>2, <2>6 DEF Barrier
<1>19. ASSUME NEW c \in Clients, StartCall(c) PROVE Barrier
  <2>1. call[c].at \notin Reads BY <1>19 DEF StartCall, At, Reads
  <2>2. \A d \in Clients \ {c} : call'[d].at = call[d].at
    BY <1>19, StartCallEffect DEF OnlyCall
  <2> QED BY <2>1, <2>2, StaysInWait
<1>20. ASSUME NEW c \in Clients, StopCall(c) PROVE Barrier
  <2>1. call[c].at \notin Reads BY <1>20 DEF StopCall, At, Reads
  <2>2. \A d \in Clients \ {c} : call'[d].at = call[d].at
    BY <1>20, StopCallEffect DEF OnlyCall
  <2> QED BY <2>1, <2>2, StaysInWait
<1>21. ASSUME NEW c \in Clients, PauseCall(c) PROVE Barrier
  <2>1. call[c].at \notin Reads BY <1>21 DEF PauseCall, At, Reads
  <2>2. \A d \in Clients \ {c} : call'[d].at = call[d].at
    BY <1>21, PauseCallEffect DEF OnlyCall
  <2> QED BY <2>1, <2>2, StaysInWait
<1>22. ASSUME NEW c \in Clients, ResumeCall(c) PROVE Barrier
  <2>1. call[c].at \notin Reads BY <1>22 DEF ResumeCall, At, Reads
  <2>2. \A d \in Clients \ {c} : call'[d].at = call[d].at
    BY <1>22, ResumeCallEffect DEF OnlyCall
  <2> QED BY <2>1, <2>2, StaysInWait
<1>23. ASSUME NEW c \in Clients, WaitCall(c) PROVE Barrier
  <2>1. call[c].at \notin Reads BY <1>23 DEF WaitCall, At, Reads
  <2>2. \A d \in Clients \ {c} : call'[d].at = call[d].at
    BY <1>23, WaitCallEffect DEF OnlyCall
  <2> QED BY <2>1, <2>2, StaysInWait
<1>24. ASSUME NEW c \in Clients, NEW t \in Tasks, CommitCall(c, t) PROVE Barrier
  <2>1. call[c].at \notin Reads BY <1>24 DEF CommitCall, At, Reads
  <2>2. \A d \in Clients \ {c} : call'[d].at = call[d].at
    BY <1>24, CommitCallEffect DEF OnlyCall
  <2> QED BY <2>1, <2>2, StaysInWait
<1>25. ASSUME NEW w \in Workers, Loop(w) PROVE Barrier
  <2>1. call' = call BY <1>25 DEF Loop, Move
  <2> QED BY <2>1, StaysInWait
<1>26. ASSUME NEW w \in Workers, Gate(w) PROVE Barrier
  <2>1. call' = call BY <1>26 DEF Gate, Move
  <2> QED BY <2>1, StaysInWait
<1>27. ASSUME NEW w \in Workers, Block(w) PROVE Barrier
  <2>1. call' = call BY <1>27 DEF Block, Move
  <2> QED BY <2>1, StaysInWait
<1>28. ASSUME NEW w \in Workers, Wait(w) PROVE Barrier
  <2>1. call' = call BY <1>28 DEF Wait, Move
  <2> QED BY <2>1, StaysInWait
<1>29. ASSUME NEW w \in Workers, Exit(w) PROVE Barrier
  <2>1. call' = call BY <1>29 DEF Exit, Move
  <2> QED BY <2>1, StaysInWait
<1>30. ASSUME NEW w \in Workers, Take(w) PROVE Barrier
  <2>1. call' = call BY <1>30 DEF Take, StartTask, Returned, Move
  <2> QED BY <2>1, StaysInWait
<1>31. ASSUME NEW w \in Workers, Expire(w) PROVE Barrier
  <2>1. call' = call BY <1>31 DEF Expire, Decide, Returned, Move
  <2> QED BY <2>1, StaysInWait
<1>32. ASSUME NEW w \in Workers, Timeout(w) PROVE Barrier
  <2>1. call' = call BY <1>32 DEF Timeout, Move
  <2> QED BY <2>1, StaysInWait
<1>33. ASSUME NEW w \in Workers, DelThread1(w) PROVE Barrier
  <2>1. \A d \in Clients : call'[d].at = call[d].at
    BY <1>33, DelThreadEffect DEF DelThread1, Move, OnlyMoved
  <2> QED BY <2>1, StaysInWait
<1>34. ASSUME NEW w \in Workers, DelThread2(w) PROVE Barrier
  <2>1. \A d \in Clients : call'[d].at = call[d].at
    BY <1>34, DelThreadEffect DEF DelThread2, LeaveList, OnlyMoved
  <2> QED BY <2>1, StaysInWait
<1>35. ASSUME NEW w \in Workers, RunTask(w) PROVE Barrier
  <2>1. call' = call BY <1>35 DEF RunTask, Move
  <2> QED BY <2>1, StaysInWait
<1>36. ASSUME NEW w \in Workers, BackToIdle(w) PROVE Barrier
  <2>1. call' = call BY <1>36 DEF BackToIdle, Move
  <2> QED BY <2>1, StaysInWait
<1>37. CASE UNCHANGED vars
  <2>1. call' = call BY <1>37 DEF vars
  <2> QED BY <2>1, StaysInWait
<1> QED
  BY <1>1, <1>2, <1>3, <1>4, <1>4a, <1>5, <1>6, <1>7, <1>8, <1>9, <1>10, <1>11, <1>12,
     <1>13, <1>14, <1>15, <1>16, <1>17, <1>18, <1>19, <1>20, <1>21, <1>22, <1>23, <1>24,
     <1>25, <1>26, <1>27, <1>28, <1>29, <1>30, <1>31, <1>32, <1>33, <1>34, <1>35, <1>36,
     <1>37
     DEF Next, Proceed, Begin, Thread

-----------------------------------------------------------------------------
(* pause().                                                                *)

\* A step that starts no task and sends no thread that has had one back to waiting.
LEMMA EagerKept ==
    ASSUME EagerState, status' # "PAUSE" \/ eager' = {} \/ UNCHANGED <<status, eager>>,
           \A w \in Workers : pc[w] \in {"run", "ran", "loop", "gate"} /\ status' = "PAUSE"
               => pc'[w] \in {"run", "ran", "loop", "gate"},
           eager \subseteq Workers
    PROVE  EagerState'
BY DEF EagerState

\* A thread that has started a task in the pause stops at the gate.
LEMMA EagerStep ==
    ASSUME TypeOK, CreateState, Jobs, EagerState, [Next]_vars
    PROVE  EagerState'
<1>0. eager \subseteq Workers BY DEF TypeOK
<1> USE <1>0
<1>1. ASSUME NEW c \in Clients, StartTest(c) PROVE EagerState'
  BY <1>1, StartTestEffect, EagerKept DEF StartTest
<1>2. ASSUME NEW c \in Clients, StartRun(c) PROVE EagerState'
  BY <1>2, StartRunEffect, EagerKept DEF StartRun
<1>3. ASSUME NEW c \in Clients, CommitCheck(c) PROVE EagerState'
  BY <1>3, CommitCheckEffect, EagerKept DEF CommitCheck
<1>4. ASSUME NEW c \in Clients, CommitSize(c) PROVE EagerState'
  BY <1>4, CommitSizeEffect, EagerKept DEF CommitSize
<1>4a. ASSUME NEW c \in Clients, CommitRoom(c) PROVE EagerState'
  BY <1>4a, CommitRoomEffect, EagerKept DEF CommitRoom
<1>5. ASSUME NEW c \in Clients, CreateDone(c) PROVE EagerState'
  BY <1>5, CreateDoneEffect, EagerKept DEF CreateDone
<1>6. ASSUME NEW c \in Clients, CreateThread(c) PROVE EagerState'
  <2>1. UNCHANGED <<status, eager>> BY <1>6 DEF CreateThread
  <2>2. \A w \in Workers : pc'[w] = pc[w] \/ (pc[w] = "none" /\ pc'[w] = "loop")
    BY <1>6, NewThreadMoves
  <2> QED BY <2>1, <2>2, EagerKept
<1>7. ASSUME NEW c \in Clients, AddThread1(c) PROVE EagerState'
  BY <1>7, AddThread1Effect, EagerKept DEF AddThread1
<1>8. ASSUME NEW c \in Clients, AddThread2(c) PROVE EagerState'
  BY <1>8, AddThread2Effect, EagerKept DEF AddThread2
<1>9. ASSUME NEW c \in Clients, CommitPush(c) PROVE EagerState'
  BY <1>9, CommitPushEffect, EagerKept DEF CommitPush
<1>10. ASSUME NEW c \in Clients, CommitNotify(c) PROVE EagerState'
  BY <1>10, CommitNotifyEffect, EagerKept DEF CommitNotify, TypeOK
<1>11. ASSUME NEW c \in Clients, StopNotify(c) PROVE EagerState'
  BY <1>11, StopNotifyEffect, EagerKept DEF StopNotify, TypeOK
<1>12. ASSUME NEW c \in Clients, StopJoin(c) PROVE EagerState'
  BY <1>12, StopJoinEffect, EagerKept DEF StopJoin, TypeOK
<1>13. ASSUME NEW c \in Clients, PauseSet(c) PROVE EagerState'
  BY <1>13, PauseSetEffect, EagerKept DEF PauseSet
<1>14. ASSUME NEW c \in Clients, ResumeSet(c) PROVE EagerState'
  BY <1>14, ResumeSetEffect, EagerKept DEF ResumeSet
<1>15. ASSUME NEW c \in Clients, WaitStopped(c) PROVE EagerState'
  BY <1>15, WaitStoppedEffect, EagerKept DEF WaitStopped
<1>16. ASSUME NEW c \in Clients, WaitEmpty(c) PROVE EagerState'
  BY <1>16, WaitEmptyEffect, EagerKept DEF WaitEmpty
<1>17. ASSUME NEW c \in Clients, WaitRead(c) PROVE EagerState'
  BY <1>17, WaitReadEffect, EagerKept DEF WaitRead
<1>18. ASSUME NEW c \in Clients, WaitCompare(c) PROVE EagerState'
  BY <1>18, WaitCompareEffect, EagerKept DEF WaitCompare
<1>19. ASSUME NEW c \in Clients, StartCall(c) PROVE EagerState'
  BY <1>19, StartCallEffect, EagerKept DEF StartCall
<1>20. ASSUME NEW c \in Clients, StopCall(c) PROVE EagerState'
  BY <1>20, StopCallEffect, EagerKept DEF StopCall
<1>21. ASSUME NEW c \in Clients, PauseCall(c) PROVE EagerState'
  BY <1>21, PauseCallEffect, EagerKept DEF PauseCall
<1>22. ASSUME NEW c \in Clients, ResumeCall(c) PROVE EagerState'
  BY <1>22, ResumeCallEffect, EagerKept DEF ResumeCall
<1>23. ASSUME NEW c \in Clients, WaitCall(c) PROVE EagerState'
  BY <1>23, WaitCallEffect, EagerKept DEF WaitCall
<1>24. ASSUME NEW c \in Clients, NEW t \in Tasks, CommitCall(c, t) PROVE EagerState'
  BY <1>24, CommitCallEffect, EagerKept DEF CommitCall
<1>25. ASSUME NEW w \in Workers, Loop(w) PROVE EagerState'
  BY <1>25, EagerKept DEF Loop, Move, TypeOK
<1>26. ASSUME NEW w \in Workers, Gate(w) PROVE EagerState'
  BY <1>26, EagerKept DEF Gate, Move, TypeOK
<1>27. ASSUME NEW w \in Workers, Block(w) PROVE EagerState'
  BY <1>27, EagerKept DEF Block, Move, TypeOK
<1>28. ASSUME NEW w \in Workers, Wait(w) PROVE EagerState'
  BY <1>28, EagerKept DEF Wait, Move, TypeOK
<1>29. ASSUME NEW w \in Workers, Exit(w) PROVE EagerState'
  BY <1>29, EagerKept DEF Exit, Move, TypeOK
<1>30. ASSUME NEW w \in Workers, Take(w) PROVE EagerState'
  <2>1. /\ pc' = [pc EXCEPT ![w] = "run"] /\ status' = status
        /\ eager' = IF status = "PAUSE" THEN eager \cup {w} ELSE eager
    BY <1>30 DEF Take, StartTask, Move
  <2> QED BY <2>1 DEF EagerState, TypeOK
<1>31. ASSUME NEW w \in Workers, Expire(w) PROVE EagerState'
  BY <1>31, EagerKept DEF Expire, Decide, Returned, Move, TypeOK
<1>32. ASSUME NEW w \in Workers, Timeout(w) PROVE EagerState'
  BY <1>32, EagerKept DEF Timeout, Move, TypeOK
<1>33. ASSUME NEW w \in Workers, DelThread1(w) PROVE EagerState'
  BY <1>33, DelThreadEffect, EagerKept DEF DelThread1, Move, TypeOK
<1>34. ASSUME NEW w \in Workers, DelThread2(w) PROVE EagerState'
  BY <1>34, DelThreadEffect, EagerKept DEF DelThread2, LeaveList, TypeOK
<1>35. ASSUME NEW w \in Workers, RunTask(w) PROVE EagerState'
  BY <1>35, EagerKept DEF RunTask, Move, TypeOK
<1>36. ASSUME NEW w \in Workers, BackToIdle(w) PROVE EagerState'
  BY <1>36, EagerKept DEF BackToIdle, Move, TypeOK
<1>37. CASE UNCHANGED vars
  BY <1>37, EagerKept DEF vars
<1> QED
  BY <1>1, <1>2, <1>3, <1>4, <1>4a, <1>5, <1>6, <1>7, <1>8, <1>9, <1>10, <1>11, <1>12,
     <1>13, <1>14, <1>15, <1>16, <1>17, <1>18, <1>19, <1>20, <1>21, <1>22, <1>23, <1>24,
     <1>25, <1>26, <1>27, <1>28, <1>29, <1>30, <1>31, <1>32, <1>33, <1>34, <1>35, <1>36,
     <1>37
     DEF Next, Proceed, Begin, Thread

\* A thread that starts a task has been waiting for one.
Starts == \A w \in Workers :
             pc[w] # "run" /\ pc'[w] = "run" => pc[w] \in {"lock", "expired"}

\* Only a thread that waits for a task starts one.
LEMMA RunStarts ==
    ASSUME TypeOK, [Next]_vars
    PROVE  Starts
<1>1. ASSUME NEW c \in Clients, StartTest(c) PROVE Starts
  BY <1>1 DEF StartTest, Starts, TypeOK
<1>2. ASSUME NEW c \in Clients, StartRun(c) PROVE Starts
  BY <1>2 DEF StartRun, Starts, TypeOK
<1>3. ASSUME NEW c \in Clients, CommitCheck(c) PROVE Starts
  BY <1>3 DEF CommitCheck, Starts, TypeOK
<1>4. ASSUME NEW c \in Clients, CommitSize(c) PROVE Starts
  BY <1>4 DEF CommitSize, Starts, TypeOK
<1>4a. ASSUME NEW c \in Clients, CommitRoom(c) PROVE Starts
  BY <1>4a DEF CommitRoom, Starts, TypeOK
<1>5. ASSUME NEW c \in Clients, CreateDone(c) PROVE Starts
  BY <1>5 DEF CreateDone, Starts, TypeOK
<1>6. ASSUME NEW c \in Clients, CreateThread(c) PROVE Starts
  <2> QED BY <1>6, NewThreadMoves DEF Starts
<1>7. ASSUME NEW c \in Clients, AddThread1(c) PROVE Starts
  BY <1>7 DEF AddThread1, Starts, TypeOK
<1>8. ASSUME NEW c \in Clients, AddThread2(c) PROVE Starts
  BY <1>8 DEF AddThread2, Starts, TypeOK
<1>9. ASSUME NEW c \in Clients, CommitPush(c) PROVE Starts
  BY <1>9 DEF CommitPush, Starts, TypeOK
<1>10. ASSUME NEW c \in Clients, CommitNotify(c) PROVE Starts
  BY <1>10 DEF CommitNotify, Starts, TypeOK
<1>11. ASSUME NEW c \in Clients, StopNotify(c) PROVE Starts
  BY <1>11 DEF StopNotify, Starts, TypeOK
<1>12. ASSUME NEW c \in Clients, StopJoin(c) PROVE Starts
  BY <1>12 DEF StopJoin, Starts, TypeOK
<1>13. ASSUME NEW c \in Clients, PauseSet(c) PROVE Starts
  BY <1>13 DEF PauseSet, Starts, TypeOK
<1>14. ASSUME NEW c \in Clients, ResumeSet(c) PROVE Starts
  BY <1>14 DEF ResumeSet, Starts, TypeOK
<1>15. ASSUME NEW c \in Clients, WaitStopped(c) PROVE Starts
  BY <1>15 DEF WaitStopped, Starts, TypeOK
<1>16. ASSUME NEW c \in Clients, WaitEmpty(c) PROVE Starts
  BY <1>16 DEF WaitEmpty, Starts, TypeOK
<1>17. ASSUME NEW c \in Clients, WaitRead(c) PROVE Starts
  BY <1>17 DEF WaitRead, Starts, TypeOK
<1>18. ASSUME NEW c \in Clients, WaitCompare(c) PROVE Starts
  BY <1>18 DEF WaitCompare, Starts, TypeOK
<1>19. ASSUME NEW c \in Clients, StartCall(c) PROVE Starts
  BY <1>19 DEF StartCall, Starts, TypeOK
<1>20. ASSUME NEW c \in Clients, StopCall(c) PROVE Starts
  BY <1>20 DEF StopCall, Starts, TypeOK
<1>21. ASSUME NEW c \in Clients, PauseCall(c) PROVE Starts
  BY <1>21 DEF PauseCall, Starts, TypeOK
<1>22. ASSUME NEW c \in Clients, ResumeCall(c) PROVE Starts
  BY <1>22 DEF ResumeCall, Starts, TypeOK
<1>23. ASSUME NEW c \in Clients, WaitCall(c) PROVE Starts
  BY <1>23 DEF WaitCall, Starts, TypeOK
<1>24. ASSUME NEW c \in Clients, NEW t \in Tasks, CommitCall(c, t) PROVE Starts
  BY <1>24 DEF CommitCall, Starts, TypeOK
<1>25. ASSUME NEW w \in Workers, Loop(w) PROVE Starts
  BY <1>25 DEF Loop, Move, Starts, TypeOK
<1>26. ASSUME NEW w \in Workers, Gate(w) PROVE Starts
  BY <1>26 DEF Gate, Move, Starts, TypeOK
<1>27. ASSUME NEW w \in Workers, Block(w) PROVE Starts
  BY <1>27 DEF Block, Move, Starts, TypeOK
<1>28. ASSUME NEW w \in Workers, Wait(w) PROVE Starts
  BY <1>28 DEF Wait, Move, Starts, TypeOK
<1>29. ASSUME NEW w \in Workers, Exit(w) PROVE Starts
  BY <1>29 DEF Exit, Move, Starts, TypeOK
<1>30. ASSUME NEW w \in Workers, Take(w) PROVE Starts
  <2>1. pc' = [pc EXCEPT ![w] = "run"] BY <1>30 DEF Take, StartTask, Move
  <2>2. pc[w] \in {"lock", "expired"} BY <1>30 DEF Take, StartTask, Returned
  <2> QED BY <2>1, <2>2 DEF TypeOK, Starts
<1>31. ASSUME NEW w \in Workers, Expire(w) PROVE Starts
  BY <1>31 DEF Expire, Decide, Returned, Move, Starts, TypeOK
<1>32. ASSUME NEW w \in Workers, Timeout(w) PROVE Starts
  BY <1>32 DEF Timeout, Move, Starts, TypeOK
<1>33. ASSUME NEW w \in Workers, DelThread1(w) PROVE Starts
  BY <1>33 DEF DelThread1, Move, Starts, TypeOK
<1>34. ASSUME NEW w \in Workers, DelThread2(w) PROVE Starts
  BY <1>34 DEF DelThread2, LeaveList, Starts, TypeOK
<1>35. ASSUME NEW w \in Workers, RunTask(w) PROVE Starts
  BY <1>35 DEF RunTask, Move, Starts, TypeOK
<1>36. ASSUME NEW w \in Workers, BackToIdle(w) PROVE Starts
  BY <1>36 DEF BackToIdle, Move, Starts, TypeOK
<1>37. CASE UNCHANGED vars
  BY <1>37 DEF vars, Starts, TypeOK
<1> QED
  BY <1>1, <1>2, <1>3, <1>4, <1>4a, <1>5, <1>6, <1>7, <1>8, <1>9, <1>10, <1>11, <1>12,
     <1>13, <1>14, <1>15, <1>16, <1>17, <1>18, <1>19, <1>20, <1>21, <1>22, <1>23, <1>24,
     <1>25, <1>26, <1>27, <1>28, <1>29, <1>30, <1>31, <1>32, <1>33, <1>34, <1>35, <1>36,
     <1>37
     DEF Next, Proceed, Begin, Thread

-----------------------------------------------------------------------------
(* The theorems.                                                           *)

TaskInv == PoolInv /\ OnePlace /\ WaitState /\ EagerState

\* The invariant holds at the start ...
LEMMA InitTasks == Init => TaskInv
<1> SUFFICES ASSUME Init PROVE TaskInv OBVIOUS
<1>1. \A c \in Clients : call[c] = Idle BY DEF Init
<1>2. PoolInv BY InitPool
<1>3. OnePlace BY <1>1, IdleFields DEF Init, OnePlace, None
<1>4. WaitState BY <1>1, IdleFields DEF WaitState, Found, Reads
<1>5. EagerState BY DEF Init, EagerState
<1> QED BY <1>2, <1>3, <1>4, <1>5 DEF TaskInv

\* ... and is kept by every step, which is also one of TaskPool.
LEMMA NextTasks ==
    TaskInv /\ [Next]_vars => TaskInv' /\ [Promise!Next]_(Promise!vars) /\ Barrier /\ Starts
<1> SUFFICES ASSUME TaskInv, [Next]_vars
             PROVE  TaskInv' /\ [Promise!Next]_(Promise!vars) /\ Barrier /\ Starts
  OBVIOUS
<1> USE DEF TaskInv, PoolInv
<1>1. PoolInv' BY NextPool
<1>2. OnePlace' /\ [Promise!Next]_(Promise!vars) BY SimulationStep DEF Simulates
<1>3. WaitState' BY WaitStep
<1>4. EagerState' BY EagerStep
<1>5. Barrier /\ Starts BY BarrierStep, RunStarts
<1> QED BY <1>1, <1>2, <1>3, <1>4, <1>5

\* The invariant holds in every behaviour.
LEMMA TasksAreSound == Spec => []TaskInv
BY InitTasks, NextTasks, PTL DEF Spec

\* The pool implements TaskPool: each step of commit(), of the thread function and of
\* stop() queues one task at the end, starts the first, ends a running one, or leaves
\* them all where they are.
THEOREM TasksAreRunOnce == Spec => ImplementsTaskPool
<1>1. Init => Promise!Init
  <2> SUFFICES ASSUME Init PROVE Promise!Init OBVIOUS
  <2>1. tasks = <<>> /\ done = {} /\ \A w \in Workers : pc[w] = "none" BY DEF Init
  <2>2. Running = {} BY <2>1 DEF Running
  <2> QED BY <2>1, <2>2 DEF Promise!Init
<1>2. TaskInv /\ [Next]_vars => [Promise!Next]_(Promise!vars) BY NextTasks
<1> QED BY <1>1, <1>2, TasksAreSound, PTL DEF Spec, ImplementsTaskPool, Promise!Spec

\* wait() returns from its comparison only when the tasks committed before it are
\* done, unless a thread was counted in or out while it read the counters.
THEOREM WaitMayBeTrusted == Spec => WaitIsABarrier
<1>1. TaskInv /\ [Next]_vars =>
        [\A c \in Clients :
            call[c].at \in {"idle_read", "cur_read"} /\ call'[c] = Idle =>
                call[c].until \subseteq done \/ call[c].moved]_vars
  BY NextTasks DEF Barrier, Reads
<1> QED BY <1>1, TasksAreSound, PTL DEF Spec, WaitIsABarrier

\* In a pause each thread starts at most one task.
THEOREM PauseIsKept == Spec => PausePromise
<1>1. TaskInv /\ [Next]_vars =>
        [\A w \in Workers :
            status = "PAUSE" /\ pc[w] # "run" /\ pc'[w] = "run" => w \notin eager]_vars
  BY NextTasks DEF TaskInv, EagerState, Starts
<1> QED BY <1>1, TasksAreSound, PTL DEF Spec, PausePromise

-----------------------------------------------------------------------------
(* There are always threads enough.                                        *)

\* The clients past start()'s test are in a pool that is not stopped.
UpAts == {"check", "size", "room", "create", "add1", "add2", "push", "notify"}
Up    == \A c \in Clients : call[c].at \in UpAts => status # "STOP"

\* cur_thread_num counts the threads that work, or is about to.
Live      == {w \in Workers : pc[w] \notin {"none", "exited", "del2"}}
LiveCount == /\ cur_thread_num >= 0
             /\ ~Stopping =>
                    cur_thread_num + Cardinality(InAdd1) = Cardinality(Live)

\* stop() leaves no thread behind.
EmptyWhenStopped ==
    status = "STOP" /\ ~Stopping => \A w \in Workers : pc[w] \in {"none", "exited"}

\* task_mutex is held over two steps only by a thread that found the queue empty.
Held ==
    /\ \A w \in Workers : pc[w] \in {"block", "del1", "del2"} => task_mutex = w
    /\ task_mutex # Free => tasks = <<>>

\* A thread that has decided to leave is a spare one.
Spare == \A w \in Workers : pc[w] = "del1" => cur_thread_num > min_thread_num

\* Without resume() a pool that runs is not in the middle of a stop().
RunsAlone ==
    /\ \A c \in Clients : call[c].at = "resume" => "resume" \in setup.calls[c]
    /\ NobodyResumes /\ status = "RUNNING" => ~Stopping

\* The threads a client of start() has still to count.
Pending(c) == IF call[c].at = "add2" THEN call[c].left - 1 ELSE call[c].left

\* start() brings the count up to the least number, and it stays there.
Staffed ==
    NobodyResumes /\ status = "RUNNING" =>
        \/ cur_thread_num >= min_thread_num
        \/ \E c \in Clients : Starting(c) /\ cur_thread_num + Pending(c) >= min_thread_num

\* Threads do not all sleep on a queue with tasks.
SomeAwake ==
    tasks # <<>> /\ ~Stopping /\ (\E w \in Workers : pc[w] = "wait") =>
        Awake # {} \/ \E c \in Clients : call[c].at = "notify"

StaffInv == /\ Up /\ LiveCount /\ EmptyWhenStopped /\ Held /\ Spare /\ RunsAlone
            /\ Staffed /\ SomeAwake

-----------------------------------------------------------------------------
(* The kinds of steps.                                                     *)

\* What a client's call is to the threads.
SamePlace(c)   == /\ call'[c].at = call[c].at /\ call'[c].left = call[c].left
                  /\ call'[c].back = call[c].back
OthersPlace(c) == \A d \in Clients \ {c} : SamePlace(d)
SamePool       == UNCHANGED <<setup, status, cur_thread_num, pc, tasks, task_mutex>>
Acting         == {"add1", "add2", "notify", "notify_all", "join"}

\* A client's step that is nothing to the threads.
Quiet(c) ==
    /\ SamePool /\ OthersPlace(c)
    /\ call[c].at \notin Acting /\ (call[c].at = "create" => call[c].left = 0)
    /\ call'[c].at \notin Acting /\ (call'[c].at = "create" => call'[c].back = "push")
    /\ call'[c].at \in UpAts => status # "STOP"
    /\ call'[c].at = "resume" => "resume" \in setup.calls[c]

\* The steps of the clients that are something to them.
Runs(c) ==
    /\ UNCHANGED <<setup, cur_thread_num, pc, tasks, task_mutex>> /\ OthersPlace(c)
    /\ call[c].at = "run" /\ status' = "RUNNING"
    /\ call'[c].at = "create" /\ call'[c].back # "push" /\ call'[c].left = min_thread_num

Refused(c) ==
    /\ SamePool /\ OthersPlace(c)
    /\ call[c].at = "create" /\ call'[c].at = "create" /\ cur_thread_num >= max_thread_num

Creates(c) ==
    /\ UNCHANGED <<setup, status, cur_thread_num, tasks, task_mutex>> /\ OthersPlace(c)
    /\ call[c].at = "create" /\ call'[c].at = "add1"
    /\ call'[c].left = call[c].left /\ call'[c].back = call[c].back
    /\ \E w \in Workers : /\ pc[w] = "none" /\ pc'[w] = "loop"
                          /\ \A v \in Workers \ {w} : pc'[v] = pc[v]

Adds1(c) ==
    /\ UNCHANGED <<setup, status, pc, tasks, task_mutex>> /\ OthersPlace(c)
    /\ cur_thread_num' = cur_thread_num + 1
    /\ call[c].at = "add1" /\ call'[c].at = "add2"
    /\ call'[c].left = call[c].left /\ call'[c].back = call[c].back

Adds2(c) ==
    /\ SamePool /\ OthersPlace(c)
    /\ call[c].at = "add2" /\ call'[c].at = "create"
    /\ call'[c].left = call[c].left - 1 /\ call'[c].back = call[c].back

Pushes(c) ==
    /\ UNCHANGED <<setup, status, cur_thread_num, pc, task_mutex>> /\ OthersPlace(c)
    /\ call[c].at = "push" /\ call'[c].at = "notify" /\ task_mutex = Free

Notifies(c) ==
    /\ UNCHANGED <<setup, status, cur_thread_num, tasks, task_mutex>> /\ OthersPlace(c)
    /\ call[c].at = "notify" /\ call'[c].at = "idle"
    /\ \/ UNCHANGED pc /\ \A w \in Workers : pc[w] # "wait"
       \/ \E w \in Workers : /\ pc[w] = "wait" /\ pc'[w] = "lock"
                             /\ \A v \in Workers \ {w} : pc'[v] = pc[v]

Stops1(c) ==
    /\ UNCHANGED <<setup, cur_thread_num, pc, tasks, task_mutex>> /\ OthersPlace(c)
    /\ status' = "STOP" /\ \A d \in Clients : call[d].at \notin Structural
    /\ call'[c].at = "notify_all"

Stops2(c) ==
    /\ UNCHANGED <<setup, status, cur_thread_num, tasks, task_mutex>> /\ OthersPlace(c)
    /\ call[c].at = "notify_all" /\ call'[c].at = "join"
    /\ \A w \in Workers : pc'[w] = pc[w] \/ (pc[w] = "wait" /\ pc'[w] = "lock")

Joins(c) ==
    /\ UNCHANGED <<setup, status, tasks, task_mutex>> /\ OthersPlace(c)
    /\ call[c].at = "join" /\ call'[c].at = "idle" /\ cur_thread_num' = 0
    /\ \A d \in Clients \ {c} : call[d].at \notin Structural
    /\ \A w \in Workers : pc'[w] \in {"none", "exited"}

SetsStatus(c) ==
    /\ UNCHANGED <<setup, cur_thread_num, pc, tasks, task_mutex>> /\ OthersPlace(c)
    /\ call[c].at \in {"pause", "resume"} /\ call'[c].at = "idle"
    /\ status' = IF call[c].at = "pause" THEN "PAUSE" ELSE "RUNNING"

\* The steps of the threads; SameCalls leaves every client where it is.
SameCalls  == \A d \in Clients : SamePlace(d)
Moves(w)   == \A v \in Workers \ {w} : pc'[v] = pc[v]
AwakePcs   == {"loop", "gate", "lock", "expired", "run", "ran"}

GoesOn(w) ==
    /\ UNCHANGED <<setup, status, cur_thread_num, task_mutex>> /\ SameCalls /\ Moves(w)
    /\ pc[w] \in AwakePcs \cup {"wait"} /\ pc'[w] \in AwakePcs
    /\ UNCHANGED tasks \/ task_mutex = Free

Exits(w) ==
    /\ UNCHANGED <<setup, status, cur_thread_num, tasks, task_mutex>> /\ SameCalls /\ Moves(w)
    /\ status = "STOP" /\ pc[w] \in AwakePcs /\ pc'[w] = "exited"

Blocks(w) ==
    /\ UNCHANGED <<setup, status, cur_thread_num, tasks>> /\ SameCalls /\ Moves(w)
    /\ tasks = <<>> /\ task_mutex = Free /\ task_mutex' = w
    /\ pc[w] = "lock" /\ pc'[w] = "block"

Waits(w) ==
    /\ UNCHANGED <<setup, status, cur_thread_num, tasks>> /\ SameCalls /\ Moves(w)
    /\ task_mutex' = Free /\ pc[w] = "block" /\ pc'[w] = "wait"

Leaves(w) ==
    /\ UNCHANGED <<setup, status, cur_thread_num, tasks>> /\ SameCalls /\ Moves(w)
    /\ tasks = <<>> /\ task_mutex = Free /\ task_mutex' = w
    /\ cur_thread_num > min_thread_num /\ pc[w] = "expired" /\ pc'[w] = "del1"

Uncounts(w) ==
    /\ UNCHANGED <<setup, status, tasks, task_mutex>> /\ SameCalls /\ Moves(w)
    /\ cur_thread_num' = cur_thread_num - 1 /\ pc[w] = "del1" /\ pc'[w] = "del2"

Unlists(w) ==
    /\ UNCHANGED <<setup, status, cur_thread_num, tasks>> /\ SameCalls
    /\ task_mutex' = Free /\ pc[w] = "del2" /\ pc'[w] = "exited"
    /\ \A v \in Workers \ {w} : pc'[v] = pc[v] \/ (pc[v] = "exited" /\ pc'[v] = "none")

ClientKind(c) ==
    \/ Quiet(c) \/ Runs(c) \/ Refused(c) \/ Creates(c) \/ Adds1(c) \/ Adds2(c)
    \/ Pushes(c) \/ Notifies(c) \/ Stops1(c) \/ Stops2(c) \/ Joins(c) \/ SetsStatus(c)
ThreadKind(w) ==
    \/ GoesOn(w) \/ Exits(w) \/ Blocks(w) \/ Waits(w) \/ Leaves(w) \/ Uncounts(w)
    \/ Unlists(w)

\* A step of one client leaves the others where they are.
LEMMA OneClient ==
    ASSUME NEW c \in Clients, OnlyCall(c)
    PROVE  OthersPlace(c)
BY DEF OnlyCall, OthersPlace, SamePlace

\* Every step of a client is of one of the kinds ...
LEMMA ClientSteps ==
    ASSUME PoolInv, Up, NEW c \in Clients, Proceed(c) \/ Begin(c)
    PROVE  ClientKind(c)
<1>0. TypeOK /\ Typed /\ CreateState /\ Jobs /\ Listed /\ StopAlone
  BY DEF PoolInv, TypeOK, Typed
<1> USE <1>0, IdleFields, OneClient DEF ClientKind, At, Acting, UpAts, SamePool
<1>1. CASE StartTest(c)
  <2> Quiet(c) BY <1>1, StartTestEffect DEF StartTest, Quiet
  <2> QED OBVIOUS
<1>2. CASE StartRun(c)
  <2> Runs(c) BY <1>2, StartRunEffect DEF StartRun, Runs
  <2> QED OBVIOUS
<1>3. CASE CommitCheck(c)
  <2> Quiet(c) BY <1>3, CommitCheckEffect DEF CommitCheck, Quiet, Up
  <2> QED OBVIOUS
<1>4. CASE CommitSize(c)
  <2> Quiet(c) BY <1>4, CommitSizeEffect DEF CommitSize, Quiet, Up
  <2> QED OBVIOUS
<1>4a. CASE CommitRoom(c)
  <2> Quiet(c) BY <1>4a, CommitRoomEffect DEF CommitRoom, Quiet, Up
  <2> QED OBVIOUS
<1>5. CASE CreateDone(c)
  <2> Quiet(c) BY <1>5, CreateDoneEffect DEF CreateDone, Quiet, Up
  <2> QED OBVIOUS
<1>6. CASE CreateThread(c)
  <2>1. UNCHANGED <<setup, status, cur_thread_num, tasks, task_mutex>> /\ call[c].at = "create"
    BY <1>6 DEF CreateThread
  <2>2. CASE call'[c].at = "create" /\ UNCHANGED pc /\ cur_thread_num >= max_thread_num
    <3> Refused(c) BY <1>6, <2>1, <2>2, CreateThreadEffect DEF Refused
    <3> QED OBVIOUS
  <2>3. CASE /\ call'[c].at = "add1" /\ NewWorker \in Workers /\ call'[c].left = call[c].left
             /\ pc[NewWorker] = "none" /\ pc' = [pc EXCEPT ![NewWorker] = "loop"]
    <3>1. pc'[NewWorker] = "loop" /\ \A v \in Workers \ {NewWorker} : pc'[v] = pc[v]
      BY <2>3 DEF TypeOK
    <3>2. OnlyCall(c) /\ call'[c].back = call[c].back BY <1>6, CreateThreadEffect
    <3> Creates(c) BY <2>1, <2>3, <3>1, <3>2 DEF Creates
    <3> QED OBVIOUS
  <2> QED BY <1>6, <2>2, <2>3, CreateThreadEffect
<1>7. CASE AddThread1(c)
  <2> Adds1(c)
    BY <1>7, AddThread1Effect
       DEF AddThread1, Adds1, KeepsAdding, OthersPlace, SamePlace, OnlyMoved
  <2> QED OBVIOUS
<1>8. CASE AddThread2(c)
  <2>1. call[c].at = "add2" /\ call[c].left > 0 BY <1>8 DEF AddThread2, CreateState
  <2> Adds2(c)
    BY <1>8, <2>1, AddThread2Effect DEF AddThread2, Adds2, OthersPlace, SamePlace, OnlyMoved
  <2> QED OBVIOUS
<1>9. CASE CommitPush(c)
  <2> Pushes(c) BY <1>9, CommitPushEffect DEF CommitPush, Pushes
  <2> QED OBVIOUS
<1>10. CASE CommitNotify(c)
  <2>1. \/ UNCHANGED pc /\ \A w \in Workers : pc[w] # "wait"
        \/ \E w \in Workers : /\ pc[w] = "wait" /\ pc'[w] = "lock"
                              /\ \A v \in Workers \ {w} : pc'[v] = pc[v]
    BY <1>10 DEF CommitNotify, TypeOK
  <2>2. /\ UNCHANGED <<setup, status, cur_thread_num, tasks, task_mutex>>
        /\ call[c].at = "notify"
    BY <1>10 DEF CommitNotify
  <2>3. OthersPlace(c) /\ call'[c].at = "idle" BY <1>10, CommitNotifyEffect
  <2> Notifies(c) BY <2>1, <2>2, <2>3 DEF Notifies
  <2> QED OBVIOUS
<1>11. CASE StopNotify(c)
  <2> Stops2(c) BY <1>11, StopNotifyEffect DEF StopNotify, Stops2, TypeOK
  <2> QED OBVIOUS
<1>12. CASE StopJoin(c)
  <2>1. OnlyCall(c) /\ call[c].at = "join" /\ call'[c].at = "idle"
    BY <1>12, StopJoinEffect DEF StopJoin
  <2>2. \A d \in Clients \ {c} : call[d].at \notin Structural
    BY <2>1 DEF StopAlone, Stops
  <2>3. ASSUME NEW w \in Workers PROVE pc'[w] \in {"none", "exited"}
    <3>1. CASE threads[w] # None BY <1>12, <3>1 DEF StopJoin
    <3>2. CASE threads[w] = None
      <4>1. pc[w] \in {"none", "exited"} BY <2>1, <2>2, <3>2 DEF Listed, Structural
      <4> QED BY <1>12, <3>2, <4>1 DEF StopJoin
    <3> QED BY <3>1, <3>2
  <2> Joins(c) BY <1>12, <2>1, <2>2, <2>3 DEF StopJoin, Joins
  <2> QED OBVIOUS
<1>13. CASE PauseSet(c)
  <2> SetsStatus(c) BY <1>13, PauseSetEffect DEF PauseSet, SetsStatus
  <2> QED OBVIOUS
<1>14. CASE ResumeSet(c)
  <2> SetsStatus(c) BY <1>14, ResumeSetEffect DEF ResumeSet, SetsStatus
  <2> QED OBVIOUS
<1>15. CASE WaitStopped(c)
  <2> Quiet(c) BY <1>15, WaitStoppedEffect DEF WaitStopped, Quiet
  <2> QED OBVIOUS
<1>16. CASE WaitEmpty(c)
  <2> Quiet(c) BY <1>16, WaitEmptyEffect DEF WaitEmpty, Quiet
  <2> QED OBVIOUS
<1>17. CASE WaitRead(c)
  <2> Quiet(c) BY <1>17, WaitReadEffect DEF WaitRead, Quiet
  <2> QED OBVIOUS
<1>18. CASE WaitCompare(c)
  <2> Quiet(c) BY <1>18, WaitCompareEffect DEF WaitCompare, Quiet
  <2> QED OBVIOUS
<1>19. CASE StartCall(c)
  <2> Quiet(c) BY <1>19, StartCallEffect DEF StartCall, Quiet
  <2> QED OBVIOUS
<1>20. CASE StopCall(c)
  <2> Stops1(c) BY <1>20, StopCallEffect DEF StopCall, Stops1
  <2> QED OBVIOUS
<1>21. CASE PauseCall(c)
  <2> Quiet(c) BY <1>21, PauseCallEffect DEF PauseCall, Quiet
  <2> QED OBVIOUS
<1>22. CASE ResumeCall(c)
  <2> Quiet(c) BY <1>22, ResumeCallEffect DEF ResumeCall, Quiet
  <2> QED OBVIOUS
<1>23. CASE WaitCall(c)
  <2> Quiet(c) BY <1>23, WaitCallEffect DEF WaitCall, Quiet
  <2> QED OBVIOUS
<1>24. ASSUME NEW t \in Tasks, CommitCall(c, t) PROVE ClientKind(c)
  <2>1. call'[c].at = "check" => status # "STOP"
    <3>1. CASE status = "STOP"
      <4>1. Becomes(c, [call[c] EXCEPT !.task = t, !.at = "start"])
        BY <1>24, <3>1 DEF CommitCall
      <4> QED BY <4>1, AtTask DEF ClientAts
    <3> QED BY <3>1
  <2> Quiet(c) BY <1>24, <2>1, CommitCallEffect DEF CommitCall, Quiet
  <2> QED OBVIOUS
<1> QED
  BY <1>1, <1>2, <1>3, <1>4, <1>4a, <1>5, <1>6, <1>7, <1>8, <1>9, <1>10, <1>11, <1>12,
     <1>13, <1>14, <1>15, <1>16, <1>17, <1>18, <1>19, <1>20, <1>21, <1>22, <1>23, <1>24
     DEF Proceed, Begin

\* ... and every step of a thread.
LEMMA ThreadSteps ==
    ASSUME PoolInv, NEW w \in Workers, Thread(w)
    PROVE  ThreadKind(w)
<1>0. TypeOK /\ Typed BY DEF PoolInv, TypeOK, Typed
<1> USE <1>0 DEF ThreadKind, AwakePcs
<1>1. UNCHANGED call => SameCalls BY DEF SameCalls, SamePlace
<1>2. call' = Noticed(call) => SameCalls
  BY DelThreadEffect DEF SameCalls, SamePlace, OnlyMoved
<1>3. ASSUME NEW l \in WorkerPcs, Move(w, l) PROVE pc'[w] = l /\ Moves(w)
  BY <1>3 DEF Move, Moves, TypeOK
<1> USE <1>1, <1>2
<1>4. CASE Loop(w)
  <2>1. CASE status = "STOP"
    <3> Exits(w) BY <1>3, <1>4, <2>1 DEF Loop, Exits, WorkerPcs
    <3> QED OBVIOUS
  <2>2. CASE status # "STOP"
    <3> GoesOn(w) BY <1>3, <1>4, <2>2 DEF Loop, GoesOn, WorkerPcs
    <3> QED OBVIOUS
  <2> QED BY <2>1, <2>2
<1>5. CASE Gate(w)
  <2> GoesOn(w) BY <1>3, <1>5 DEF Gate, GoesOn, WorkerPcs
  <2> QED OBVIOUS
<1>6. CASE Block(w)
  <2> Blocks(w) BY <1>3, <1>6 DEF Block, Blocks, WorkerPcs
  <2> QED OBVIOUS
<1>7. CASE Wait(w)
  <2> Waits(w) BY <1>3, <1>7 DEF Wait, Waits, WorkerPcs
  <2> QED OBVIOUS
<1>8. CASE Exit(w)
  <2> Exits(w) BY <1>3, <1>8 DEF Exit, Exits, WorkerPcs
  <2> QED OBVIOUS
<1>9. CASE Take(w)
  <2> GoesOn(w) BY <1>3, <1>9 DEF Take, StartTask, Returned, GoesOn, WorkerPcs
  <2> QED OBVIOUS
<1>10. CASE Expire(w)
  <2>1. CASE cur_thread_num > min_thread_num
    <3> Leaves(w) BY <1>3, <1>10, <2>1 DEF Expire, Decide, Returned, Leaves, WorkerPcs
    <3> QED OBVIOUS
  <2>2. CASE ~(cur_thread_num > min_thread_num)
    <3> GoesOn(w) BY <1>3, <1>10, <2>2 DEF Expire, Decide, Returned, GoesOn, WorkerPcs
    <3> QED OBVIOUS
  <2> QED BY <2>1, <2>2
<1>11. CASE Timeout(w)
  <2> GoesOn(w) BY <1>3, <1>11 DEF Timeout, GoesOn, WorkerPcs
  <2> QED OBVIOUS
<1>12. CASE DelThread1(w)
  <2> Uncounts(w) BY <1>3, <1>12 DEF DelThread1, Uncounts, WorkerPcs
  <2> QED OBVIOUS
<1>13. CASE DelThread2(w)
  <2> Unlists(w) BY <1>13 DEF DelThread2, LeaveList, Unlists
  <2> QED OBVIOUS
<1>14. CASE RunTask(w)
  <2> GoesOn(w) BY <1>3, <1>14 DEF RunTask, GoesOn, WorkerPcs
  <2> QED OBVIOUS
<1>15. CASE BackToIdle(w)
  <2> GoesOn(w) BY <1>3, <1>15 DEF BackToIdle, GoesOn, WorkerPcs
  <2> QED OBVIOUS
<1> QED
  BY <1>4, <1>5, <1>6, <1>7, <1>8, <1>9, <1>10, <1>11, <1>12, <1>13, <1>14, <1>15
     DEF Thread

-----------------------------------------------------------------------------
(* The kinds of steps keep the invariant.                                  *)

\* The numbers it counts with.
LEMMA Plain ==
    ASSUME PoolInv
    PROVE  /\ cur_thread_num \in Int /\ min_thread_num \in Nat /\ max_thread_num \in Nat
           /\ min_thread_num <= max_thread_num /\ call \in [Clients -> Call]
           /\ \A c \in Clients : call[c].left \in Nat
           /\ Free \notin Workers
BY Limits, FieldTypes, NamesAssumption DEF PoolInv, TypeOK, Free

\* The threads that work are finitely many.
LEMMA LiveFinite == IsFiniteSet(Live) /\ Cardinality(Live) \in Nat /\ Cardinality(InAdd1) \in Nat
<1>1. Live \subseteq Workers /\ InAdd1 \subseteq Clients BY DEF Live, InAdd1
<1> QED BY <1>1, FiniteAssumption, FS_Subset, FS_CardinalityType

\* A step that neither starts nor ends nor counts a thread.
LEMMA LiveSame ==
    ASSUME LiveCount, UNCHANGED cur_thread_num, ~Stopping' => ~Stopping,
           \A d \in Clients : call'[d].at = "add1" <=> call[d].at = "add1",
           \A v \in Workers : pc'[v] \in {"none", "exited", "del2"}
                              <=> pc[v] \in {"none", "exited", "del2"}
    PROVE  LiveCount'
<1>1. InAdd1' = InAdd1 /\ Live' = Live BY DEF InAdd1, Live
<1> QED BY <1>1 DEF LiveCount

\* Steps that are nothing to the threads.
LEMMA QuietKeeps ==
    ASSUME PoolInv, StaffInv, NEW c \in Clients, Quiet(c)
    PROVE  StaffInv'
<1> USE Plain DEF Quiet, OthersPlace, SamePlace, SamePool, Acting, StaffInv
<1>1. Up' BY DEF Up, UpAts
<1>2. LiveCount' BY LiveSame DEF Stopping
<1>3. EmptyWhenStopped' BY DEF EmptyWhenStopped, Stopping
<1>4. Held' BY DEF Held
<1>5. Spare' BY DEF Spare, min_thread_num
<1>6. RunsAlone' BY DEF RunsAlone, NobodyResumes, Stopping
<1>7. Staffed' BY DEF Staffed, NobodyResumes, Starting, Pending, min_thread_num
<1>8. SomeAwake' BY DEF SomeAwake, Stopping, Awake, Staff
<1> QED BY <1>1, <1>2, <1>3, <1>4, <1>5, <1>6, <1>7, <1>8

\* start() promises the least number of threads.
LEMMA RunsKeeps ==
    ASSUME PoolInv, StaffInv, NEW c \in Clients, Runs(c)
    PROVE  StaffInv'
<1> USE Plain DEF Runs, OthersPlace, SamePlace, SamePool, Acting, StaffInv
<1>1. Up' BY DEF Up, UpAts
<1>2. LiveCount' BY LiveSame DEF Stopping
<1>3. EmptyWhenStopped' BY DEF EmptyWhenStopped, Stopping
<1>4. Held' BY DEF Held
<1>5. Spare' BY DEF Spare, min_thread_num
<1>6. RunsAlone'
  <2>1. ~Stopping BY DEF PoolInv, StopAlone, Stops, Structural, Stopping
  <2> QED BY <2>1 DEF RunsAlone, NobodyResumes, Stopping
<1>7. Staffed'
  <2>1. Starting(c)' /\ Pending(c)' = min_thread_num' BY DEF Starting, Pending, min_thread_num
  <2>2. cur_thread_num' >= 0 /\ cur_thread_num' \in Int /\ min_thread_num' \in Nat
    BY DEF LiveCount, min_thread_num
  <2> QED BY <2>1, <2>2 DEF Staffed
<1>8. SomeAwake' BY DEF SomeAwake, Stopping, Awake, Staff
<1> QED BY <1>1, <1>2, <1>3, <1>4, <1>5, <1>6, <1>7, <1>8

\* createThread refuses only when there are enough.
LEMMA RefusedKeeps ==
    ASSUME PoolInv, StaffInv, NEW c \in Clients, Refused(c)
    PROVE  StaffInv'
<1> USE Plain DEF Refused, OthersPlace, SamePlace, SamePool, Acting, StaffInv
<1>1. Up' BY DEF Up, UpAts
<1>2. LiveCount' BY LiveSame DEF Stopping
<1>3. EmptyWhenStopped' BY DEF EmptyWhenStopped, Stopping
<1>4. Held' BY DEF Held
<1>5. Spare' BY DEF Spare, min_thread_num
<1>6. RunsAlone' BY DEF RunsAlone, NobodyResumes, Stopping
<1>7. Staffed' BY DEF Staffed, NobodyResumes, Starting, Pending, min_thread_num
<1>8. SomeAwake' BY DEF SomeAwake, Stopping, Awake, Staff
<1> QED BY <1>1, <1>2, <1>3, <1>4, <1>5, <1>6, <1>7, <1>8

\* createThread starts a thread, which is counted later.
LEMMA CreatesKeeps ==
    ASSUME PoolInv, StaffInv, NEW c \in Clients, Creates(c)
    PROVE  StaffInv'
<1> USE Plain DEF Creates, OthersPlace, SamePlace, SamePool, Acting, StaffInv
<1>1. Up' BY DEF Up, UpAts
<1>2. LiveCount'
  <2>1. PICK w \in Workers : /\ pc[w] = "none" /\ pc'[w] = "loop"
                             /\ \A v \in Workers \ {w} : pc'[v] = pc[v]
    OBVIOUS
  <2>2. InAdd1' = InAdd1 \cup {c} /\ c \notin InAdd1 /\ IsFiniteSet(InAdd1)
    BY FiniteParts DEF InAdd1
  <2>3. Live' = Live \cup {w} /\ w \notin Live BY <2>1 DEF Live
  <2>4. Cardinality(InAdd1') = Cardinality(InAdd1) + 1 BY <2>2, OneMore
  <2>5. Cardinality(Live') = Cardinality(Live) + 1 BY <2>3, LiveFinite, OneMore
  <2>6. ~Stopping' => ~Stopping BY DEF Stopping
  <2> QED BY <2>4, <2>5, <2>6, LiveFinite DEF LiveCount
<1>3. EmptyWhenStopped' BY DEF EmptyWhenStopped, Up, UpAts
<1>4. Held' BY DEF Held
<1>5. Spare' BY DEF Spare, min_thread_num
<1>6. RunsAlone' BY DEF RunsAlone, NobodyResumes, Stopping
<1>7. Staffed' BY DEF Staffed, NobodyResumes, Starting, Pending, min_thread_num
<1>8. SomeAwake' BY DEF SomeAwake, Stopping, Awake, Staff
<1> QED BY <1>1, <1>2, <1>3, <1>4, <1>5, <1>6, <1>7, <1>8

\* addThread counts it.
LEMMA Adds1Keeps ==
    ASSUME PoolInv, StaffInv, NEW c \in Clients, Adds1(c)
    PROVE  StaffInv'
<1> USE Plain DEF Adds1, OthersPlace, SamePlace, SamePool, Acting, StaffInv
<1>1. Up' BY DEF Up, UpAts
<1>2. LiveCount'
  <2>1. InAdd1' = InAdd1 \ {c} /\ c \in InAdd1 /\ IsFiniteSet(InAdd1)
    BY FiniteParts DEF InAdd1
  <2>2. Cardinality(InAdd1') = Cardinality(InAdd1) - 1 BY <2>1, OneLess
  <2>3. Live' = Live BY DEF Live
  <2>4. ~Stopping' => ~Stopping BY DEF Stopping
  <2> QED BY <2>2, <2>3, <2>4, LiveFinite DEF LiveCount
<1>3. EmptyWhenStopped' BY DEF EmptyWhenStopped, Stopping
<1>4. Held' BY DEF Held
<1>5. Spare' BY DEF Spare, min_thread_num
<1>6. RunsAlone' BY DEF RunsAlone, NobodyResumes, Stopping
<1>7. Staffed' BY DEF Staffed, NobodyResumes, Starting, Pending, min_thread_num
<1>8. SomeAwake' BY DEF SomeAwake, Stopping, Awake, Staff
<1> QED BY <1>1, <1>2, <1>3, <1>4, <1>5, <1>6, <1>7, <1>8

\* addThread has one thread less to create.
LEMMA Adds2Keeps ==
    ASSUME PoolInv, StaffInv, NEW c \in Clients, Adds2(c)
    PROVE  StaffInv'
<1> USE Plain DEF Adds2, OthersPlace, SamePlace, SamePool, Acting, StaffInv
<1>1. Up' BY DEF Up, UpAts
<1>2. LiveCount' BY LiveSame DEF Stopping
<1>3. EmptyWhenStopped' BY DEF EmptyWhenStopped, Stopping
<1>4. Held' BY DEF Held
<1>5. Spare' BY DEF Spare, min_thread_num
<1>6. RunsAlone' BY DEF RunsAlone, NobodyResumes, Stopping
<1>7. Staffed' BY DEF Staffed, NobodyResumes, Starting, Pending, min_thread_num
<1>8. SomeAwake' BY DEF SomeAwake, Stopping, Awake, Staff
<1> QED BY <1>1, <1>2, <1>3, <1>4, <1>5, <1>6, <1>7, <1>8

\* A task is queued, and a wake-up is on its way.
LEMMA PushesKeeps ==
    ASSUME PoolInv, StaffInv, NEW c \in Clients, Pushes(c)
    PROVE  StaffInv'
<1> USE Plain DEF Pushes, OthersPlace, SamePlace, SamePool, Acting, StaffInv
<1>1. Up' BY DEF Up, UpAts
<1>2. LiveCount' BY LiveSame DEF Stopping
<1>3. EmptyWhenStopped' BY DEF EmptyWhenStopped, Stopping
<1>4. Held' BY DEF Held
<1>5. Spare' BY DEF Spare, min_thread_num
<1>6. RunsAlone' BY DEF RunsAlone, NobodyResumes, Stopping
<1>7. Staffed' BY DEF Staffed, NobodyResumes, Starting, Pending, min_thread_num
<1>8. SomeAwake' BY DEF SomeAwake, Stopping, Awake, Staff
<1> QED BY <1>1, <1>2, <1>3, <1>4, <1>5, <1>6, <1>7, <1>8

\* The wake-up finds a thread that sleeps, or none does.
LEMMA NotifiesKeeps ==
    ASSUME PoolInv, StaffInv, NEW c \in Clients, Notifies(c)
    PROVE  StaffInv'
<1> USE Plain DEF Notifies, OthersPlace, SamePlace, SamePool, Acting, StaffInv
<1>1. Up' BY DEF Up, UpAts
<1>2. LiveCount' BY LiveSame DEF Stopping
<1>3. EmptyWhenStopped' BY DEF EmptyWhenStopped, Stopping
<1>4. Held' BY DEF Held
<1>5. Spare' BY DEF Spare, min_thread_num
<1>6. RunsAlone' BY DEF RunsAlone, NobodyResumes, Stopping
<1>7. Staffed' BY DEF Staffed, NobodyResumes, Starting, Pending, min_thread_num
<1>8. SomeAwake' BY DEF SomeAwake, Stopping, Awake, Staff
<1> QED BY <1>1, <1>2, <1>3, <1>4, <1>5, <1>6, <1>7, <1>8

\* stop() begins while nobody adds threads.
LEMMA Stops1Keeps ==
    ASSUME PoolInv, StaffInv, NEW c \in Clients, Stops1(c)
    PROVE  StaffInv'
<1> USE Plain DEF Stops1, OthersPlace, SamePlace, SamePool, Acting, StaffInv
<1>1. Up' BY DEF Up, UpAts, Structural
<1>2. LiveCount' BY DEF LiveCount, Stopping
<1>3. EmptyWhenStopped' BY DEF EmptyWhenStopped, Stopping
<1>4. Held' BY DEF Held
<1>5. Spare' BY DEF Spare, min_thread_num
<1>6. RunsAlone' BY DEF RunsAlone, NobodyResumes, Stopping
<1>7. Staffed' BY DEF Staffed, NobodyResumes, Starting, Pending, min_thread_num
<1>8. SomeAwake' BY DEF SomeAwake, Stopping, Awake, Staff
<1> QED BY <1>1, <1>2, <1>3, <1>4, <1>5, <1>6, <1>7, <1>8

\* stop() wakes all that sleep.
LEMMA Stops2Keeps ==
    ASSUME PoolInv, StaffInv, NEW c \in Clients, Stops2(c)
    PROVE  StaffInv'
<1> USE Plain DEF Stops2, OthersPlace, SamePlace, SamePool, Acting, StaffInv
<1>1. Up' BY DEF Up, UpAts
<1>2. LiveCount' BY LiveSame DEF Stopping
<1>3. EmptyWhenStopped' BY DEF EmptyWhenStopped, Stopping
<1>4. Held' BY DEF Held
<1>5. Spare' BY DEF Spare, min_thread_num
<1>6. RunsAlone' BY DEF RunsAlone, NobodyResumes, Stopping
<1>7. Staffed' BY DEF Staffed, NobodyResumes, Starting, Pending, min_thread_num
<1>8. SomeAwake' BY DEF SomeAwake, Stopping, Awake, Staff
<1> QED BY <1>1, <1>2, <1>3, <1>4, <1>5, <1>6, <1>7, <1>8

\* stop() leaves no thread and counts none.
LEMMA JoinsKeeps ==
    ASSUME PoolInv, StaffInv, NEW c \in Clients, Joins(c)
    PROVE  StaffInv'
<1> USE Plain DEF Joins, OthersPlace, SamePlace, SamePool, Acting, StaffInv
<1>1. Up' BY DEF Up, UpAts
<1>2. LiveCount'
  <2>1. InAdd1' = {} /\ Live' = {} BY DEF InAdd1, Live, Structural
  <2>2. Cardinality(InAdd1') = 0 /\ Cardinality(Live') = 0 BY <2>1, FS_EmptySet
  <2> QED BY <2>2 DEF LiveCount
<1>3. EmptyWhenStopped' BY DEF EmptyWhenStopped, Stopping
<1>4. Held' BY DEF Held
<1>5. Spare' BY DEF Spare, min_thread_num
<1>6. RunsAlone' BY DEF RunsAlone, NobodyResumes, Stopping
<1>7. Staffed' BY DEF Staffed, RunsAlone, NobodyResumes, Stopping
<1>8. SomeAwake' BY DEF SomeAwake, Stopping, Awake, Staff
<1> QED BY <1>1, <1>2, <1>3, <1>4, <1>5, <1>6, <1>7, <1>8

\* pause() and resume() set the status, whatever it has become.
LEMMA SetsStatusKeeps ==
    ASSUME PoolInv, StaffInv, NEW c \in Clients, SetsStatus(c)
    PROVE  StaffInv'
<1> USE Plain DEF SetsStatus, OthersPlace, SamePlace, SamePool, Acting, StaffInv
<1>1. Up' BY DEF Up, UpAts
<1>2. LiveCount' BY LiveSame DEF Stopping
<1>3. EmptyWhenStopped' BY DEF EmptyWhenStopped, Stopping
<1>4. Held' BY DEF Held
<1>5. Spare' BY DEF Spare, min_thread_num
<1>6. RunsAlone' BY DEF RunsAlone, NobodyResumes, Stopping
<1>7. Staffed' BY DEF Staffed, RunsAlone, NobodyResumes
<1>8. SomeAwake' BY DEF SomeAwake, Stopping, Awake, Staff
<1> QED BY <1>1, <1>2, <1>3, <1>4, <1>5, <1>6, <1>7, <1>8

\* A thread is awake and stays awake.
LEMMA GoesOnKeeps ==
    ASSUME PoolInv, StaffInv, NEW w \in Workers, GoesOn(w)
    PROVE  StaffInv'
<1> USE Plain DEF GoesOn, SameCalls, SamePlace, Moves, AwakePcs, StaffInv
<1>1. Up' BY DEF Up, UpAts
<1>2. LiveCount' BY LiveSame DEF Stopping
<1>3. EmptyWhenStopped' BY DEF EmptyWhenStopped, Stopping
<1>4. Held' BY DEF Held
<1>5. Spare' BY DEF Spare, min_thread_num
<1>6. RunsAlone' BY DEF RunsAlone, NobodyResumes, Stopping
<1>7. Staffed' BY DEF Staffed, NobodyResumes, Starting, Pending, min_thread_num
<1>8. SomeAwake' BY DEF SomeAwake, Stopping, Awake, Staff
<1> QED BY <1>1, <1>2, <1>3, <1>4, <1>5, <1>6, <1>7, <1>8

\* A thread ends because the pool is stopped.
LEMMA ExitsKeeps ==
    ASSUME PoolInv, StaffInv, NEW w \in Workers, Exits(w)
    PROVE  StaffInv'
<1> USE Plain DEF Exits, SameCalls, SamePlace, Moves, AwakePcs, StaffInv
<1>1. Up' BY DEF Up, UpAts
<1>2. LiveCount'
  <2>1. Stopping BY DEF EmptyWhenStopped
  <2> QED BY <2>1 DEF LiveCount, Stopping
<1>3. EmptyWhenStopped' BY DEF EmptyWhenStopped, Stopping
<1>4. Held' BY DEF Held
<1>5. Spare' BY DEF Spare, min_thread_num
<1>6. RunsAlone' BY DEF RunsAlone, NobodyResumes, Stopping
<1>7. Staffed' BY DEF Staffed, NobodyResumes, Starting, Pending, min_thread_num
<1>8. SomeAwake'
  <2>1. Stopping BY DEF EmptyWhenStopped
  <2> QED BY <2>1 DEF SomeAwake, Stopping
<1> QED BY <1>1, <1>2, <1>3, <1>4, <1>5, <1>6, <1>7, <1>8

\* A thread prepares to sleep on an empty queue, the mutex held.
LEMMA BlocksKeeps ==
    ASSUME PoolInv, StaffInv, NEW w \in Workers, Blocks(w)
    PROVE  StaffInv'
<1> USE Plain DEF Blocks, SameCalls, SamePlace, Moves, AwakePcs, StaffInv
<1>1. Up' BY DEF Up, UpAts
<1>2. LiveCount' BY LiveSame DEF Stopping
<1>3. EmptyWhenStopped' BY DEF EmptyWhenStopped, Stopping
<1>4. Held' BY DEF Held
<1>5. Spare' BY DEF Spare, min_thread_num
<1>6. RunsAlone' BY DEF RunsAlone, NobodyResumes, Stopping
<1>7. Staffed' BY DEF Staffed, NobodyResumes, Starting, Pending, min_thread_num
<1>8. SomeAwake' BY DEF SomeAwake, Stopping, Awake, Staff
<1> QED BY <1>1, <1>2, <1>3, <1>4, <1>5, <1>6, <1>7, <1>8

\* It sleeps; nothing was queued meanwhile.
LEMMA WaitsKeeps ==
    ASSUME PoolInv, StaffInv, NEW w \in Workers, Waits(w)
    PROVE  StaffInv'
<1> USE Plain DEF Waits, SameCalls, SamePlace, Moves, AwakePcs, StaffInv
<1>1. Up' BY DEF Up, UpAts
<1>2. LiveCount' BY LiveSame DEF Stopping
<1>3. EmptyWhenStopped' BY DEF EmptyWhenStopped, Stopping
<1>4. Held' BY DEF Held
<1>5. Spare' BY DEF Spare, min_thread_num
<1>6. RunsAlone' BY DEF RunsAlone, NobodyResumes, Stopping
<1>7. Staffed' BY DEF Staffed, NobodyResumes, Starting, Pending, min_thread_num
<1>8. SomeAwake' BY DEF SomeAwake, Held
<1> QED BY <1>1, <1>2, <1>3, <1>4, <1>5, <1>6, <1>7, <1>8

\* A spare thread decides to leave.
LEMMA LeavesKeeps ==
    ASSUME PoolInv, StaffInv, NEW w \in Workers, Leaves(w)
    PROVE  StaffInv'
<1> USE Plain DEF Leaves, SameCalls, SamePlace, Moves, AwakePcs, StaffInv
<1>1. Up' BY DEF Up, UpAts
<1>2. LiveCount' BY LiveSame DEF Stopping
<1>3. EmptyWhenStopped' BY DEF EmptyWhenStopped, Stopping
<1>4. Held' BY DEF Held
<1>5. Spare' BY DEF Spare, min_thread_num
<1>6. RunsAlone' BY DEF RunsAlone, NobodyResumes, Stopping
<1>7. Staffed' BY DEF Staffed, NobodyResumes, Starting, Pending, min_thread_num
<1>8. SomeAwake' BY DEF SomeAwake, Stopping, Awake, Staff
<1> QED BY <1>1, <1>2, <1>3, <1>4, <1>5, <1>6, <1>7, <1>8

\* It is counted out.
LEMMA UncountsKeeps ==
    ASSUME PoolInv, StaffInv, NEW w \in Workers, Uncounts(w)
    PROVE  StaffInv'
<1> USE Plain DEF Uncounts, SameCalls, SamePlace, Moves, AwakePcs, StaffInv
<1>1. Up' BY DEF Up, UpAts
<1>2. LiveCount'
  <2>1. Live' = Live \ {w} /\ w \in Live BY DEF Live
  <2>2. Cardinality(Live') = Cardinality(Live) - 1 BY <2>1, LiveFinite, OneLess
  <2>3. InAdd1' = InAdd1 BY DEF InAdd1
  <2>4. ~Stopping' => ~Stopping BY DEF Stopping
  <2>5. cur_thread_num > min_thread_num BY DEF Spare
  <2> QED BY <2>2, <2>3, <2>4, <2>5, LiveFinite DEF LiveCount
<1>3. EmptyWhenStopped' BY DEF EmptyWhenStopped, Stopping
<1>4. Held' BY DEF Held
<1>5. Spare' BY DEF Spare, Held
<1>6. RunsAlone' BY DEF RunsAlone, NobodyResumes, Stopping
<1>7. Staffed'
  <2>1. cur_thread_num' >= min_thread_num' BY DEF Spare, min_thread_num
  <2> QED BY <2>1 DEF Staffed
<1>8. SomeAwake' BY DEF SomeAwake, Stopping, Awake, Staff
<1> QED BY <1>1, <1>2, <1>3, <1>4, <1>5, <1>6, <1>7, <1>8

\* It is gone.
LEMMA UnlistsKeeps ==
    ASSUME PoolInv, StaffInv, NEW w \in Workers, Unlists(w)
    PROVE  StaffInv'
<1> USE Plain DEF Unlists, SameCalls, SamePlace, Moves, AwakePcs, StaffInv
<1>1. Up' BY DEF Up, UpAts
<1>2. LiveCount' BY LiveSame DEF Stopping
<1>3. EmptyWhenStopped' BY DEF EmptyWhenStopped, Stopping
<1>4. Held' BY DEF Held
<1>5. Spare' BY DEF Spare, min_thread_num
<1>6. RunsAlone' BY DEF RunsAlone, NobodyResumes, Stopping
<1>7. Staffed' BY DEF Staffed, NobodyResumes, Starting, Pending, min_thread_num
<1>8. SomeAwake' BY DEF SomeAwake, Stopping, Awake, Staff
<1> QED BY <1>1, <1>2, <1>3, <1>4, <1>5, <1>6, <1>7, <1>8

\* Every step is of one of the kinds, so the invariant is kept.
LEMMA StaffStep == PoolInv /\ StaffInv /\ [Next]_vars => StaffInv'
<1> SUFFICES ASSUME PoolInv, StaffInv, [Next]_vars PROVE StaffInv' OBVIOUS
<1>1. ASSUME NEW c \in Clients, Proceed(c) \/ Begin(c) PROVE StaffInv'
  <2>1. ClientKind(c) BY <1>1, ClientSteps DEF StaffInv
  <2> QED
    BY <2>1, QuietKeeps, RunsKeeps, RefusedKeeps, CreatesKeeps, Adds1Keeps, Adds2Keeps,
       PushesKeeps, NotifiesKeeps, Stops1Keeps, Stops2Keeps, JoinsKeeps, SetsStatusKeeps
       DEF ClientKind
<1>2. ASSUME NEW w \in Workers, Thread(w) PROVE StaffInv'
  <2>1. ThreadKind(w) BY <1>2, ThreadSteps
  <2> QED
    BY <2>1, GoesOnKeeps, ExitsKeeps, BlocksKeeps, WaitsKeeps, LeavesKeeps, UncountsKeeps,
       UnlistsKeeps
       DEF ThreadKind
<1>3. CASE UNCHANGED vars
  <2> USE <1>3 DEF vars, StaffInv
  <2>1. Up' BY DEF Up, UpAts
  <2>2. LiveCount' BY LiveSame DEF Stopping
  <2>3. EmptyWhenStopped' BY DEF EmptyWhenStopped, Stopping
  <2>4. Held' /\ Spare' BY DEF Held, Spare, min_thread_num
  <2>5. RunsAlone' BY DEF RunsAlone, NobodyResumes, Stopping
  <2>6. Staffed' BY DEF Staffed, NobodyResumes, Starting, Pending, min_thread_num
  <2>7. SomeAwake' BY DEF SomeAwake, Stopping, Awake, Staff
  <2> QED BY <2>1, <2>2, <2>3, <2>4, <2>5, <2>6, <2>7
<1> QED BY <1>1, <1>2, <1>3 DEF Next

\* It holds at the start.
LEMMA InitStaff == Init => StaffInv
<1> SUFFICES ASSUME Init PROVE StaffInv OBVIOUS
<1> USE DEF Init
<1>1. \A c \in Clients : call[c].at = "idle" BY IdleFields
<1>2. InAdd1 = {} /\ Live = {} BY <1>1 DEF InAdd1, Live
<1>3. Cardinality(InAdd1) = 0 /\ Cardinality(Live) = 0 BY <1>2, FS_EmptySet
<1>4. LiveCount BY <1>3 DEF LiveCount
<1>5. Up /\ EmptyWhenStopped /\ Held /\ Spare
  BY <1>1 DEF Up, UpAts, EmptyWhenStopped, Held, Spare
<1>6. RunsAlone /\ Staffed /\ SomeAwake BY <1>1 DEF RunsAlone, Staffed, SomeAwake
<1> QED BY <1>4, <1>5, <1>6 DEF StaffInv

\* The threads that serve the queue are those that are counted, less one that leaves.
LEMMA StaffCounted ==
    ASSUME PoolInv, StaffInv, ~Stopping
    PROVE  \/ Cardinality(Staff) = cur_thread_num + Cardinality(InAdd1)
           \/ /\ Cardinality(Staff) = cur_thread_num + Cardinality(InAdd1) - 1
              /\ cur_thread_num > min_thread_num
<1> USE LiveFinite, Plain DEF StaffInv
<1>1. Cardinality(Live) = cur_thread_num + Cardinality(InAdd1) BY DEF LiveCount
<1>2. CASE \A w \in Workers : pc[w] # "del1"
  <2>1. Staff = Live BY <1>2 DEF Staff, Live, PoolInv, TypeOK, WorkerPcs
  <2> QED BY <1>1, <2>1
<1>3. ASSUME NEW w \in Workers, pc[w] = "del1"
      PROVE  /\ Cardinality(Staff) = cur_thread_num + Cardinality(InAdd1) - 1
             /\ cur_thread_num > min_thread_num
  <2>1. \A v \in Workers : pc[v] = "del1" => v = w BY <1>3 DEF Held
  <2>2. Staff = Live \ {w} /\ w \in Live
    BY <1>3, <2>1 DEF Staff, Live, PoolInv, TypeOK, WorkerPcs
  <2>3. Cardinality(Staff) = Cardinality(Live) - 1 BY <2>2, OneLess
  <2> QED BY <1>1, <1>3, <2>3 DEF Spare
<1> QED BY <1>2, <1>3

\* What is counted covers the least number.
LEMMA StaffEnough == PoolInv /\ StaffInv => KeepsMinimum
<1> SUFFICES ASSUME PoolInv, StaffInv, NobodyResumes, status = "RUNNING",
                    \A c \in Clients : ~Starting(c)
             PROVE  Cardinality(Staff) >= min_thread_num
  BY DEF KeepsMinimum
<1>1. ~Stopping BY DEF StaffInv, RunsAlone
<1>2. cur_thread_num >= min_thread_num BY DEF StaffInv, Staffed
<1> QED BY <1>1, <1>2, StaffCounted, LiveFinite, Plain

\* With tasks in the queue one of these threads is awake.
LEMMA QueueWatched == PoolInv /\ StaffInv => QueueIsAttended
<1> SUFFICES ASSUME PoolInv, StaffInv, NobodyResumes, status = "RUNNING",
                    min_thread_num > 0, tasks # <<>>,
                    \A c \in Clients : ~At(c, "notify") /\ ~(Starting(c) /\ call[c].left > 0)
             PROVE  Awake # {}
  BY DEF QueueIsAttended
<1> USE Plain, LiveFinite
<1>1. ~Stopping BY DEF StaffInv, RunsAlone
<1>2. cur_thread_num > 0
  <2>1. CASE cur_thread_num >= min_thread_num BY <2>1
  <2>2. ASSUME NEW c \in Clients, Starting(c), cur_thread_num + Pending(c) >= min_thread_num
        PROVE  cur_thread_num > 0
    <3>1. call[c].left = 0 /\ call[c].left \in Nat BY <2>2
    <3>2. Pending(c) <= 0 /\ Pending(c) \in Int BY <3>1 DEF Pending
    <3> QED BY <2>2, <3>2
  <2> QED BY <2>1, <2>2 DEF StaffInv, Staffed
<1>3. Staff # {}
  <2>1. Cardinality(Staff) > 0 BY <1>1, <1>2, StaffCounted
  <2>2. Staff = {} => Cardinality(Staff) = 0 BY FS_EmptySet
  <2> QED BY <2>1, <2>2, Plain
<1>4. PICK w \in Staff : TRUE BY <1>3
<1>5. CASE pc[w] = "wait"
  BY <1>1, <1>5 DEF StaffInv, SomeAwake, Staff, At
<1>6. CASE pc[w] = "block"
  BY <1>6 DEF StaffInv, Held, Staff
<1>7. CASE pc[w] \notin {"block", "wait"} BY <1>4, <1>7 DEF Awake
<1> QED BY <1>5, <1>6, <1>7

\* The invariant holds in every behaviour.
LEMMA StaffIsSound == Spec => [](PoolInv /\ StaffInv)
<1>1. Init => PoolInv /\ StaffInv BY InitPool, InitStaff
<1>2. PoolInv /\ StaffInv /\ [Next]_vars => (PoolInv /\ StaffInv)' BY NextPool, StaffStep
<1> QED BY <1>1, <1>2, PTL DEF Spec

\* A pool that has been started and not stopped keeps min_thread_num threads at the
\* queue, for any number of clients, threads and tasks and in every interleaving of
\* timeouts, commits and thread creation: Expire's test and task_mutex are enough.
THEOREM PoolIsStaffed == Spec => []KeepsMinimum
BY StaffIsSound, StaffEnough, PTL

\* No wake-up is lost: with tasks in the queue not all threads of the pool sleep.
THEOREM TasksAreAttended == Spec => []QueueIsAttended
BY StaffIsSound, QueueWatched, PTL

\* When stop() has returned no thread of the pool is left, and none comes into being
\* before the next start() has set the status: not even one that was about to leave
\* on its own when stop() walked the list (hthreadpool.h:81-94, 199-218).
THEOREM StopLeavesNoThread ==
    Spec => [](status = "STOP" /\ ~Stopping => \A w \in Workers : pc[w] \in {"none", "exited"})
<1>1. StaffInv => EmptyWhenStopped BY DEF StaffInv
<1> QED BY <1>1, StaffIsSound, PTL DEF EmptyWhenStopped

=============================================================================

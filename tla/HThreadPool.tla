---------------------------- MODULE HThreadPool ----------------------------
(***************************************************************************)
(* libhv's HThreadPool, the pool behind hv::async.  Threads are created on *)
(* demand between min_thread_num and max_thread_num, wait for tasks on     *)
(* task_cond and leave after max_idle_time without one.                    *)
(*                                                                         *)
(* The queue is guarded by task_mutex.  The status and the two counters    *)
(* are atomics read and written without it, one step at a time; that is    *)
(* where the interleavings are.  commit() and wait() also look at the queue *)
(* without the mutex.                                                      *)
(***************************************************************************)
EXTENDS Integers, Sequences, FiniteSets

CONSTANTS
    Clients,       \* the threads that call the pool
    Tasks,         \* the tasks they commit, each once
    Workers,       \* bound: the thread objects alive at one time
    Setups         \* the pools and the programs that use them, see Setup

Calls == {"start", "stop", "pause", "resume", "wait", "commit"}

\* What is fixed before the first call: the limits of the pool, the operations each
\* client uses and the tasks they have.
Setup == [min_thread_num : Nat, max_thread_num : Nat, calls : [Clients -> SUBSET Calls],
          tasks : SUBSET Tasks]

ASSUME SetupsAssumption == \A s \in Setups :
    s \in Setup /\ s.min_thread_num <= s.max_thread_num
ASSUME FiniteAssumption ==
    IsFiniteSet(Clients) /\ Clients # {} /\ IsFiniteSet(Workers)
ASSUME NamesAssumption == "none" \notin Tasks /\ "free" \notin Workers

VARIABLES
    setup,           \* one of Setups
    status,          \* "STOP", "RUNNING" or "PAUSE"
    cur_thread_num,
    idle_thread_num,
    threads,         \* ThreadData::status of each thread object in the list
    tasks,           \* the queue
    task_mutex,      \* the worker that holds it between two steps, or Free
    pc,              \* where each worker is
    job,             \* the task a worker runs
    call,            \* where each client is in its call
    done,            \* the tasks that have run
    eager            \* the workers that started a task since pause()

counters   == <<cur_thread_num, idle_thread_num>>
workerVars == <<threads, pc, job>>
queueVars  == <<tasks, task_mutex>>
history    == <<done, eager>>
poolVars   == <<setup, status, counters, workerVars, queueVars, history>>
vars       == <<poolVars, call>>

Free == "free"
None == "none"

min_thread_num == setup.min_thread_num
max_thread_num == setup.max_thread_num

WorkerPcs == {"none", "loop", "gate", "lock", "block", "wait", "expired", "del1",
              "del2", "run", "ran", "exited"}

\* A client's call: where it is, the task it commits, how many threads are still
\* to be created, where it goes on then, the one being added, the counter it has
\* read, what a wait() waits for, and whether a counter moved while it compared.
ClientAts == {"idle", "start", "run", "create", "add1", "add2", "check", "size",
              "room", "push", "notify", "notify_all", "join", "pause", "resume", "empty",
              "compare", "idle_read", "cur_read"}
Call == [at : ClientAts, task : Tasks \cup {None}, left : Nat,
         back : {"idle", "check", "push"}, thread : Workers \cup {None},
         seen : Int, until : SUBSET Tasks, moved : BOOLEAN]
Idle == [at |-> "idle", task |-> None, left |-> 0, back |-> "idle", thread |-> None,
         seen |-> 0, until |-> {}, moved |-> FALSE]

At(c, l)      == call[c].at = l
Becomes(c, r) == call' = [call EXCEPT ![c] = r]
Goto(c, l)    == Becomes(c, [call[c] EXCEPT !.at = l])
Return(c)     == Becomes(c, Idle)

Queued  == {tasks[i] : i \in DOMAIN tasks}
Running == {job[w] : w \in {v \in Workers : pc[v] = "run"}}
Committed == Queued \cup Running \cup done

\* Environment: start(), stop() and commit() are not called by two threads at
\* once when one of them is stop(): `threads` is not guarded against that.
Stopping   == \E c \in Clients : call[c].at \in {"notify_all", "join"}
Structural == {"start", "run", "create", "add1", "add2", "check", "size",
               "room", "push", "notify", "notify_all", "join"}

\* addThread and delThread hold thread_mutex between their two counters.
Adding   == {c \in Clients : call[c].at = "add2"}
Removing == {w \in Workers : pc[w] = "del2"}
ThreadMutexFree == Adding = {} /\ Removing = {}

\* For the clients that are comparing the counters, one of them moves.
Noticed(f) == [c \in Clients |->
    IF f[c].at \in {"idle_read", "cur_read"} THEN [f[c] EXCEPT !.moved = TRUE] ELSE f[c]]

-----------------------------------------------------------------------------
(* start and commit.                                                       *)

\* A client calls commit(t): an idle pool is started first.
CommitCall(c, t) ==
    /\ "commit" \in setup.calls[c]
    /\ At(c, "idle")
    /\ ~Stopping
    /\ t \in setup.tasks \ Committed
    /\ \A d \in Clients : call[d].task # t
    /\ Becomes(c, [call[c] EXCEPT !.task = t,
                                  !.at = IF status = "STOP" THEN "start" ELSE "check"])
    /\ UNCHANGED poolVars

\* A client calls start().
StartCall(c) ==
    /\ "start" \in setup.calls[c]
    /\ At(c, "idle")
    /\ ~Stopping
    /\ Goto(c, "start")
    /\ UNCHANGED poolVars

\* What follows start(): the rest of commit, or the return to the client.
AfterStart(c) == IF call[c].task = None THEN Return(c) ELSE Goto(c, "check")

\* start(): `if (status != STOP) return -1`, ...
StartTest(c) ==
    /\ At(c, "start")
    /\ IF status # "STOP" THEN AfterStart(c) ELSE Goto(c, "run")
    /\ UNCHANGED poolVars

\* ... then the pool is RUNNING and creates its first threads, here the least
\* number: start_threads is 0 by default.
StartRun(c) ==
    /\ At(c, "run")
    /\ status' = "RUNNING"
    /\ Becomes(c, [call[c] EXCEPT !.at = "create", !.left = min_thread_num,
                                  !.back = IF call[c].task = None THEN "idle" ELSE "check"])
    /\ UNCHANGED <<setup, counters, workerVars, queueVars, history>>

\* commit: one more thread if the idle ones do not cover the queue.  The counter
\* is read first, ...
CommitCheck(c) ==
    /\ At(c, "check")
    /\ Becomes(c, [call[c] EXCEPT !.at = "size", !.seen = idle_thread_num])
    /\ UNCHANGED poolVars

\* Another thread is about to push or to pop: size(), read without task_mutex, may
\* answer anything.
QueueMoves(c) ==
    \/ \E d \in Clients \ {c} : At(d, "push")
    \/ tasks # <<>> /\ \E w \in Workers : pc[w] \in {"lock", "expired"}

\* ... then compared with the size, an unsigned number: a negative counter is
\* greater than any size.
CommitSize(c) ==
    /\ At(c, "size")
    /\ \/ /\ call[c].seen >= 0
          /\ call[c].seen <= Len(tasks) \/ QueueMoves(c)
          /\ Becomes(c, [call[c] EXCEPT !.at = "room", !.seen = 0])
       \/ /\ call[c].seen \notin 0..Len(tasks) \/ QueueMoves(c)
          /\ Becomes(c, [call[c] EXCEPT !.at = "push", !.seen = 0])
    /\ UNCHANGED poolVars

\* ... and then, if they do not, the number of threads is looked at.
CommitRoom(c) ==
    /\ At(c, "room")
    /\ IF cur_thread_num < max_thread_num
       THEN Becomes(c, [call[c] EXCEPT !.at = "create", !.left = 1, !.back = "push"])
       ELSE Goto(c, "push")
    /\ UNCHANGED poolVars

\* No more thread to create: start() has returned, and commit goes on.
CreateDone(c) ==
    /\ At(c, "create")
    /\ call[c].left = 0
    /\ IF call[c].back = "idle" THEN Return(c) ELSE Goto(c, call[c].back)
    /\ UNCHANGED poolVars

\* A thread object that is not in use: which one makes no difference.
FreeWorkers == {w \in Workers : pc[w] = "none"}
NewWorker   == CHOOSE w \in Workers : pc[w] = "none"

\* Mutant: createThread does not look at max_thread_num.
CreateThread_NoCheck(c) ==
    /\ At(c, "create")
    /\ call[c].left > 0
    /\ FreeWorkers # {}
    /\ pc' = [pc EXCEPT ![NewWorker] = "loop"]
    /\ Becomes(c, [call[c] EXCEPT !.at = "add1", !.thread = NewWorker])
    /\ UNCHANGED <<setup, status, counters, threads, job, queueVars, history>>

\* createThread: refuse at max_thread_num, or start a thread, which runs before
\* it is counted.
CreateThread(c) ==
    /\ At(c, "create")
    /\ call[c].left > 0
    /\ \/ /\ cur_thread_num >= max_thread_num
          /\ Becomes(c, [call[c] EXCEPT !.left = call[c].left - 1])
          /\ UNCHANGED pc
       \/ /\ cur_thread_num < max_thread_num
          /\ FreeWorkers # {}
          /\ pc' = [pc EXCEPT ![NewWorker] = "loop"]
          /\ Becomes(c, [call[c] EXCEPT !.at = "add1", !.thread = NewWorker])
    /\ UNCHANGED <<setup, status, counters, threads, job, queueVars, history>>

\* addThread: ++cur_thread_num, ...
AddThread1(c) ==
    /\ At(c, "add1")
    /\ ThreadMutexFree
    /\ cur_thread_num' = cur_thread_num + 1
    /\ call' = Noticed([call EXCEPT ![c] = [call[c] EXCEPT !.at = "add2"]])
    /\ UNCHANGED <<setup, status, idle_thread_num, workerVars, queueVars, history>>

\* ... ++idle_thread_num, and the thread is listed.
AddThread2(c) ==
    /\ At(c, "add2")
    /\ idle_thread_num' = idle_thread_num + 1
    /\ threads' = [threads EXCEPT ![call[c].thread] = "RUNNING"]
    /\ call' = Noticed([call EXCEPT ![c] = [call[c] EXCEPT
                     !.at = "create", !.left = call[c].left - 1, !.thread = None]])
    /\ UNCHANGED <<setup, status, cur_thread_num, pc, job, queueVars, history>>

\* The task is queued under task_mutex, ...
CommitPush(c) ==
    /\ At(c, "push")
    /\ task_mutex = Free
    /\ tasks' = Append(tasks, call[c].task)
    /\ Becomes(c, [call[c] EXCEPT !.at = "notify", !.task = None])
    /\ UNCHANGED <<setup, status, counters, workerVars, task_mutex, history>>

\* Mutant: commit does not notify.
CommitNotify_Silent(c) == At(c, "notify") /\ Return(c) /\ UNCHANGED poolVars

\* ... and one waiting thread, if there is one, is woken.
CommitNotify(c) ==
    /\ At(c, "notify")
    /\ Return(c)
    /\ LET waiting == {w \in Workers : pc[w] = "wait"}
       IN  IF waiting = {} THEN UNCHANGED pc
           ELSE \E w \in waiting : pc' = [pc EXCEPT ![w] = "lock"]
    /\ UNCHANGED <<setup, status, counters, threads, job, queueVars, history>>

-----------------------------------------------------------------------------
(* stop, pause, resume and wait.                                           *)

\* stop(): status = STOP, without task_mutex, ...
StopCall(c) ==
    /\ "stop" \in setup.calls[c]
    /\ At(c, "idle")
    /\ \A d \in Clients : call[d].at \notin Structural
    /\ status # "STOP"
    /\ status' = "STOP"
    /\ Goto(c, "notify_all")
    /\ eager' = {}
    /\ UNCHANGED <<setup, counters, workerVars, queueVars, done>>

\* ... every thread that is waiting now is woken, ...
StopNotify(c) ==
    /\ At(c, "notify_all")
    /\ pc' = [w \in Workers |-> IF pc[w] = "wait" THEN "lock" ELSE pc[w]]
    /\ Goto(c, "join")
    /\ UNCHANGED <<setup, status, counters, threads, job, queueVars, history>>

\* ... joined, and forgotten.  The queue is left as it is.
StopJoin(c) ==
    /\ At(c, "join")
    /\ \A w \in Workers : threads[w] # None => pc[w] = "exited"
    /\ threads' = [w \in Workers |-> None]
    /\ pc' = [w \in Workers |-> IF threads[w] # None THEN "none" ELSE pc[w]]
    /\ cur_thread_num' = 0
    /\ idle_thread_num' = 0
    /\ Return(c)
    /\ UNCHANGED <<setup, status, job, queueVars, history>>

\* pause(): `if (status == RUNNING)`, ...
PauseCall(c) ==
    /\ "pause" \in setup.calls[c]
    /\ At(c, "idle")
    /\ status = "RUNNING"
    /\ Goto(c, "pause")
    /\ UNCHANGED poolVars

\* ... then `status = PAUSE`, whatever it has become.
PauseSet(c) ==
    /\ At(c, "pause")
    /\ status' = "PAUSE"
    /\ eager' = {}
    /\ Return(c)
    /\ UNCHANGED <<setup, counters, workerVars, queueVars, done>>

\* resume(), in the same two steps.
ResumeCall(c) ==
    /\ "resume" \in setup.calls[c]
    /\ At(c, "idle")
    /\ status = "PAUSE"
    /\ Goto(c, "resume")
    /\ UNCHANGED poolVars

ResumeSet(c) ==
    /\ At(c, "resume")
    /\ status' = "RUNNING"
    /\ eager' = {}
    /\ Return(c)
    /\ UNCHANGED <<setup, counters, workerVars, queueVars, done>>

\* wait(): a loop until the pool is stopped, ...
WaitCall(c) ==
    /\ "wait" \in setup.calls[c]
    /\ At(c, "idle")
    /\ Becomes(c, [call[c] EXCEPT !.at = "empty", !.until = Committed])
    /\ UNCHANGED poolVars

WaitStopped(c) ==
    /\ At(c, "empty")
    /\ status = "STOP"
    /\ Return(c)
    /\ UNCHANGED poolVars

\* ... or the queue is empty (until then it yields and looks again) ...
WaitEmpty(c) ==
    /\ At(c, "empty")
    /\ status # "STOP"
    /\ IF tasks = <<>> THEN Goto(c, "compare") ELSE UNCHANGED call
    /\ UNCHANGED poolVars

\* ... and every thread is idle: the counters are read one after the other, in
\* either order, ...
WaitRead(c) ==
    /\ At(c, "compare")
    /\ \E r \in {[at |-> "idle_read", seen |-> idle_thread_num],
                [at |-> "cur_read", seen |-> cur_thread_num]} :
          Becomes(c, [call[c] EXCEPT !.at = r.at, !.seen = r.seen,
                                  !.moved = ~ThreadMutexFree])
    /\ UNCHANGED poolVars

\* ... and compared.
WaitCompare(c) ==
    /\ call[c].at \in {"idle_read", "cur_read"}
    /\ IF call[c].seen = (IF At(c, "idle_read") THEN cur_thread_num ELSE idle_thread_num)
       THEN Return(c)
       ELSE Becomes(c, [call[c] EXCEPT !.at = "empty", !.seen = 0, !.moved = FALSE])
    /\ UNCHANGED poolVars

-----------------------------------------------------------------------------
(* The thread function of createThread.                                    *)

Move(w, l) == pc' = [pc EXCEPT ![w] = l]

\* while (status != STOP)
Loop(w) ==
    /\ pc[w] = "loop"
    /\ Move(w, IF status = "STOP" THEN "exited" ELSE "gate")
    /\ UNCHANGED <<setup, status, counters, threads, job, queueVars, call, history>>

\* Mutant: the inner loop is missing.
Gate_NoPause(w) ==
    /\ pc[w] = "gate"
    /\ Move(w, "lock")
    /\ UNCHANGED <<setup, status, counters, threads, job, queueVars, call, history>>

\* while (status == PAUSE) yield
Gate(w) ==
    /\ pc[w] = "gate"
    /\ status # "PAUSE"
    /\ Move(w, "lock")
    /\ UNCHANGED <<setup, status, counters, threads, job, queueVars, call, history>>

\* wait_for, first look or after a wake: nothing to do, so the thread will block,
\* the mutex still held ...
Block(w) ==
    /\ pc[w] = "lock"
    /\ task_mutex = Free
    /\ status # "STOP"
    /\ tasks = <<>>
    /\ task_mutex' = w
    /\ Move(w, "block")
    /\ UNCHANGED <<setup, status, counters, threads, job, tasks, call, history>>

\* ... until it waits.
Wait(w) ==
    /\ pc[w] = "block"
    /\ task_mutex' = Free
    /\ Move(w, "wait")
    /\ UNCHANGED <<setup, status, counters, threads, job, tasks, call, history>>

\* Mutant: wait in place of wait_for.
Timeout_Never(w) == FALSE /\ pc[w] = "wait" /\ UNCHANGED vars

\* max_idle_time has passed.
Timeout(w) ==
    /\ pc[w] = "wait"
    /\ Move(w, "expired")
    /\ UNCHANGED <<setup, status, counters, threads, job, queueVars, call, history>>

\* wait_for has returned and the pool is stopped: return.
Exit(w) ==
    /\ pc[w] \in {"lock", "expired"}
    /\ task_mutex = Free
    /\ status = "STOP"
    /\ Move(w, "exited")
    /\ UNCHANGED <<setup, status, counters, threads, job, queueVars, call, history>>

\* wait_for has returned, the mutex is taken again and the pool is not stopped.
Returned(w) == pc[w] \in {"lock", "expired"} /\ task_mutex = Free /\ status # "STOP"

\* Thread w goes on with task t and leaves the others in the queue.
StartTask(w, t, others, idle) ==
    /\ Returned(w)
    /\ tasks # <<>>
    /\ idle_thread_num' = idle
    /\ job' = [job EXCEPT ![w] = t]
    /\ tasks' = others
    /\ Move(w, "run")
    /\ eager' = IF status = "PAUSE" THEN eager \cup {w} ELSE eager
    /\ UNCHANGED <<setup, status, cur_thread_num, threads, task_mutex, call, done>>

\* Mutant: the thread still counts as idle.
Take_StaysIdle(w) == StartTask(w, Head(tasks), Tail(tasks), idle_thread_num)

\* Mutant: front() without pop().
Take_NoPop(w) == StartTask(w, Head(tasks), tasks, idle_thread_num - 1)

\* It has returned with a task in the queue: --idle_thread_num, take it.
Take(w) == StartTask(w, Head(tasks), Tail(tasks), idle_thread_num - 1)

\* It has timed out without a task: the thread leaves, or goes on.
Decide(w, leaves) ==
    /\ Returned(w)
    /\ pc[w] = "expired"
    /\ tasks = <<>>
    /\ Move(w, IF leaves THEN "del1" ELSE "loop")
    /\ task_mutex' = IF leaves THEN w ELSE Free
    /\ UNCHANGED <<setup, status, counters, threads, job, tasks, call, history>>

\* Mutant: a thread leaves even if it is one of the least number.
Expire_NoMinimum(w) == Decide(w, TRUE)

\* It leaves, the mutex still held, if there are threads to spare.
Expire(w) == Decide(w, cur_thread_num > min_thread_num)

\* delThread, called with task_mutex held: --cur_thread_num, ...
DelThread1(w) ==
    /\ pc[w] = "del1"
    /\ ThreadMutexFree
    /\ cur_thread_num' = cur_thread_num - 1
    /\ Move(w, "del2")
    /\ call' = Noticed(call)
    /\ UNCHANGED <<setup, status, idle_thread_num, threads, job, queueVars, history>>

\* Threads that left more than a second ago are joined and dropped, this one is
\* marked if it is listed yet; the mutexes are released.
LeaveList(w) ==
    /\ pc[w] = "del2"
    /\ \E old \in SUBSET {v \in Workers : threads[v] = "STOP" /\ pc[v] = "exited"} :
          /\ threads' = [v \in Workers |->
                            IF v \in old THEN None
                            ELSE IF v = w /\ threads[v] # None THEN "STOP"
                            ELSE threads[v]]
          /\ pc' = [v \in Workers |-> IF v = w THEN "exited"
                                      ELSE IF v \in old THEN "none" ELSE pc[v]]
    /\ task_mutex' = Free
    /\ call' = Noticed(call)
    /\ UNCHANGED <<setup, status, cur_thread_num, job, tasks, history>>

\* Mutant: the idle threads are not counted down.
DelThread2_StaysIdle(w) == LeaveList(w) /\ UNCHANGED idle_thread_num

\* ... --idle_thread_num, and the thread is gone.
DelThread2(w) == LeaveList(w) /\ idle_thread_num' = idle_thread_num - 1

\* task() returns, ...
RunTask(w) ==
    /\ pc[w] = "run"
    /\ done' = done \cup {job[w]}
    /\ job' = [job EXCEPT ![w] = None]
    /\ Move(w, "ran")
    /\ UNCHANGED <<setup, status, counters, threads, queueVars, call, eager>>

\* Mutant: ++idle_thread_num is missing.
BackToIdle_NoCount(w) ==
    /\ pc[w] = "ran"
    /\ Move(w, "loop")
    /\ UNCHANGED <<setup, status, counters, threads, job, queueVars, call, history>>

\* ... ++idle_thread_num.
BackToIdle(w) ==
    /\ pc[w] = "ran"
    /\ idle_thread_num' = idle_thread_num + 1
    /\ Move(w, "loop")
    /\ UNCHANGED <<setup, status, cur_thread_num, threads, job, queueVars, call, history>>

-----------------------------------------------------------------------------
Init ==
    /\ setup \in Setups
    /\ status = "STOP"
    /\ cur_thread_num = 0
    /\ idle_thread_num = 0
    /\ threads = [w \in Workers |-> None]
    /\ tasks = <<>>
    /\ task_mutex = Free
    /\ pc = [w \in Workers |-> "none"]
    /\ job = [w \in Workers |-> None]
    /\ call = [c \in Clients |-> Idle]
    /\ done = {}
    /\ eager = {}

\* A client takes the next step of the call it is in ...
Proceed(c) ==
    \/ StartTest(c) \/ StartRun(c) \/ CommitCheck(c) \/ CommitSize(c) \/ CommitRoom(c)
    \/ CreateDone(c) \/ CreateThread(c) \/ AddThread1(c) \/ AddThread2(c)
    \/ CommitPush(c) \/ CommitNotify(c) \/ StopNotify(c) \/ StopJoin(c) \/ PauseSet(c)
    \/ ResumeSet(c) \/ WaitStopped(c) \/ WaitEmpty(c) \/ WaitRead(c) \/ WaitCompare(c)

\* ... or begins another.
Begin(c) ==
    \/ StartCall(c) \/ StopCall(c) \/ PauseCall(c) \/ ResumeCall(c) \/ WaitCall(c)
    \/ \E t \in Tasks : CommitCall(c, t)

Thread(w) ==
    \/ Loop(w) \/ Gate(w) \/ Block(w) \/ Wait(w) \/ Exit(w) \/ Take(w) \/ Expire(w)
    \/ Timeout(w) \/ DelThread1(w) \/ DelThread2(w) \/ RunTask(w) \/ BackToIdle(w)

Next ==
    \/ \E c \in Clients : Proceed(c) \/ Begin(c)
    \/ \E w \in Workers : Thread(w)

Spec == Init /\ [][Next]_vars

\* Every thread goes on while it can, and a wait comes to its timeout; a client is
\* free to begin no call.
Fairness ==
    /\ \A c \in Clients : WF_vars(Proceed(c))
    /\ \A w \in Workers : SF_vars(Thread(w))

FairSpec == Spec /\ Fairness

-----------------------------------------------------------------------------
(* Properties.                                                             *)

\* Every variable stays in its type.
TypeOK ==
    /\ status \in {"STOP", "RUNNING", "PAUSE"}
    /\ cur_thread_num \in Int /\ idle_thread_num \in Int
    /\ threads \in [Workers -> {None, "RUNNING", "STOP"}]
    /\ tasks \in Seq(Tasks)
    /\ task_mutex \in Workers \cup {Free}
    /\ pc \in [Workers -> WorkerPcs]
    /\ job \in [Workers -> Tasks \cup {None}]
    /\ call \in [Clients -> Call]
    /\ setup \in Setups
    /\ done \subseteq Tasks
    /\ eager \subseteq Workers

\* Neither counter drifts: at any moment the idle threads are the counted ones less
\* those that run a task, but for a thread being added (counted, not yet idle) or
\* removed (still idle, no longer counted).  Each counter is a separate atomic, and
\* a thread may take a task before addThread has counted it.
CountersAgree ==
    idle_thread_num = cur_thread_num
        - Cardinality({w \in Workers : pc[w] \in {"run", "ran"}})
        + Cardinality(Removing) - Cardinality(Adding)

\* max_thread_num is exceeded by at most the number of clients less one: two commits
\* may both find room for the same last thread (hthreadpool.h:130, 150 and 187).
ThreadCap ==
    cur_thread_num + Cardinality({c \in Clients : At(c, "add1")})
        <= max_thread_num + Cardinality(Clients) - 1

\* No client may bring a pool back to RUNNING after a stop() it has not seen.
NobodyResumes == \A c \in Clients : "resume" \notin setup.calls[c]

\* The threads that serve the queue, those of them that will look at it without
\* being woken, and the clients that create the first threads in start().
Staff       == {w \in Workers : pc[w] \in {"loop", "gate", "lock", "block", "wait",
                                          "expired", "run", "ran"}}
Awake       == {w \in Staff : pc[w] \notin {"block", "wait"}}
Starting(c) == call[c].at \in {"create", "add1", "add2"} /\ call[c].back # "push"

\* Once start() has created them, a running pool has its least number of threads at
\* every moment: however many threads time out at once, and whatever is added
\* meanwhile, those that leave are spare ones (hthreadpool.h:165).
KeepsMinimum ==
    NobodyResumes /\ status = "RUNNING" =>
        Cardinality(Staff) >= min_thread_num \/ \E c \in Clients : Starting(c)

\* Tasks never lie in the queue of a running pool with every thread asleep or gone:
\* some thread is awake, or is about to be woken or created.  A pool without a least
\* number of threads may lose its last one while a task is committed to it.
QueueIsAttended ==
    NobodyResumes /\ status = "RUNNING" /\ min_thread_num > 0 /\ tasks # <<>> =>
        \/ Awake # {}
        \/ \E c \in Clients : At(c, "notify") \/ (Starting(c) /\ call[c].left > 0)

\* A wait() that finds the queue empty and all threads idle returns only when every
\* task committed before it is done, unless a thread is added or leaves while it
\* reads the two counters: then they may be equal although a thread runs.
WaitIsABarrier ==
    [][\A c \in Clients :
          call[c].at \in {"idle_read", "cur_read"} /\ call'[c] = Idle =>
              call[c].until \subseteq done \/ call[c].moved]_vars

\* pause() lets each thread start at most one more task, the one it was already
\* waiting for: a thread looks at PAUSE only between two tasks.
PausePromise ==
    [][\A w \in Workers :
          status = "PAUSE" /\ pc[w] # "run" /\ pc'[w] = "run" => w \notin eager]_vars

\* The pool does what TaskPool promises: no task is lost from the queue, started
\* twice or out of order, whatever the threads and the clients do.
Promise == INSTANCE TaskPool WITH queue <- tasks, running <- Running
ImplementsTaskPool == Promise!Spec

\* A task in the queue of a pool that nobody pauses is run, unless the pool is
\* stopped: no wake-up is lost, and the threads that leave never leave the queue
\* without one.
QueuedIsRun ==
    \A t \in Tasks : (t \in Queued /\ NobodyResumes) ~> (t \in done \/ status # "RUNNING")

\* stop() comes to its end, unless a pause() or resume() that looked at the status
\* before it overwrites STOP afterwards: then the threads never see it.  The wake-up
\* of a thread about to wait may be lost, and its timeout makes up for it.
StopReturns ==
    (\E c \in Clients : At(c, "join"))
        ~> ((\A c \in Clients : ~At(c, "join")) \/ status # "STOP")

\* wait() comes to its end in a pool that is not paused.
WaitReturns ==
    \A c \in Clients : At(c, "empty") ~> (At(c, "idle") \/ status = "PAUSE")

=============================================================================

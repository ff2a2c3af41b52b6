---------------------------- MODULE MyHttpServer ----------------------------
(***************************************************************************)
(* The HTTP side of the program: MyHttpServer (the facade in the GUI       *)
(* thread) and MyHttpServerWorker (the object moved to m_workerThread).    *)
(* slotStart keeps the router and the server on its stack, starts libhv's  *)
(* IO thread, waits for Enter on the console, deletes the global thread    *)
(* pool and only then, on return, destroys the server and the router.      *)
(*                                                                         *)
(* Four threads meet here: the GUI, the worker, libhv's IO thread (which   *)
(* runs the handlers of the routes, and hands /async to the pool) and the  *)
(* threads of the pool, GlobalThreadPool.  The pool itself is HThreadPool; *)
(* here it keeps its status, its queue, how many threads it has, and its   *)
(* life time, and unlike there commit() may meet the stop() of the cleanup. *)
(***************************************************************************)
EXTENDS Integers, Sequences, FiniteSets, SequencesExt

CONSTANTS
    AsyncRequests, \* the GET /async requests the clients make
    PoolThreads,   \* max_thread_num of the pool
    MaxStarts,     \* bound: calls of MyHttpServer::start
    MaxPools       \* bound: thread pools created one after the other

ASSUME PoolThreadsAssumption == PoolThreads \in Nat \ {0}
ASSUME BoundsAssumption ==
    MaxStarts \in Nat /\ MaxPools \in Nat /\ MaxPools > MaxStarts

VARIABLES
    gui,       \* what the GUI thread does: "free", or "stop" inside stop()
    thread,    \* m_workerThread: "off", "running" or "finished"
    quit,      \* quit() was called since the thread started
    work,      \* m_work has not been deleted
    posted,    \* signalStart events in the worker's queue
    starts,    \* calls of start(), for the bound
    slot,      \* where slotStart is, see Slots
    stdin,     \* the console: "quiet", "enter" (a line is waiting) or "eof"
    accepting, \* the server's IO thread runs
    io,        \* what the IO thread does
    instance,  \* GlobalThreadPool::s_pInstance
    alive,     \* the pools that are constructed and not deleted
    stopping,  \* the pools that exitInstance has begun to delete
    status,    \* of each pool: "STOP" or "RUNNING"
    cur_thread_num, \* of each pool; a thread that returns on STOP stays counted
    threads,   \* the threads of each pool that have not returned
    tasks,     \* the queue of each pool
    busy,      \* the tasks the threads of each pool are running
    answered,  \* the /async requests whose handler has run
    broken     \* a pool that is null or deleted was used, or a running thread's
               \* object destroyed: the program has died, or may do anything

guiVars   == <<gui, thread, quit, work, posted, starts>>
ownVars   == <<instance, alive, stopping>>
staffVars == <<status, cur_thread_num, threads>>
taskVars  == <<tasks, busy, answered>>
vars == <<guiVars, slot, stdin, accepting, io, ownVars, staffVars, taskVars, broken>>

Null  == 0
Pools == 1..MaxPools

\* "none": not running; "getchar": the server is up, waiting for a line;
\* "cleanup": exitInstance holds s_mutex; "joining": ~HThreadPool in the loop of
\* stop(); "joined": past it; "deleted": before s_pInstance = NULL; "closing": the
\* mutex is free, before ~HttpServer; "ending": ~HttpServer waits for the IO thread.
Slots == {"none", "getchar", "cleanup", "joining", "joined", "deleted", "closing",
          "ending"}

\* The IO thread between two requests, in a handler that answers at once, or
\* in hv::async for request req: about to call instance(), to return from it, and,
\* in commit() on what it returned, to look at the status, at the counters, to push.
IoIdle == [at |-> "idle"]
IoSync == [at |-> "sync"]
IoInstance(r)  == [at |-> "instance", req |-> r]
IoReturn(r)    == [at |-> "return", req |-> r]
CommitAts      == {"commit", "room", "push"}
IoIn(l, r, p)  == [at |-> l, req |-> r, pool |-> p]
IoStates == {IoIdle, IoSync}
            \cup {IoInstance(r) : r \in AsyncRequests}
            \cup {IoReturn(r) : r \in AsyncRequests}
            \cup [at : CommitAts, req : AsyncRequests, pool : {Null} \cup Pools]

MutexFree == slot \notin {"cleanup", "joining", "joined", "deleted"}

\* A pool keeps one thread when it is idle.
min_thread_num == 1

\* The requests waiting in a pool.
Queued(p) == ToSet(tasks[p])

-----------------------------------------------------------------------------
(* The GUI thread.                                                         *)

\* MyHttpServer::start.  QThread::start does nothing on a running thread; the
\* signal reaches m_work only while m_work exists.
Start ==
    /\ ~broken
    /\ gui = "free"
    /\ starts < MaxStarts
    /\ starts' = starts + 1
    /\ thread' = "running"
    /\ quit' = (quit /\ thread = "running")
    /\ posted' = IF work THEN posted + 1 ELSE posted
    /\ UNCHANGED <<gui, work, slot, stdin, accepting, io, ownVars, staffVars, taskVars, broken>>

\* Mutant: wait() without quit().
StopCall_NoQuit ==
    /\ ~broken
    /\ gui = "free"
    /\ gui' = "stop"
    /\ UNCHANGED <<thread, quit, work, posted, starts, slot, stdin, accepting, io, ownVars,
                   staffVars, taskVars, broken>>

\* MyHttpServer::stop and ~MyHttpServer: quit(), then wait() ...
StopCall ==
    /\ ~broken
    /\ gui = "free"
    /\ quit' = TRUE
    /\ gui' = "stop"
    /\ UNCHANGED <<thread, work, posted, starts, slot, stdin, accepting, io, ownVars,
                   staffVars, taskVars, broken>>

\* ... which returns when the thread does not run, or no longer.
StopReturn ==
    /\ ~broken
    /\ gui = "stop"
    /\ thread # "running"
    /\ gui' = "free"
    /\ UNCHANGED <<thread, quit, work, posted, starts, slot, stdin, accepting, io, ownVars,
                   staffVars, taskVars, broken>>

-----------------------------------------------------------------------------
(* The worker thread.                                                      *)

\* slotStart up to the wait: the result of server.start() is not looked at, so
\* the wait begins whether the port could be bound or not.
SlotStart ==
    /\ ~broken
    /\ thread = "running"
    /\ slot = "none"
    /\ posted > 0
    /\ posted' = posted - 1
    /\ slot' = "getchar"
    /\ accepting' \in BOOLEAN
    /\ UNCHANGED <<gui, thread, quit, work, starts, stdin, io, ownVars, staffVars,
                   taskVars, broken>>

\* Mutant: the loop ends at the end of the input as well.
ReadLine_EndsAtEof ==
    /\ ~broken
    /\ slot = "getchar"
    /\ stdin # "quiet"
    /\ stdin' = IF stdin = "eof" THEN "eof" ELSE "quiet"
    /\ slot' = "cleanup"
    /\ UNCHANGED <<guiVars, accepting, io, ownVars, staffVars, taskVars, broken>>

\* while (getchar() != '\n'): a line ends the loop, the end of the input does
\* not; then cleanup() takes s_mutex, which no one else can hold here.
ReadLine ==
    /\ ~broken
    /\ slot = "getchar"
    /\ stdin = "enter"
    /\ stdin' = "quiet"
    /\ slot' = "cleanup"
    /\ UNCHANGED <<guiVars, accepting, io, ownVars, staffVars, taskVars, broken>>

\* The same loop when getchar() returns EOF: it turns at once.
SpinAtEof ==
    /\ ~broken
    /\ slot = "getchar"
    /\ stdin = "eof"
    /\ UNCHANGED vars

\* exitInstance: nothing to do without a pool, otherwise `delete s_pInstance`.  Its
\* destructor calls stop(), which returns at once if the pool was never started, and
\* otherwise sets the status and goes on to join the threads.
ExitInstance ==
    /\ ~broken
    /\ slot = "cleanup"
    /\ IF instance = Null
       THEN slot' = "closing" /\ UNCHANGED <<stopping, status>>
       ELSE /\ stopping' = stopping \cup {instance}
            /\ slot' = IF status[instance] = "STOP" THEN "joined" ELSE "joining"
            /\ status' = [status EXCEPT ![instance] = "STOP"]
    /\ UNCHANGED <<guiVars, stdin, accepting, io, instance, alive, cur_thread_num, threads,
                   taskVars, broken>>

\* Mutant: the threads are not joined.
JoinThreads_NoJoin ==
    /\ ~broken
    /\ slot = "joining"
    /\ slot' = "joined"
    /\ cur_thread_num' = [cur_thread_num EXCEPT ![instance] = 0]
    /\ UNCHANGED <<guiVars, stdin, accepting, io, ownVars, status, threads, taskVars, broken>>

\* The loop over `threads` ends when all of them have returned, those that were added
\* during the loop included; then the list is cleared and the counter reset.
JoinThreads ==
    /\ ~broken
    /\ slot = "joining"
    /\ threads[instance] = 0
    /\ slot' = "joined"
    /\ cur_thread_num' = [cur_thread_num EXCEPT ![instance] = 0]
    /\ UNCHANGED <<guiVars, stdin, accepting, io, ownVars, status, threads, taskVars, broken>>

\* The tasks still in the queue go with the pool.
PoolDeleted ==
    /\ ~broken
    /\ slot = "joined"
    /\ slot' = "deleted"
    /\ alive' = alive \ {instance}
    /\ tasks' = [tasks EXCEPT ![instance] = <<>>]
    /\ UNCHANGED <<guiVars, stdin, accepting, io, instance, stopping, staffVars, busy,
                   answered, broken>>

\* Mutant: s_pInstance keeps its value.
ResetInstance_Kept ==
    /\ ~broken
    /\ slot = "deleted"
    /\ slot' = "closing"
    /\ UNCHANGED <<guiVars, stdin, accepting, io, ownVars, staffVars, taskVars, broken>>

\* s_pInstance = NULL, and the mutex is unlocked.
ResetInstance ==
    /\ ~broken
    /\ slot = "deleted"
    /\ slot' = "closing"
    /\ instance' = Null
    /\ UNCHANGED <<guiVars, stdin, accepting, io, alive, stopping, staffVars, taskVars, broken>>

\* The end of slotStart: ~HttpServer tells the IO thread to stop ...
CloseServer ==
    /\ ~broken
    /\ slot = "closing"
    /\ slot' = "ending"
    /\ accepting' = FALSE
    /\ UNCHANGED <<guiVars, stdin, io, ownVars, staffVars, taskVars, broken>>

\* Mutant: the IO thread is not joined.
SlotReturn_NoJoin ==
    /\ ~broken
    /\ slot = "ending"
    /\ slot' = "none"
    /\ UNCHANGED <<guiVars, stdin, accepting, io, ownVars, staffVars, taskVars, broken>>

\* ... and joins it; then the router, declared before the server, goes.
SlotReturn ==
    /\ ~broken
    /\ slot = "ending"
    /\ io = IoIdle
    /\ slot' = "none"
    /\ UNCHANGED <<guiVars, stdin, accepting, io, ownVars, staffVars, taskVars, broken>>

\* Mutant: finished is not connected to deleteLater.
Finish_KeepsWork ==
    /\ ~broken
    /\ thread = "running"
    /\ slot = "none"
    /\ quit
    /\ thread' = "finished"
    /\ UNCHANGED <<gui, quit, work, posted, starts, slot, stdin, accepting, io, ownVars,
                   staffVars, taskVars, broken>>

\* The event loop sees quit between two slots: the thread finishes, m_work is
\* deleted and its events with it.
Finish ==
    /\ ~broken
    /\ thread = "running"
    /\ slot = "none"
    /\ quit
    /\ thread' = "finished"
    /\ work' = FALSE
    /\ posted' = 0
    /\ UNCHANGED <<gui, quit, starts, slot, stdin, accepting, io, ownVars, staffVars, taskVars,
                   broken>>

-----------------------------------------------------------------------------
(* The console: someone presses Enter.                                     *)

TypeEnter ==
    /\ ~broken
    /\ stdin = "quiet"
    /\ stdin' = "enter"
    /\ UNCHANGED <<guiVars, slot, accepting, io, ownVars, staffVars, taskVars, broken>>

-----------------------------------------------------------------------------
(* libhv's IO thread.                                                      *)

\* A request for a route whose handler runs on the IO thread: begin, ...
SyncRequest ==
    /\ ~broken
    /\ accepting
    /\ io = IoIdle
    /\ io' = IoSync
    /\ UNCHANGED <<guiVars, slot, stdin, accepting, ownVars, staffVars, taskVars, broken>>

\* ... and the answer.
SyncResponse ==
    /\ ~broken
    /\ io = IoSync
    /\ io' = IoIdle
    /\ UNCHANGED <<guiVars, slot, stdin, accepting, ownVars, staffVars, taskVars, broken>>

Arrived(r) ==
    \/ r \in answered
    \/ io \notin {IoIdle, IoSync} /\ io.req = r
    \/ \E p \in Pools : r \in Queued(p) \cup busy[p]

\* A request for /async: the handler is to run on the pool.
AsyncRequest(r) ==
    /\ ~broken
    /\ accepting
    /\ io = IoIdle
    /\ ~Arrived(r)
    /\ io' = IoInstance(r)
    /\ UNCHANGED <<guiVars, slot, stdin, accepting, ownVars, staffVars, taskVars, broken>>

\* GlobalThreadPool::instance: without s_mutex when s_pInstance is set, with it
\* to create the pool ...
GetInstance ==
    /\ ~broken
    /\ io.at = "instance"
    /\ io' = IoReturn(io.req)
    /\ \/ /\ instance # Null
          /\ UNCHANGED <<instance, alive>>
       \/ /\ instance = Null
          /\ MutexFree
          /\ \E p \in Pools \ (alive \cup stopping) :
                /\ instance' = p
                /\ alive' = alive \cup {p}
    /\ UNCHANGED <<guiVars, slot, stdin, accepting, stopping, staffVars, taskVars, broken>>

\* ... and `return s_pInstance`, which reads the pointer once more.
ReturnInstance ==
    /\ ~broken
    /\ io.at = "return"
    /\ io' = IoIn("commit", io.req, instance)
    /\ UNCHANGED <<guiVars, slot, stdin, accepting, ownVars, staffVars, taskVars, broken>>

\* The next step of commit(), which needs a pool to work on.
InCommit(l, next) ==
    /\ ~broken
    /\ io.at = l
    /\ io.pool \in alive
    /\ io' = next
    /\ UNCHANGED <<guiVars, slot, stdin, accepting, ownVars>>

\* createThread: refuse at max_thread_num.  A thread added past the loop of stop() is
\* never joined, and its object is destroyed with the list.
CreateThread(p) ==
    IF cur_thread_num[p] >= PoolThreads
    THEN UNCHANGED <<cur_thread_num, threads, broken>>
    ELSE /\ cur_thread_num' = [cur_thread_num EXCEPT ![p] = @ + 1]
         /\ threads' = [threads EXCEPT ![p] = @ + 1]
         /\ broken' = (slot = "joined")

\* commit: `if (status == STOP) start()`, even if it is exitInstance that has set it ...
CommitStart ==
    /\ InCommit("commit", IoIn("room", io.req, io.pool))
    /\ IF status[io.pool] = "STOP"
       THEN status' = [status EXCEPT ![io.pool] = "RUNNING"] /\ CreateThread(io.pool)
       ELSE UNCHANGED <<staffVars, broken>>
    /\ UNCHANGED taskVars

\* ... one more thread, if idle_thread_num and the size of the queue, both read without
\* task_mutex, ask for it ...
CommitRoom ==
    /\ InCommit("room", IoIn("push", io.req, io.pool))
    /\ CreateThread(io.pool) \/ UNCHANGED <<cur_thread_num, threads, broken>>
    /\ UNCHANGED <<status, taskVars>>

\* ... and the task is queued.
CommitPush ==
    /\ InCommit("push", IoIdle)
    /\ tasks' = [tasks EXCEPT ![io.pool] = Append(@, io.req)]
    /\ UNCHANGED <<staffVars, busy, answered, broken>>

\* Any of them on a pool that is deleted, or on a null pointer.
CommitOnNone ==
    /\ ~broken
    /\ io.at \in CommitAts
    /\ io.pool \notin alive
    /\ broken' = TRUE
    /\ UNCHANGED <<guiVars, slot, stdin, accepting, io, ownVars, staffVars, taskVars>>

-----------------------------------------------------------------------------
(* The threads of the pool.                                                *)

\* Some thread of the pool has no task.
Spare(p) == Cardinality(busy[p]) < threads[p]

\* A thread takes the first task, ...
BeginTask(p) ==
    /\ ~broken
    /\ status[p] = "RUNNING"
    /\ Spare(p)
    /\ tasks[p] # <<>>
    /\ tasks' = [tasks EXCEPT ![p] = Tail(@)]
    /\ busy' = [busy EXCEPT ![p] = @ \cup {Head(tasks[p])}]
    /\ UNCHANGED <<guiVars, slot, stdin, accepting, io, ownVars, staffVars, answered, broken>>

\* Mutant: the writer is never ended, so there is no answer.
EndTask_Silent(p, r) ==
    /\ ~broken
    /\ r \in busy[p]
    /\ busy' = [busy EXCEPT ![p] = @ \ {r}]
    /\ UNCHANGED <<guiVars, slot, stdin, accepting, io, ownVars, staffVars, tasks, answered,
                   broken>>

\* ... runs the handler of /async, which writes the answer.
EndTask(p, r) ==
    /\ ~broken
    /\ r \in busy[p]
    /\ busy' = [busy EXCEPT ![p] = @ \ {r}]
    /\ answered' = answered \cup {r}
    /\ UNCHANGED <<guiVars, slot, stdin, accepting, io, ownVars, staffVars, tasks, broken>>

\* A thread without a task returns when it sees STOP, ...
Leave(p) ==
    /\ ~broken
    /\ status[p] = "STOP"
    /\ Spare(p)
    /\ threads' = [threads EXCEPT ![p] = @ - 1]
    /\ UNCHANGED <<guiVars, slot, stdin, accepting, io, ownVars, status, cur_thread_num,
                   taskVars, broken>>

\* ... or after max_idle_time, if it is not the last by the counter.
Expire(p) ==
    /\ ~broken
    /\ status[p] = "RUNNING"
    /\ Spare(p)
    /\ tasks[p] = <<>>
    /\ cur_thread_num[p] > min_thread_num
    /\ cur_thread_num' = [cur_thread_num EXCEPT ![p] = @ - 1]
    /\ threads' = [threads EXCEPT ![p] = @ - 1]
    /\ UNCHANGED <<guiVars, slot, stdin, accepting, io, ownVars, status, taskVars, broken>>

-----------------------------------------------------------------------------
Init ==
    /\ gui = "free"
    /\ thread = "off"
    /\ quit = FALSE
    /\ work = TRUE
    /\ posted = 0
    /\ starts = 0
    /\ slot = "none"
    /\ stdin \in {"quiet", "eof"}
    /\ accepting = FALSE
    /\ io = IoIdle
    /\ instance = Null
    /\ alive = {}
    /\ stopping = {}
    /\ status = [p \in Pools |-> "STOP"]
    /\ cur_thread_num = [p \in Pools |-> 0] /\ threads = [p \in Pools |-> 0]
    /\ tasks = [p \in Pools |-> <<>>]
    /\ busy = [p \in Pools |-> {}]
    /\ answered = {}
    /\ broken = FALSE

Gui     == Start \/ StopCall \/ StopReturn
Worker  == \/ SlotStart \/ ReadLine \/ SpinAtEof \/ ExitInstance \/ JoinThreads
           \/ PoolDeleted \/ ResetInstance \/ CloseServer \/ SlotReturn \/ Finish
Handler == \/ SyncResponse \/ GetInstance \/ ReturnInstance \/ CommitStart \/ CommitRoom
           \/ CommitPush \/ CommitOnNone
Io      == SyncRequest \/ Handler \/ \E r \in AsyncRequests : AsyncRequest(r)
Pool    == \E p \in Pools : \/ BeginTask(p) \/ Leave(p) \/ Expire(p)
                           \/ \E r \in AsyncRequests : EndTask(p, r)

\* Nothing is modelled of a program that is broken.
Broken == broken /\ UNCHANGED vars

Next == Gui \/ Worker \/ Io \/ Pool \/ TypeEnter \/ Broken

Spec == Init /\ [][Next]_vars

\* The threads go on while they can, those of the pool in any order; no one has to
\* press Enter, call start or stop, or send a request.
Fairness ==
    /\ WF_vars(StopReturn)
    /\ WF_vars(Worker)
    /\ WF_vars(Handler)
    /\ WF_vars(Pool)

FairSpec == Spec /\ Fairness

\* Environment: someone presses Enter again and again.
AttendedSpec == FairSpec /\ WF_vars(TypeEnter)

-----------------------------------------------------------------------------
(* Properties.                                                             *)

\* Every variable stays in its type.
TypeOK ==
    /\ gui \in {"free", "stop"}
    /\ thread \in {"off", "running", "finished"}
    /\ quit \in BOOLEAN /\ work \in BOOLEAN
    /\ posted \in 0..MaxStarts /\ starts \in 0..MaxStarts
    /\ slot \in Slots
    /\ stdin \in {"quiet", "enter", "eof"}
    /\ accepting \in BOOLEAN
    /\ io \in IoStates
    /\ instance \in {Null} \cup Pools
    /\ alive \subseteq Pools /\ stopping \subseteq Pools
    /\ status \in [Pools -> {"STOP", "RUNNING"}]
    /\ cur_thread_num \in [Pools -> 0..PoolThreads]
    /\ threads \in [Pools -> 0..PoolThreads]
    /\ tasks \in [Pools -> Seq(AsyncRequests)]
    /\ busy \in [Pools -> SUBSET AsyncRequests]
    /\ answered \subseteq AsyncRequests
    /\ broken \in BOOLEAN

\* A handler that runs on the IO thread sees the router: the router and the
\* server are locals of slotStart, so as long as the IO thread is inside a
\* handler the slot must not have returned (myhttpserverworker.cpp:44,162).
HandlersSeeRouter == io # IoIdle \/ accepting => slot # "none"

\* While the slot waits for a line, s_pInstance is null or a pool that no cleanup has
\* touched, and the pool a handler is about to get or got from it is one: what
\* exitInstance leaves behind does not reach the handlers of the next start(), and a
\* handler of the previous one is not late for it.  The program breaks only once a
\* cleanup has let go of the threads of a pool (singleton.h:22-39).
Untouched(p) == p \in alive /\ p \notin stopping
PoolSoundWhileServing ==
    /\ slot = "getchar" =>
          /\ instance = Null \/ Untouched(instance)
          /\ io.at = "return" => instance # Null
          /\ io.at \in CommitAts => Untouched(io.pool)
    /\ broken => slot \in {"joined", "deleted", "closing", "ending"}

\* There is never a second pool next to the global one, and a pool that is deleted has
\* neither a task nor a thread: although instance() and commit() take no mutex that
\* exitInstance holds, and commit() may start the pool again that it is joining
\* (singleton.h:22-39, hthreadpool.h:81-94,129).
OneGlobalPool ==
    /\ alive \subseteq {instance}
    /\ \A p \in Pools : p \notin alive => busy[p] = {} /\ tasks[p] = <<>> /\ threads[p] = 0

\* From the outside the pools that are made and deleted one after the other are one
\* pool, which implements the specification that HThreadPool implements but for what
\* exitInstance throws away: a request is started once, in order, and answered once,
\* whichever pool takes it and even if commit() restarts a pool in its cleanup, and is
\* dropped only before it is started, when no other one runs; until, it may be, a late
\* commit() breaks the program (singleton.h:33-39, hthreadpool.h:40,81,129).
GlobalQueue == IF instance = Null THEN <<>> ELSE tasks[instance]
Started     == UNION {busy[p] : p \in Pools}
Async == INSTANCE TaskPool WITH Tasks <- AsyncRequests, queue <- GlobalQueue,
                                running <- Started, done <- answered
ImplementsAsyncPool == Async!LossySpec

\* stop() returns only if someone pressed Enter since the server came up: once
\* the console is at the end of its input and the server waits for a line, a
\* GUI thread inside stop() stays there (myhttpserverworker.cpp:186).
EofHangsStop == [](gui = "stop" /\ slot = "getchar" /\ stdin = "eof"
                    => [](gui = "stop"))

\* Once the thread has finished the HTTP server is gone for good, however often
\* start() is called and whatever it had posted before: m_work is deleted with the
\* thread (myhttpserver.cpp:10), so the next thread serves nothing.
NoServiceAfterStop ==
    [](thread = "finished" => [](~accepting /\ slot = "none"))

\* A commit() has restarted the pool whose threads exitInstance joins.
Revived == slot = "joining" /\ status[instance] = "RUNNING"

\* A call of stop() returns if someone keeps pressing Enter and the console has an
\* input: the slot, the pool and the IO thread all come to their end.  What keeps it
\* is a request that came too late: it broke the program, or it restarted the pool
\* and a thread of the pool stays for good (hthreadpool.h:85-89,129).
StopReturns ==
    (gui = "stop" /\ stdin # "eof") ~> (gui = "free" \/ broken \/ []Revived)

\* A request for /async that has reached the pool is answered, unless the slot
\* begins its cleanup first, which throws away what is still in the queue.
AsyncAnswered ==
    \A r \in AsyncRequests : \A p \in Pools :
        (r \in Queued(p) \cup busy[p]) ~> (r \in answered \/ slot # "getchar")

\* "press Enter to stop" (myhttpserverworker.cpp:185): once the line is read slotStart
\* comes to its end, if the program does not break first.
EnterStops == (slot = "cleanup") ~> (slot = "none" \/ broken)

\* What the comment at myhttpserver.h:18 says of stop(): it ends the thread.
StopEndsThread == (gui = "stop") ~> (gui = "free")

=============================================================================

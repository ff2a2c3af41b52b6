------------------------ MODULE MyHttpServer_proofs ------------------------
(***************************************************************************)
(* Safety of the HTTP thread, for any number of requests, pool threads,    *)
(* calls of start() and pools.                                             *)
(***************************************************************************)
EXTENDS MyHttpServer, FiniteSetTheorems, TLAPS

\* The server accepts, and its IO thread is in a handler, only inside slotStart.
ServerInSlot ==
    /\ accepting => slot \in Slots \ {"none", "ending"}
    /\ io # IoIdle => slot # "none"

\* The global pool: alive and untouched, but for the steps of exitInstance.
PoolState ==
    /\ slot \notin {"joining", "joined", "deleted"} =>
          /\ alive = IF instance = Null THEN {} ELSE {instance}
          /\ instance \notin stopping
    /\ slot \in {"joining", "joined"} => instance # Null /\ alive = {instance}
    /\ slot = "deleted" => instance # Null /\ alive = {}

\* What a handler inside hv::async may rely on until the pool is deleted: what it has
\* in its hands is the global pool.  So only then, or with the threads let go of, does
\* the program break.
HandlerState ==
    /\ slot \in {"getchar", "cleanup", "joining", "joined"} =>
          /\ io.at = "return" => instance # Null
          /\ io.at \in CommitAts => io.pool = instance /\ instance # Null
    /\ broken => slot \in {"joined", "deleted", "closing", "ending"}

\* The threads of a pool: a pool that has not been started has none, one that commit()
\* has passed by is started unless a cleanup stops it, and the loop of stop() leaves
\* none behind unless the program breaks.
StaffState ==
    /\ \A p \in Pools : /\ IsFiniteSet(busy[p]) /\ Cardinality(busy[p]) <= threads[p]
                        /\ threads[p] <= cur_thread_num[p]
                        /\ p \notin stopping /\ status[p] = "STOP" => threads[p] = 0
    /\ io.at \in {"room", "push"} /\ io.pool \in alive \ stopping
          => status[io.pool] = "RUNNING"
    /\ slot = "joined" /\ ~broken => threads[instance] = 0

DeadPoolsIdle ==
    \A p \in Pools : p \notin alive => busy[p] = {} /\ tasks[p] = <<>> /\ threads[p] = 0

\* m_work goes with its thread, and slotStart runs only in a running thread.
WorkerLife ==
    /\ thread = "finished" => ~work
    /\ ~work => slot = "none" /\ posted = 0
    /\ slot # "none" => thread = "running"
    /\ posted <= starts

IInv == /\ TypeOK /\ ServerInSlot /\ PoolState /\ HandlerState /\ StaffState
        /\ DeadPoolsIdle /\ WorkerLife

USE DEF Null, Pools, Slots, CommitAts, guiVars, ownVars, staffVars, taskVars

-----------------------------------------------------------------------------
(* The states of the IO thread are told apart by `at`.                      *)
LEMMA IoCases ==
    ASSUME NEW x, x \in IoStates
    PROVE  /\ x.at \in {"idle", "sync", "instance", "return"} \cup CommitAts
           /\ x.at = "idle" => x = IoIdle
           /\ x.at \in {"instance", "return"} => x.req \in AsyncRequests
           /\ x.at \in CommitAts => x.req \in AsyncRequests /\ x.pool \in {Null} \cup Pools
BY DEF IoStates, IoIdle, IoSync, IoInstance, IoReturn

LEMMA IoMade ==
    ASSUME NEW r \in AsyncRequests, NEW p \in {Null} \cup Pools
    PROVE  /\ {IoInstance(r), IoReturn(r)} \subseteq IoStates
           /\ IoInstance(r).at = "instance" /\ IoReturn(r).at = "return"
           /\ \A l \in CommitAts : /\ IoIn(l, r, p) \in IoStates
                                   /\ IoIn(l, r, p).at = l
                                   /\ IoIn(l, r, p).req = r /\ IoIn(l, r, p).pool = p
BY DEF IoStates, IoInstance, IoReturn, IoIn

LEMMA IoAtRest ==
    IoIdle \in IoStates /\ IoSync \in IoStates /\ IoIdle.at = "idle" /\ IoSync.at = "sync"
BY DEF IoStates, IoIdle, IoSync

\* Nothing happens in a broken program.
Step == Gui \/ Worker \/ Io \/ Pool \/ TypeEnter

LEMMA NextIsStep == [Next]_vars => UNCHANGED vars \/ (~broken /\ Step)
<1>1. Gui => ~broken BY DEF Gui, Start, StopCall, StopReturn
<1>2. Worker => ~broken
  BY DEF Worker, SlotStart, ReadLine, SpinAtEof, ExitInstance, JoinThreads, PoolDeleted,
         ResetInstance, CloseServer, SlotReturn, Finish
<1>3. Io => ~broken
  BY DEF Io, Handler, SyncRequest, AsyncRequest, SyncResponse, GetInstance, ReturnInstance,
         CommitStart, CommitRoom, CommitPush, InCommit, CommitOnNone
<1>4. Pool => ~broken BY DEF Pool, BeginTask, Leave, Expire, EndTask
<1>5. TypeEnter => ~broken BY DEF TypeEnter
<1> QED BY <1>1, <1>2, <1>3, <1>4, <1>5 DEF Next, Broken, Step

\* Inside commit() the IO thread has a request and a pool.
LEMMA InCommitState ==
    ASSUME TypeOK, NEW l \in CommitAts, io.at = l
    PROVE  io.req \in AsyncRequests /\ io.pool \in {Null} \cup Pools
BY IoCases DEF TypeOK

\* A step of commit() works on the pool it was given and goes on, or ends.
LEMMA CommitMoves ==
    ASSUME TypeOK, CommitStart \/ CommitRoom \/ CommitPush
    PROVE  /\ io.at \in CommitAts /\ io.req \in AsyncRequests
           /\ io.pool \in alive /\ io.pool \in Pools /\ io.pool # Null
           /\ io' \in IoStates
           /\ UNCHANGED <<guiVars, slot, stdin, accepting, ownVars, busy, answered>>
           /\ io'.at # "idle" => io'.at \in {"room", "push"} /\ io'.pool = io.pool
           /\ ~CommitPush => UNCHANGED tasks /\ io'.at \in CommitAts /\ io'.req = io.req
<1>1. io.at \in CommitAts /\ io.pool \in alive
  BY DEF CommitStart, CommitRoom, CommitPush, InCommit
<1>2. io.req \in AsyncRequests /\ io.pool \in {Null} \cup Pools BY <1>1, InCommitState
<1>3. io.pool \in Pools /\ io.pool # Null
  <2>1. alive \subseteq 1..MaxPools BY DEF TypeOK
  <2>2. io.pool \in 1..MaxPools BY <1>1, <2>1
  <2> QED BY <2>2
<1>4. UNCHANGED <<guiVars, slot, stdin, accepting, ownVars, busy, answered>>
  BY DEF CommitStart, CommitRoom, CommitPush, InCommit
<1>5. CASE CommitPush
  <2>1. io' = IoIdle BY <1>5 DEF CommitPush, InCommit
  <2> QED BY <1>1, <1>2, <1>3, <1>4, <1>5, <2>1, IoAtRest
<1>6. CASE CommitStart
  <2>1. io' = IoIn("room", io.req, io.pool) /\ UNCHANGED tasks /\ io.at = "commit"
    BY <1>6 DEF CommitStart, InCommit
  <2>2. ~CommitPush BY <2>1 DEF CommitPush, InCommit
  <2> QED BY <1>1, <1>2, <1>3, <1>4, <2>1, <2>2, IoMade
<1>7. CASE CommitRoom
  <2>1. io' = IoIn("push", io.req, io.pool) /\ UNCHANGED tasks /\ io.at = "room"
    BY <1>7 DEF CommitRoom, InCommit
  <2>2. ~CommitPush BY <2>1 DEF CommitPush, InCommit
  <2> QED BY <1>1, <1>2, <1>3, <1>4, <2>1, <2>2, IoMade
<1> QED BY <1>5, <1>6, <1>7

\* What it does to the threads: it adds one or none, and only past the loop of stop()
\* does that break the program.
OneMore(p) ==
    /\ cur_thread_num[p] < PoolThreads
    /\ cur_thread_num' = [cur_thread_num EXCEPT ![p] = @ + 1]
    /\ threads' = [threads EXCEPT ![p] = @ + 1]
    /\ broken' = (slot = "joined")

LEMMA CommitStaff ==
    ASSUME TypeOK, CommitStart \/ CommitRoom \/ CommitPush
    PROVE  /\ OneMore(io.pool) \/ UNCHANGED <<cur_thread_num, threads, broken>>
           /\ status' = IF io.at = "commit"
                        THEN [status EXCEPT ![io.pool] = "RUNNING"] ELSE status
<1>1. CreateThread(io.pool) => OneMore(io.pool) \/ UNCHANGED <<cur_thread_num, threads, broken>>
  BY CommitMoves, PoolThreadsAssumption DEF CreateThread, OneMore, TypeOK
<1>2. CASE CommitStart
  <2>1. io.at = "commit" /\ io.pool \in Pools BY <1>2, CommitMoves DEF CommitStart, InCommit
  <2>2. CASE status[io.pool] = "STOP" BY <1>1, <1>2, <2>1, <2>2 DEF CommitStart
  <2>3. CASE status[io.pool] # "STOP"
    <3>1. status[io.pool] = "RUNNING" BY <2>1, <2>3 DEF TypeOK
    <3>2. status = [status EXCEPT ![io.pool] = "RUNNING"] BY <2>1, <3>1 DEF TypeOK
    <3> QED BY <1>2, <2>1, <2>3, <3>2 DEF CommitStart
  <2> QED BY <2>2, <2>3
<1>3. CASE CommitRoom BY <1>1, <1>3 DEF CommitRoom, InCommit
<1>4. CASE CommitPush BY <1>4 DEF CommitPush, InCommit
<1> QED BY <1>2, <1>3, <1>4

-----------------------------------------------------------------------------
LEMMA InitIInv == Init => IInv
<1> SUFFICES ASSUME Init PROVE IInv OBVIOUS
<1>1. TypeOK
  <2>1. <<>> \in Seq(AsyncRequests) /\ 0 \in 0..MaxStarts /\ 0 \in 0..PoolThreads
    BY BoundsAssumption, PoolThreadsAssumption
  <2> QED BY <2>1, IoAtRest DEF Init, TypeOK
<1>2. IsFiniteSet({}) /\ Cardinality({}) = 0 BY FS_EmptySet
<1>3. ServerInSlot /\ PoolState /\ HandlerState /\ DeadPoolsIdle /\ WorkerLife
  BY IoAtRest DEF Init, ServerInSlot, PoolState, HandlerState, DeadPoolsIdle, WorkerLife
<1>4. StaffState BY <1>2, IoAtRest DEF Init, StaffState
<1> QED BY <1>1, <1>3, <1>4 DEF IInv

\* Types are kept by every step.
LEMMA TypeStep ==
    ASSUME TypeOK, StaffState, WorkerLife, ~broken, Step
    PROVE  TypeOK'
<1> USE BoundsAssumption, PoolThreadsAssumption DEF TypeOK
<1>1. CASE Start BY <1>1 DEF Start, WorkerLife
<1>2. CASE StopCall BY <1>2 DEF StopCall
<1>3. CASE StopReturn BY <1>3 DEF StopReturn
<1>4. CASE SlotStart BY <1>4 DEF SlotStart
<1>5. CASE ReadLine BY <1>5 DEF ReadLine
<1>6. CASE SpinAtEof BY <1>6 DEF SpinAtEof, vars
<1>7. CASE ExitInstance BY <1>7 DEF ExitInstance
<1>8. CASE JoinThreads
  <2>1. 0 \in 0..PoolThreads OBVIOUS
  <2> QED BY <1>8, <2>1 DEF JoinThreads
<1>9. CASE PoolDeleted
  <2>1. <<>> \in Seq(AsyncRequests) OBVIOUS
  <2> QED BY <1>9, <2>1 DEF PoolDeleted
<1>10. CASE ResetInstance BY <1>10 DEF ResetInstance
<1>11. CASE CloseServer BY <1>11 DEF CloseServer
<1>12. CASE SlotReturn BY <1>12 DEF SlotReturn
<1>13. CASE Finish
  <2>1. 0 \in 0..MaxStarts OBVIOUS
  <2> QED BY <1>13, <2>1 DEF Finish
<1>14. CASE TypeEnter BY <1>14 DEF TypeEnter
<1>15. CASE SyncRequest BY <1>15, IoAtRest DEF SyncRequest
<1>16. CASE SyncResponse BY <1>16, IoAtRest DEF SyncResponse
<1>17. ASSUME NEW r \in AsyncRequests, AsyncRequest(r) PROVE TypeOK'
  BY <1>17, IoMade DEF AsyncRequest
<1>18. CASE GetInstance
  <2>1. io.req \in AsyncRequests BY <1>18, IoCases DEF GetInstance
  <2>2. io' = IoReturn(io.req) BY <1>18 DEF GetInstance
  <2>3. io' \in IoStates BY <2>1, <2>2, IoMade
  <2>4. instance' \in {Null} \cup Pools /\ alive' \subseteq Pools BY <1>18 DEF GetInstance
  <2>5. UNCHANGED <<guiVars, slot, stdin, accepting, stopping, staffVars, taskVars, broken>>
    BY <1>18 DEF GetInstance
  <2> QED BY <2>3, <2>4, <2>5
<1>19. CASE ReturnInstance
  <2>1. io.req \in AsyncRequests BY <1>19, IoCases DEF ReturnInstance
  <2>2. io' \in IoStates BY <1>19, <2>1, IoMade DEF ReturnInstance
  <2>3. UNCHANGED <<guiVars, slot, stdin, accepting, ownVars, staffVars, taskVars, broken>>
    BY <1>19 DEF ReturnInstance
  <2> QED BY <2>2, <2>3
<1>20. CASE CommitStart \/ CommitRoom \/ CommitPush
  <2>1. /\ io.req \in AsyncRequests /\ io.pool \in Pools /\ io' \in IoStates
        /\ UNCHANGED <<guiVars, slot, stdin, accepting, ownVars, busy, answered>>
    BY <1>20, CommitMoves
  <2>2. /\ cur_thread_num' \in [Pools -> 0..PoolThreads]
        /\ threads' \in [Pools -> 0..PoolThreads] /\ broken' \in BOOLEAN
    <3>1. CASE UNCHANGED <<cur_thread_num, threads, broken>> BY <3>1
    <3>2. CASE OneMore(io.pool)
      <4>1. /\ cur_thread_num[io.pool] + 1 \in 0..PoolThreads
            /\ threads[io.pool] + 1 \in 0..PoolThreads
        BY <2>1, <3>2 DEF OneMore, StaffState
      <4> QED BY <2>1, <3>2, <4>1 DEF OneMore
    <3> QED BY <1>20, <3>1, <3>2, CommitStaff
  <2>3. status' \in [Pools -> {"STOP", "RUNNING"}] BY <1>20, <2>1, CommitStaff
  <2>4. tasks' \in [Pools -> Seq(AsyncRequests)]
    <3>1. CASE CommitPush
      <4>1. tasks' = [tasks EXCEPT ![io.pool] = Append(@, io.req)] BY <3>1 DEF CommitPush
      <4>2. \A q \in Pools : Append(tasks[q], io.req) \in Seq(AsyncRequests) BY <2>1
      <4> QED BY <4>1, <4>2
    <3> QED BY <1>20, <3>1, CommitMoves
  <2> QED BY <2>1, <2>2, <2>3, <2>4
<1>21. CASE CommitOnNone BY <1>21 DEF CommitOnNone
<1>22. ASSUME NEW p \in Pools, BeginTask(p) PROVE TypeOK'
  <2>1. tasks[p] \in Seq(AsyncRequests) /\ tasks[p] # <<>> BY <1>22 DEF BeginTask
  <2>2. Head(tasks[p]) \in AsyncRequests /\ Tail(tasks[p]) \in Seq(AsyncRequests) BY <2>1
  <2>3. tasks' = [tasks EXCEPT ![p] = Tail(tasks[p])] BY <1>22 DEF BeginTask
  <2>4. tasks' \in [Pools -> Seq(AsyncRequests)] BY <2>2, <2>3
  <2>5. busy' \in [Pools -> SUBSET AsyncRequests] BY <1>22, <2>2 DEF BeginTask
  <2>6. UNCHANGED <<guiVars, slot, stdin, accepting, io, ownVars, staffVars, answered, broken>>
    BY <1>22 DEF BeginTask
  <2> QED BY <2>4, <2>5, <2>6
<1>23. ASSUME NEW p \in Pools, Leave(p) PROVE TypeOK'
  <2>1. threads[p] - 1 \in 0..PoolThreads
    BY <1>23, FS_CardinalityType DEF Leave, Spare, StaffState
  <2> QED BY <1>23, <2>1 DEF Leave
<1>24. ASSUME NEW p \in Pools, Expire(p) PROVE TypeOK'
  <2>1. /\ threads[p] \in 0..PoolThreads /\ cur_thread_num[p] \in 0..PoolThreads
        /\ Cardinality(busy[p]) < threads[p] /\ Cardinality(busy[p]) \in Nat
        /\ cur_thread_num[p] > 1
    BY <1>24, FS_CardinalityType DEF Expire, Spare, StaffState, min_thread_num
  <2>2. threads[p] - 1 \in 0..PoolThreads /\ cur_thread_num[p] - 1 \in 0..PoolThreads
    BY <2>1
  <2>3. /\ threads' \in [Pools -> 0..PoolThreads]
        /\ cur_thread_num' \in [Pools -> 0..PoolThreads]
    BY <1>24, <2>2 DEF Expire
  <2>4. UNCHANGED <<guiVars, slot, stdin, accepting, io, ownVars, status, taskVars, broken>>
    BY <1>24 DEF Expire
  <2> QED BY <2>3, <2>4
<1>25. ASSUME NEW p \in Pools, NEW r \in AsyncRequests, EndTask(p, r) PROVE TypeOK'
  BY <1>25 DEF EndTask
<1> QED
  BY <1>1, <1>2, <1>3, <1>4, <1>5, <1>6, <1>7, <1>8, <1>9, <1>10, <1>11, <1>12, <1>13,
     <1>14, <1>15, <1>16, <1>17, <1>18, <1>19, <1>20, <1>21, <1>22, <1>23, <1>24, <1>25
     DEF Step, Gui, Worker, Io, Handler, Pool

\* The slot, the server and the thread.
LEMMA LifeStep ==
    ASSUME TypeOK, ServerInSlot, WorkerLife, ~broken, Step
    PROVE  (ServerInSlot /\ WorkerLife)'
<1>0. CommitStart \/ CommitRoom \/ CommitPush
        => io # IoIdle /\ UNCHANGED <<guiVars, slot, accepting>>
  BY CommitMoves, IoAtRest
<1> USE BoundsAssumption, IoAtRest DEF TypeOK, ServerInSlot, WorkerLife
<1>1. CASE Start BY <1>1 DEF Start
<1>2. CASE StopCall BY <1>2 DEF StopCall
<1>3. CASE StopReturn BY <1>3 DEF StopReturn
<1>4. CASE SlotStart BY <1>4 DEF SlotStart
<1>5. CASE ReadLine BY <1>5 DEF ReadLine
<1>6. CASE SpinAtEof BY <1>6 DEF SpinAtEof, vars
<1>7. CASE ExitInstance BY <1>7 DEF ExitInstance
<1>8. CASE JoinThreads BY <1>8 DEF JoinThreads
<1>9. CASE PoolDeleted BY <1>9 DEF PoolDeleted
<1>10. CASE ResetInstance BY <1>10 DEF ResetInstance
<1>11. CASE CloseServer BY <1>11 DEF CloseServer
<1>12. CASE SlotReturn BY <1>12 DEF SlotReturn
<1>13. CASE Finish BY <1>13 DEF Finish
<1>14. CASE TypeEnter BY <1>14 DEF TypeEnter
<1>15. CASE SyncRequest BY <1>15 DEF SyncRequest
<1>16. CASE SyncResponse BY <1>16 DEF SyncResponse
<1>17. ASSUME NEW r \in AsyncRequests, AsyncRequest(r) PROVE (ServerInSlot /\ WorkerLife)'
  BY <1>17, IoMade DEF AsyncRequest
<1>18. CASE GetInstance BY <1>18, IoCases, IoMade DEF GetInstance
<1>19. CASE ReturnInstance BY <1>19, IoCases, IoMade DEF ReturnInstance
<1>20. CASE CommitStart \/ CommitRoom \/ CommitPush
  <2> QED BY <1>20, <1>0
<1>21. CASE CommitOnNone BY <1>21 DEF CommitOnNone
<1>22. ASSUME NEW p \in Pools, BeginTask(p) PROVE (ServerInSlot /\ WorkerLife)'
  BY <1>22 DEF BeginTask
<1>23. ASSUME NEW p \in Pools, Leave(p) PROVE (ServerInSlot /\ WorkerLife)'
  BY <1>23 DEF Leave
<1>24. ASSUME NEW p \in Pools, Expire(p) PROVE (ServerInSlot /\ WorkerLife)'
  BY <1>24 DEF Expire
<1>25. ASSUME NEW p \in Pools, NEW r \in AsyncRequests, EndTask(p, r) PROVE (ServerInSlot /\ WorkerLife)'
  BY <1>25 DEF EndTask
<1> QED
  BY <1>1, <1>2, <1>3, <1>4, <1>5, <1>6, <1>7, <1>8, <1>9, <1>10, <1>11, <1>12, <1>13,
     <1>14, <1>15, <1>16, <1>17, <1>18, <1>19, <1>20, <1>21, <1>22, <1>23, <1>24, <1>25
     DEF Step, Gui, Worker, Io, Handler, Pool

\* The pool and the handlers that use it.
LEMMA PoolStep ==
    ASSUME TypeOK, ServerInSlot, PoolState, HandlerState, ~broken, Step
    PROVE  (PoolState /\ HandlerState)'
<1>0. CommitStart \/ CommitRoom \/ CommitPush
        => /\ io.at \in CommitAts /\ UNCHANGED <<slot, ownVars>>
           /\ io'.at # "idle" => io'.at \in CommitAts /\ io'.pool = io.pool
  BY CommitMoves
<1> USE IoAtRest DEF TypeOK, ServerInSlot, PoolState, HandlerState, MutexFree
<1>1. CASE Start BY <1>1 DEF Start
<1>2. CASE StopCall BY <1>2 DEF StopCall
<1>3. CASE StopReturn BY <1>3 DEF StopReturn
<1>4. CASE SlotStart BY <1>4 DEF SlotStart
<1>5. CASE ReadLine BY <1>5 DEF ReadLine
<1>6. CASE SpinAtEof BY <1>6 DEF SpinAtEof, vars
<1>7. CASE ExitInstance BY <1>7 DEF ExitInstance
<1>8. CASE JoinThreads BY <1>8 DEF JoinThreads
<1>9. CASE PoolDeleted BY <1>9 DEF PoolDeleted
<1>10. CASE ResetInstance BY <1>10 DEF ResetInstance
<1>11. CASE CloseServer BY <1>11 DEF CloseServer
<1>12. CASE SlotReturn BY <1>12 DEF SlotReturn
<1>13. CASE Finish BY <1>13 DEF Finish
<1>14. CASE TypeEnter BY <1>14 DEF TypeEnter
<1>15. CASE SyncRequest BY <1>15 DEF SyncRequest
<1>16. CASE SyncResponse BY <1>16 DEF SyncResponse
<1>17. ASSUME NEW r \in AsyncRequests, AsyncRequest(r) PROVE (PoolState /\ HandlerState)'
  BY <1>17, IoMade DEF AsyncRequest
<1>18. CASE GetInstance
  <2>1. io.req \in AsyncRequests BY <1>18, IoCases DEF GetInstance
  <2>2. io'.at = "return" BY <1>18, <2>1, IoMade DEF GetInstance
  <2>3. CASE instance # Null BY <1>18, <2>2, <2>3 DEF GetInstance
  <2>4. CASE instance = Null
    <3>1. PICK p \in Pools \ (alive \cup stopping) :
             slot \notin {"cleanup", "joining", "joined", "deleted"}
             /\ instance' = p /\ alive' = alive \cup {p}
      BY <1>18, <2>4 DEF GetInstance
    <3>2. p # Null /\ alive = {} BY <2>4, <3>1
    <3>3. slot' = slot /\ stopping' = stopping /\ broken' = broken BY <1>18 DEF GetInstance
    <3> QED BY <2>2, <3>1, <3>2, <3>3
  <2> QED BY <2>3, <2>4
<1>19. CASE ReturnInstance BY <1>19, IoCases, IoMade DEF ReturnInstance
<1>20. CASE CommitStart \/ CommitRoom \/ CommitPush
  <2>1. /\ io.at \in CommitAts /\ UNCHANGED <<slot, ownVars>>
        /\ io'.at # "idle" => io'.at \in CommitAts /\ io'.pool = io.pool
    BY <1>20, <1>0
  <2>2. PoolState' BY <2>1
  <2>3. broken' => slot = "joined" BY <1>20, CommitStaff DEF OneMore
  <2>4. HandlerState'
    <3>1. CASE io'.at = "idle" BY <2>1, <2>3, <3>1
    <3>2. CASE io'.at \in CommitAts /\ io'.pool = io.pool
      <4>1. io'.at # "return" BY <3>2
      <4> QED BY <2>1, <2>3, <3>2, <4>1
    <3> QED BY <2>1, <3>1, <3>2
  <2> QED BY <2>2, <2>4
<1>21. CASE CommitOnNone
  <2>1. slot # "none" BY <1>21, IoAtRest DEF CommitOnNone
  <2> QED BY <1>21, <2>1 DEF CommitOnNone
<1>22. ASSUME NEW p \in Pools, BeginTask(p) PROVE (PoolState /\ HandlerState)'
  BY <1>22 DEF BeginTask
<1>23. ASSUME NEW p \in Pools, Leave(p) PROVE (PoolState /\ HandlerState)'
  BY <1>23 DEF Leave
<1>24. ASSUME NEW p \in Pools, Expire(p) PROVE (PoolState /\ HandlerState)'
  BY <1>24 DEF Expire
<1>25. ASSUME NEW p \in Pools, NEW r \in AsyncRequests, EndTask(p, r) PROVE (PoolState /\ HandlerState)'
  BY <1>25 DEF EndTask
<1> QED
  BY <1>1, <1>2, <1>3, <1>4, <1>5, <1>6, <1>7, <1>8, <1>9, <1>10, <1>11, <1>12, <1>13,
     <1>14, <1>15, <1>16, <1>17, <1>18, <1>19, <1>20, <1>21, <1>22, <1>23, <1>24, <1>25
     DEF Step, Gui, Worker, Io, Handler, Pool

\* The threads of the pools.
LEMMA StaffStep ==
    ASSUME TypeOK, PoolState, StaffState, DeadPoolsIdle, ServerInSlot, HandlerState, ~broken, Step
    PROVE  StaffState'
<1>0. CommitStart \/ CommitRoom \/ CommitPush
        => /\ io.at \in CommitAts /\ io.pool \in Pools /\ io.pool \in alive
           /\ UNCHANGED <<slot, ownVars, busy>>
           /\ io'.at # "idle" => io'.at \in {"room", "push"} /\ io'.pool = io.pool
  BY CommitMoves
<1> USE IoAtRest DEF TypeOK, StaffState, PoolState, HandlerState
<1>1. CASE Start BY <1>1 DEF Start
<1>2. CASE StopCall BY <1>2 DEF StopCall
<1>3. CASE StopReturn BY <1>3 DEF StopReturn
<1>4. CASE SlotStart BY <1>4 DEF SlotStart
<1>5. CASE ReadLine BY <1>5 DEF ReadLine
<1>6. CASE SpinAtEof BY <1>6 DEF SpinAtEof, vars
<1>7. CASE ExitInstance
  <2>1. CASE instance = Null BY <1>7, <2>1 DEF ExitInstance
  <2>2. CASE instance # Null
    <3>1. instance \in Pools /\ instance \notin stopping BY <1>7, <2>2 DEF ExitInstance
    <3>2. /\ status' = [status EXCEPT ![instance] = "STOP"]
          /\ stopping' = stopping \cup {instance}
          /\ slot' = IF status[instance] = "STOP" THEN "joined" ELSE "joining"
          /\ UNCHANGED <<io, instance, alive, cur_thread_num, threads, busy, broken>>
      BY <1>7, <2>2 DEF ExitInstance
    <3>3. ASSUME NEW q \in Pools, q \notin stopping', status'[q] = "STOP" PROVE threads[q] = 0
      BY <3>1, <3>2, <3>3
    <3>4. ASSUME io.at \in {"room", "push"}, io.pool \in alive \ stopping'
          PROVE  status'[io.pool] = "RUNNING"
      BY <3>1, <3>2, <3>4
    <3> QED BY <3>1, <3>2, <3>3, <3>4
  <2> QED BY <2>1, <2>2
<1>8. CASE JoinThreads
  <2>1. instance \in Pools /\ alive = {instance} BY <1>8 DEF JoinThreads
  <2> QED BY <1>8, <2>1 DEF JoinThreads
<1>9. CASE PoolDeleted BY <1>9 DEF PoolDeleted
<1>10. CASE ResetInstance BY <1>10 DEF ResetInstance
<1>11. CASE CloseServer BY <1>11 DEF CloseServer
<1>12. CASE SlotReturn BY <1>12 DEF SlotReturn
<1>13. CASE Finish BY <1>13 DEF Finish
<1>14. CASE TypeEnter BY <1>14 DEF TypeEnter
<1>15. CASE SyncRequest BY <1>15 DEF SyncRequest
<1>16. CASE SyncResponse BY <1>16 DEF SyncResponse
<1>17. ASSUME NEW r \in AsyncRequests, AsyncRequest(r) PROVE StaffState'
  BY <1>17, IoMade DEF AsyncRequest
<1>18. CASE GetInstance
  <2>1. io.req \in AsyncRequests BY <1>18, IoCases DEF GetInstance
  <2>2. io'.at = "return" BY <1>18, <2>1, IoMade DEF GetInstance
  <2>3. slot = "joined" => UNCHANGED instance BY <1>18 DEF GetInstance, MutexFree
  <2>4. UNCHANGED <<slot, stopping, staffVars, busy, broken>> BY <1>18 DEF GetInstance
  <2> QED BY <2>2, <2>3, <2>4
<1>19. CASE ReturnInstance BY <1>19, IoCases, IoMade DEF ReturnInstance
<1>20. CASE CommitStart \/ CommitRoom \/ CommitPush
  <2> DEFINE q == io.pool
  <2>1. /\ io.at \in CommitAts /\ q \in Pools /\ q \in alive
        /\ UNCHANGED <<slot, ownVars, busy>>
        /\ io'.at # "idle" => io'.at \in {"room", "push"} /\ io'.pool = q
    BY <1>20, <1>0
  <2>2. /\ OneMore(q) \/ UNCHANGED <<cur_thread_num, threads, broken>>
        /\ status' = IF io.at = "commit" THEN [status EXCEPT ![q] = "RUNNING"] ELSE status
    BY <1>20, CommitStaff
  <2>3. q \notin stopping => status'[q] = "RUNNING" BY <2>1, <2>2
  <2>4. ASSUME NEW p \in Pools
        PROVE  /\ threads[p] <= threads'[p] /\ threads'[p] <= cur_thread_num'[p]
               /\ p # q => threads'[p] = threads[p] /\ status'[p] = status[p]
    <3>1. CASE OneMore(q) BY <2>1, <2>2, <3>1 DEF OneMore
    <3>2. CASE UNCHANGED <<cur_thread_num, threads, broken>> BY <2>1, <2>2, <3>2
    <3> QED BY <2>2, <3>1, <3>2
  <2>5. threads' \in [Pools -> Int] BY <2>1, <2>2 DEF OneMore
  <2>6. \A p \in Pools : Cardinality(busy[p]) \in Nat BY FS_CardinalityType
  <2>7. ASSUME NEW p \in Pools
        PROVE  /\ IsFiniteSet(busy'[p]) /\ Cardinality(busy'[p]) <= threads'[p]
               /\ threads'[p] <= cur_thread_num'[p]
               /\ p \notin stopping' /\ status'[p] = "STOP" => threads'[p] = 0
    <3>1. Cardinality(busy[p]) <= threads'[p] BY <2>4, <2>5, <2>6
    <3>2. p \notin stopping /\ status'[p] = "STOP" => threads'[p] = 0
      <4>1. CASE p = q BY <2>3, <4>1
      <4>2. CASE p # q BY <2>4, <4>2
      <4> QED BY <4>1, <4>2
    <3> QED BY <2>1, <2>4, <3>1, <3>2
  <2>8. io'.at \in {"room", "push"} /\ io'.pool \in alive' \ stopping'
          => status'[io'.pool] = "RUNNING"
    BY <2>1, <2>3
  <2>9. slot' = "joined" /\ ~broken' => threads'[instance'] = 0
    BY <2>1, <2>2 DEF OneMore
  <2> QED BY <2>7, <2>8, <2>9
<1>21. CASE CommitOnNone BY <1>21 DEF CommitOnNone
<1>22. ASSUME NEW p \in Pools, BeginTask(p) PROVE StaffState'
  <2>1. /\ busy'[p] = busy[p] \cup {Head(tasks[p])} /\ \A q \in Pools : q # p => busy'[q] = busy[q]
        /\ Cardinality(busy[p]) < threads[p]
        /\ UNCHANGED <<slot, io, ownVars, staffVars, broken>>
    BY <1>22 DEF BeginTask, Spare
  <2>2. Cardinality(busy[p]) \in Nat BY FS_CardinalityType
  <2>3. IsFiniteSet(busy'[p]) /\ Cardinality(busy'[p]) <= Cardinality(busy[p]) + 1
    <3> DEFINE B == busy[p]
               h == Head(tasks[p])
    <3>1. IsFiniteSet(B) /\ Cardinality(B) \in Nat BY <2>2
    <3> HIDE DEF B, h
    <3>2. IsFiniteSet(B \cup {h}) /\ Cardinality(B \cup {h}) \in {Cardinality(B), Cardinality(B) + 1}
      BY <3>1, FS_AddElement
    <3>3. busy'[p] = B \cup {h} BY <2>1 DEF B, h
    <3> QED BY <3>1, <3>2, <3>3 DEF B
  <2>4. Cardinality(busy'[p]) \in Nat BY <2>3, FS_CardinalityType
  <2>5. Cardinality(busy'[p]) <= threads[p] BY <2>1, <2>2, <2>3, <2>4
  <2> QED BY <2>1, <2>3, <2>5
<1>23. ASSUME NEW p \in Pools, Leave(p) PROVE StaffState'
  <2>1. Cardinality(busy[p]) \in Nat BY FS_CardinalityType
  <2>2. /\ threads'[p] = threads[p] - 1 /\ \A q \in Pools : q # p => threads'[q] = threads[q]
        /\ Cardinality(busy[p]) < threads[p]
        /\ UNCHANGED <<slot, io, ownVars, status, cur_thread_num, busy, broken>>
    BY <1>23 DEF Leave, Spare
  <2>3. threads[p] # 0 BY <2>1, <2>2
  <2> QED BY <2>1, <2>2, <2>3
<1>24. ASSUME NEW p \in Pools, Expire(p) PROVE StaffState'
  <2>1. Cardinality(busy[p]) \in Nat BY FS_CardinalityType
  <2>2. /\ threads'[p] = threads[p] - 1 /\ \A q \in Pools : q # p => threads'[q] = threads[q]
        /\ cur_thread_num'[p] = cur_thread_num[p] - 1
        /\ \A q \in Pools : q # p => cur_thread_num'[q] = cur_thread_num[q]
        /\ Cardinality(busy[p]) < threads[p]
        /\ UNCHANGED <<slot, io, ownVars, status, busy, broken>>
    BY <1>24 DEF Expire, Spare
  <2>3. threads[p] # 0 BY <2>1, <2>2
  <2> QED BY <2>1, <2>2, <2>3
<1>25. ASSUME NEW p \in Pools, NEW r \in AsyncRequests, EndTask(p, r) PROVE StaffState'
  <2>1. /\ busy'[p] = busy[p] \ {r} /\ \A q \in Pools : q # p => busy'[q] = busy[q]
        /\ UNCHANGED <<slot, io, ownVars, staffVars, broken>>
    BY <1>25 DEF EndTask
  <2>2. /\ IsFiniteSet(busy'[p]) /\ Cardinality(busy'[p]) <= Cardinality(busy[p])
        /\ Cardinality(busy[p]) \in Nat /\ Cardinality(busy'[p]) \in Nat
    <3> DEFINE B == busy[p]
    <3>1. IsFiniteSet(B) /\ r \in B BY <1>25 DEF EndTask
    <3> HIDE DEF B
    <3>2. /\ IsFiniteSet(B \ {r}) /\ Cardinality(B \ {r}) = Cardinality(B) - 1
          /\ Cardinality(B) \in Nat /\ Cardinality(B \ {r}) \in Nat
      BY <3>1, FS_RemoveElement, FS_CardinalityType
    <3>3. busy'[p] = B \ {r} /\ busy[p] = B BY <2>1 DEF B
    <3> QED BY <3>2, <3>3
  <2>3. Cardinality(busy'[p]) <= threads[p] BY <2>2
  <2> QED BY <2>1, <2>2, <2>3
<1> QED
  BY <1>1, <1>2, <1>3, <1>4, <1>5, <1>6, <1>7, <1>8, <1>9, <1>10, <1>11, <1>12, <1>13,
     <1>14, <1>15, <1>16, <1>17, <1>18, <1>19, <1>20, <1>21, <1>22, <1>23, <1>24, <1>25
     DEF Step, Gui, Worker, Io, Handler, Pool

\* A pool whose threads have been joined runs no task.
LEMMA JoinedIdle ==
    ASSUME TypeOK, StaffState, instance \in Pools, slot = "joined", ~broken
    PROVE  threads[instance] = 0 /\ busy[instance] = {}
<1>1. threads[instance] = 0 BY DEF StaffState
<1>2. IsFiniteSet(busy[instance]) /\ Cardinality(busy[instance]) <= 0
  BY <1>1 DEF StaffState
<1>3. Cardinality(busy[instance]) = 0 BY <1>2, FS_CardinalityType
<1> QED BY <1>1, <1>2, <1>3, FS_EmptySet

\* A pool that is not alive has neither a task nor a thread.
LEMMA DeadStep ==
    ASSUME TypeOK, PoolState, StaffState, DeadPoolsIdle, ~broken, Step
    PROVE  DeadPoolsIdle'
<1> USE DEF TypeOK, PoolState, DeadPoolsIdle
<1>1. CASE Start BY <1>1 DEF Start
<1>2. CASE StopCall BY <1>2 DEF StopCall
<1>3. CASE StopReturn BY <1>3 DEF StopReturn
<1>4. CASE SlotStart BY <1>4 DEF SlotStart
<1>5. CASE ReadLine BY <1>5 DEF ReadLine
<1>6. CASE SpinAtEof BY <1>6 DEF SpinAtEof, vars
<1>7. CASE ExitInstance BY <1>7 DEF ExitInstance
<1>8. CASE JoinThreads BY <1>8 DEF JoinThreads
<1>9. CASE PoolDeleted
  <2>1. instance \in Pools BY <1>9 DEF PoolDeleted
  <2>2. threads[instance] = 0 /\ busy[instance] = {} BY <1>9, <2>1, JoinedIdle DEF PoolDeleted
  <2> QED BY <1>9, <2>1, <2>2 DEF PoolDeleted
<1>10. CASE ResetInstance BY <1>10 DEF ResetInstance
<1>11. CASE CloseServer BY <1>11 DEF CloseServer
<1>12. CASE SlotReturn BY <1>12 DEF SlotReturn
<1>13. CASE Finish BY <1>13 DEF Finish
<1>14. CASE TypeEnter BY <1>14 DEF TypeEnter
<1>15. CASE SyncRequest BY <1>15 DEF SyncRequest
<1>16. CASE SyncResponse BY <1>16 DEF SyncResponse
<1>17. ASSUME NEW r \in AsyncRequests, AsyncRequest(r) PROVE DeadPoolsIdle'
  BY <1>17, IoMade DEF AsyncRequest
<1>18. CASE GetInstance BY <1>18, IoCases, IoMade DEF GetInstance
<1>19. CASE ReturnInstance BY <1>19, IoCases, IoMade DEF ReturnInstance
<1>20. CASE CommitStart \/ CommitRoom \/ CommitPush
  <2>1. /\ io.pool \in alive /\ UNCHANGED <<alive, busy>>
        /\ UNCHANGED tasks \/ CommitPush
    BY <1>20, CommitMoves
  <2>2. OneMore(io.pool) \/ UNCHANGED threads BY <1>20, CommitStaff
  <2>3. ASSUME NEW p \in Pools, p \notin alive PROVE threads'[p] = 0 /\ tasks'[p] = <<>>
    BY <2>1, <2>2, <2>3 DEF OneMore, CommitPush
  <2> QED BY <2>1, <2>3
<1>21. CASE CommitOnNone BY <1>21 DEF CommitOnNone
<1>22. ASSUME NEW p \in Pools, BeginTask(p) PROVE DeadPoolsIdle' BY <1>22 DEF BeginTask
<1>23. ASSUME NEW p \in Pools, Leave(p) PROVE DeadPoolsIdle'
  <2>1. p \in alive BY <1>23, FS_CardinalityType DEF Leave, Spare, StaffState
  <2> QED BY <1>23, <2>1 DEF Leave
<1>24. ASSUME NEW p \in Pools, Expire(p) PROVE DeadPoolsIdle'
  <2>1. p \in alive BY <1>24, FS_CardinalityType DEF Expire, Spare, StaffState
  <2> QED BY <1>24, <2>1 DEF Expire
<1>25. ASSUME NEW p \in Pools, NEW r \in AsyncRequests, EndTask(p, r) PROVE DeadPoolsIdle'
  BY <1>25 DEF EndTask
<1> QED
  BY <1>1, <1>2, <1>3, <1>4, <1>5, <1>6, <1>7, <1>8, <1>9, <1>10, <1>11, <1>12, <1>13,
     <1>14, <1>15, <1>16, <1>17, <1>18, <1>19, <1>20, <1>21, <1>22, <1>23, <1>24, <1>25
     DEF Step, Gui, Worker, Io, Handler, Pool

LEMMA NextIInv == IInv /\ [Next]_vars => IInv'
<1> SUFFICES ASSUME IInv, [Next]_vars PROVE IInv' OBVIOUS
<1>1. CASE ~broken /\ Step
  BY <1>1, TypeStep, LifeStep, PoolStep, StaffStep, DeadStep DEF IInv
<1>2. CASE UNCHANGED vars
  BY <1>2 DEF vars, IInv, TypeOK, ServerInSlot, PoolState, HandlerState, StaffState,
              DeadPoolsIdle, WorkerLife
<1> QED BY <1>1, <1>2, NextIsStep

LEMMA SpecIInv == Spec => []IInv
BY InitIInv, NextIInv, PTL DEF Spec

-----------------------------------------------------------------------------
(* The pools, one after the other, are one TaskPool.                        *)

\* The request the IO thread is about to hand over.
InAsync  == {"instance", "return"} \cup CommitAts
Handling == IF io.at \in InAsync THEN {io.req} ELSE {}

\* A request is in one place: with the IO thread, in the queue, with a thread of the
\* pool, or answered.
OneRequest ==
    /\ \A i, j \in DOMAIN GlobalQueue : GlobalQueue[i] = GlobalQueue[j] => i = j
    /\ \A i \in DOMAIN GlobalQueue : GlobalQueue[i] \notin Started \cup answered \cup Handling
    /\ Started \cap answered = {}
    /\ Handling \cap (Started \cup answered) = {}

Simulates == OneRequest' /\ [Async!Next \/ Async!Discard]_(Async!vars)

\* Only the global pool has tasks.
LEMMA OnlyGlobal ==
    ASSUME IInv
    PROVE  /\ \A p \in Pools : p # instance => busy[p] = {} /\ tasks[p] = <<>>
           /\ Started = IF instance = Null THEN {} ELSE busy[instance]
           /\ GlobalQueue \in Seq(AsyncRequests)
<1>1. alive \subseteq {instance} BY DEF IInv, PoolState
<1>2. \A p \in Pools : p # instance => busy[p] = {} /\ tasks[p] = <<>>
  BY <1>1 DEF IInv, DeadPoolsIdle
<1>3. instance # Null => instance \in Pools BY DEF IInv, TypeOK
<1>4. Started = IF instance = Null THEN {} ELSE busy[instance]
  BY <1>2, <1>3 DEF Started
<1>5. GlobalQueue \in Seq(AsyncRequests) BY <1>3 DEF GlobalQueue, IInv, TypeOK
<1> QED BY <1>2, <1>4, <1>5

\* A step that takes no request further.
LEMMA RequestsStay ==
    ASSUME OneRequest, GlobalQueue' = GlobalQueue, Started' = Started, UNCHANGED answered,
           Handling' \subseteq Handling
    PROVE  Simulates
<1>1. UNCHANGED Async!vars BY DEF Async!vars
<1>2. OneRequest' BY DEF OneRequest
<1> QED BY <1>1, <1>2 DEF Simulates

\* Every step is one of the abstract pool's or none of its concern.
LEMMA AsyncStep == IInv /\ OneRequest /\ [Next]_vars => Simulates
<1> SUFFICES ASSUME IInv, OneRequest, [Next]_vars PROVE Simulates OBVIOUS
<1>0. TypeOK /\ (UNCHANGED vars \/ (~broken /\ Step)) BY NextIsStep DEF IInv
<1>1. UNCHANGED <<instance, tasks>> => GlobalQueue' = GlobalQueue BY DEF GlobalQueue
<1>2. UNCHANGED busy => Started' = Started BY DEF Started
<1>3. UNCHANGED io => Handling' = Handling BY DEF Handling
<1>4. CASE UNCHANGED <<io, instance, tasks, busy, answered>>
  BY <1>1, <1>2, <1>3, <1>4, RequestsStay
<1>5. CASE Gui \/ TypeEnter
  BY <1>4, <1>5 DEF Gui, Start, StopCall, StopReturn, TypeEnter
<1>6. CASE SlotStart \/ ReadLine \/ SpinAtEof \/ ExitInstance \/ JoinThreads \/ CloseServer
           \/ SlotReturn \/ Finish
  BY <1>4, <1>6 DEF SlotStart, ReadLine, SpinAtEof, ExitInstance, JoinThreads, CloseServer,
     SlotReturn, Finish, vars
<1>7. CASE ~broken /\ PoolDeleted
  <2>1. instance # Null /\ instance \in Pools BY <1>0, <1>7 DEF PoolDeleted, IInv, PoolState, TypeOK
  <2>2. GlobalQueue' = <<>> BY <1>7, <2>1 DEF PoolDeleted, GlobalQueue, IInv, TypeOK
  <2>3. Started = {} /\ Started' = {}
    <3>1. busy[instance] = {} BY <1>7, <2>1, JoinedIdle DEF PoolDeleted, IInv
    <3> QED BY <1>2, <1>7, <2>1, <3>1, OnlyGlobal DEF PoolDeleted
  <2>4. UNCHANGED answered /\ Handling' = Handling BY <1>3, <1>7 DEF PoolDeleted
  <2>5. Async!Discard BY <2>2, <2>3, <2>4 DEF Async!Discard
  <2>6. OneRequest' BY <2>2, <2>3, <2>4 DEF OneRequest
  <2> QED BY <2>5, <2>6 DEF Simulates
<1>8. CASE ResetInstance
  <2>1. alive = {} /\ instance # Null /\ instance \in Pools
    BY <1>0, <1>8 DEF ResetInstance, IInv, PoolState, TypeOK
  <2>2. GlobalQueue = <<>> BY <2>1 DEF GlobalQueue, IInv, DeadPoolsIdle
  <2>3. GlobalQueue' = <<>> BY <1>8 DEF ResetInstance, GlobalQueue
  <2>4. UNCHANGED <<busy, io, answered>> BY <1>8 DEF ResetInstance
  <2> QED BY <1>2, <1>3, <2>2, <2>3, <2>4, RequestsStay
<1>9. CASE SyncRequest \/ SyncResponse
  <2>1. Handling' = {} BY <1>9, IoAtRest DEF SyncRequest, SyncResponse, Handling, InAsync
  <2> QED BY <1>1, <1>2, <1>9, <2>1, RequestsStay DEF SyncRequest, SyncResponse
<1>10. ASSUME NEW r \in AsyncRequests, AsyncRequest(r) PROVE Simulates
  <2>1. UNCHANGED <<instance, tasks, busy, answered>> BY <1>10 DEF AsyncRequest
  <2>2. Handling' = {r} BY <1>10, IoMade DEF AsyncRequest, Handling, InAsync, IoInstance
  <2>3. r \notin answered /\ \A p \in Pools : r \notin Queued(p) \cup busy[p]
    BY <1>10 DEF AsyncRequest, Arrived
  <2>4. r \notin Started BY <2>3 DEF Started
  <2>5. \A i \in DOMAIN GlobalQueue : GlobalQueue[i] # r
    BY <1>0, <2>3 DEF GlobalQueue, Queued, ToSet, TypeOK
  <2>6. UNCHANGED <<GlobalQueue, Started>> BY <1>1, <1>2, <2>1
  <2>7. OneRequest' BY <2>1, <2>2, <2>3, <2>4, <2>5, <2>6 DEF OneRequest
  <2>8. UNCHANGED Async!vars BY <2>1, <2>6 DEF Async!vars
  <2> QED BY <2>7, <2>8 DEF Simulates
<1>11. CASE GetInstance
  <2>1. io.at = "instance" /\ io' = IoReturn(io.req) /\ UNCHANGED <<tasks, busy, answered>>
    BY <1>11 DEF GetInstance
  <2>2. Handling' = Handling BY <2>1 DEF Handling, InAsync, IoReturn
  <2>3. GlobalQueue' = GlobalQueue
    <3>1. CASE instance # Null BY <1>1, <1>11, <3>1 DEF GetInstance
    <3>2. CASE instance = Null
      <4>1. PICK p \in Pools : instance' = p BY <1>11, <3>2 DEF GetInstance
      <4>2. tasks[p] = <<>> BY <3>2, OnlyGlobal
      <4> QED BY <2>1, <3>2, <4>1, <4>2 DEF GlobalQueue
    <3> QED BY <3>1, <3>2
  <2> QED BY <1>2, <2>1, <2>2, <2>3, RequestsStay
<1>12. CASE ReturnInstance
  <2>1. io.at = "return" /\ io' = IoIn("commit", io.req, instance) BY <1>12 DEF ReturnInstance
  <2>2. Handling' = Handling BY <2>1 DEF Handling, InAsync, IoIn
  <2> QED BY <1>1, <1>2, <1>12, <2>2, RequestsStay DEF ReturnInstance
<1>13. CASE CommitStart \/ CommitRoom \/ CommitPush
  <2>1. /\ io.at \in CommitAts /\ io.req \in AsyncRequests
        /\ io.pool \in alive /\ io.pool \in Pools
        /\ UNCHANGED <<instance, busy, answered>>
    BY <1>0, <1>13, CommitMoves
  <2>2. Handling = {io.req} /\ Started' = Started BY <1>2, <2>1 DEF Handling, InAsync
  <2>3. CASE ~CommitPush
    <3>1. UNCHANGED tasks /\ io'.at \in CommitAts /\ io'.req = io.req
      BY <1>0, <1>13, <2>3, CommitMoves
    <3>2. Handling' = Handling BY <2>2, <3>1 DEF Handling, InAsync
    <3> QED BY <1>1, <2>1, <2>2, <3>1, <3>2, RequestsStay
  <2>4. CASE CommitPush
    <3>0. io.pool = instance /\ instance \in Pools /\ instance # Null
      BY <1>0, <2>1 DEF IInv, PoolState, TypeOK
    <3>1. Handling' = {} BY <2>4, IoAtRest DEF CommitPush, InCommit, Handling, InAsync
    <3>2. tasks' = [tasks EXCEPT ![instance] = Append(tasks[instance], io.req)]
      BY <2>4, <3>0 DEF CommitPush
    <3>3. GlobalQueue' = Append(GlobalQueue, io.req)
      BY <1>0, <2>1, <3>0, <3>2 DEF GlobalQueue, TypeOK
    <3>4. ~Async!Known(io.req)
      BY <2>2 DEF Async!Known, OneRequest
    <3>5. Async!Commit(io.req) BY <2>1, <2>2, <3>3, <3>4 DEF Async!Commit
    <3>6. /\ DOMAIN GlobalQueue' = 1..Len(GlobalQueue) + 1
          /\ \A i \in DOMAIN GlobalQueue : GlobalQueue'[i] = GlobalQueue[i]
          /\ GlobalQueue'[Len(GlobalQueue) + 1] = io.req
          /\ DOMAIN GlobalQueue = 1..Len(GlobalQueue) /\ Len(GlobalQueue) \in Nat
      BY <3>3, <2>1, OnlyGlobal
    <3>7. OneRequest' BY <2>1, <2>2, <3>1, <3>6 DEF OneRequest
    <3> QED BY <2>1, <3>5, <3>7 DEF Simulates, Async!Next
  <2> QED BY <2>3, <2>4
<1>14. ASSUME NEW p \in Pools, BeginTask(p) PROVE Simulates
  <2>1. p = instance /\ instance # Null
    <3>1. tasks[p] # <<>> BY <1>14 DEF BeginTask
    <3>2. p = instance BY <3>1, OnlyGlobal
    <3> QED BY <3>2
  <2>2. UNCHANGED <<io, instance, answered>> /\ tasks[p] # <<>> BY <1>14 DEF BeginTask
  <2>3. GlobalQueue = tasks[p] /\ GlobalQueue' = Tail(tasks[p])
    BY <1>0, <1>14, <2>1, <2>2 DEF BeginTask, GlobalQueue, TypeOK
  <2>4. busy'[p] = busy[p] \cup {Head(tasks[p])}
    BY <1>0, <1>14 DEF BeginTask, TypeOK
  <2>5. Started = busy[p] /\ Started' = busy'[p]
    BY <1>0, <1>14, <2>1, OnlyGlobal DEF BeginTask, Started, TypeOK
  <2>6. Handling' = Handling BY <1>3, <2>2
  <2>7. /\ GlobalQueue \in Seq(AsyncRequests) /\ GlobalQueue # <<>>
        /\ GlobalQueue' = Tail(GlobalQueue) /\ Started' = Started \cup {Head(GlobalQueue)}
    BY <2>2, <2>3, <2>4, <2>5, OnlyGlobal
  <2>8. /\ Len(GlobalQueue) \in Nat \ {0} /\ DOMAIN GlobalQueue = 1..Len(GlobalQueue)
        /\ Head(GlobalQueue) = GlobalQueue[1]
        /\ DOMAIN GlobalQueue' = 1..Len(GlobalQueue) - 1
        /\ \A i \in DOMAIN GlobalQueue' : GlobalQueue'[i] = GlobalQueue[i + 1]
    BY <2>7
  <2>9. Head(GlobalQueue) \notin Started \cup answered \cup Handling BY <2>8 DEF OneRequest
  <2>10. Async!Begin BY <2>2, <2>7, <2>9 DEF Async!Begin
  <2>11. OneRequest' BY <2>2, <2>6, <2>7, <2>8, <2>9 DEF OneRequest
  <2> QED BY <2>10, <2>11 DEF Simulates, Async!Next
<1>15. ASSUME NEW p \in Pools, NEW r \in AsyncRequests, EndTask(p, r) PROVE Simulates
  <2>1. UNCHANGED <<io, instance, tasks>> /\ r \in busy[p] BY <1>15 DEF EndTask
  <2>2. p = instance /\ instance # Null BY <2>1, OnlyGlobal
  <2>3. answered' = answered \cup {r} /\ busy'[p] = busy[p] \ {r}
    BY <1>0, <1>15 DEF EndTask, TypeOK
  <2>4. Started = busy[p] /\ Started' = busy'[p]
    <3>1. Started = busy[p] BY <2>2, OnlyGlobal
    <3>2. \A q \in Pools : q # p => busy'[q] = {}
      BY <1>0, <1>15, <2>2, OnlyGlobal DEF EndTask, TypeOK
    <3>3. Started' = UNION {busy'[q] : q \in Pools} BY DEF Started
    <3>4. Started' = busy'[p] BY <3>2, <3>3
    <3> QED BY <3>1, <3>4
  <2>5. GlobalQueue' = GlobalQueue /\ Handling' = Handling BY <1>1, <1>3, <2>1
  <2>6. Async!End(r) BY <2>1, <2>3, <2>4, <2>5 DEF Async!End
  <2>7. OneRequest' BY <2>1, <2>3, <2>4, <2>5 DEF OneRequest
  <2> QED BY <2>6, <2>7 DEF Simulates, Async!Next
<1>16. CASE UNCHANGED vars BY <1>4, <1>16 DEF vars
<1>17. CASE CommitOnNone BY <1>4, <1>17 DEF CommitOnNone
<1>18. ASSUME NEW p \in Pools, Leave(p) \/ Expire(p) PROVE Simulates
  BY <1>4, <1>18 DEF Leave, Expire
<1> QED
  BY <1>0, <1>5, <1>6, <1>7, <1>8, <1>9, <1>10, <1>11, <1>12, <1>13, <1>14, <1>15, <1>16,
     <1>17, <1>18
     DEF Step, Worker, Io, Handler, Pool

-----------------------------------------------------------------------------
\* Every variable stays in its type, whatever the number of requests and pools.
THEOREM TypeCorrect == Spec => []TypeOK
<1>1. IInv => TypeOK BY DEF IInv
<1> QED BY <1>1, SpecIInv, PTL

\* The IO thread runs a handler only while the router on the stack of slotStart
\* exists (myhttpserverworker.cpp:44,162).
THEOREM RouterOutlivesHandlers == Spec => []HandlersSeeRouter
<1>1. IInv => HandlersSeeRouter BY DEF IInv, ServerInSlot, HandlersSeeRouter
<1> QED BY <1>1, SpecIInv, PTL

\* No cleanup reaches the pool of a server that is waiting for its line, and the program
\* breaks only once a cleanup has let go of the threads of a pool (singleton.h:22-39).
THEOREM PoolIsSound == Spec => []PoolSoundWhileServing
<1>1. IInv => PoolSoundWhileServing
  BY DEF IInv, PoolState, HandlerState, PoolSoundWhileServing, Untouched
<1> QED BY <1>1, SpecIInv, PTL

\* One pool at most, the global one, and nothing runs outside of it, whichever step of a
\* commit() meets whichever step of the cleanup (singleton.h:22-39, hthreadpool.h:81,129).
THEOREM GlobalPoolIsTheOnlyOne == Spec => []OneGlobalPool
<1>1. ASSUME IInv PROVE OneGlobalPool
  BY <1>1 DEF IInv, PoolState, DeadPoolsIdle, OneGlobalPool
<1> QED BY <1>1, SpecIInv, PTL

\* After the thread has finished no server is started again (myhttpserver.cpp:10).
THEOREM GoneForGood == Spec => NoServiceAfterStop
<1>1. IInv /\ thread = "finished" => ~work BY DEF IInv, WorkerLife
<1>2. IInv /\ ~work => ~accepting /\ slot = "none"
  BY DEF IInv, TypeOK, ServerInSlot, WorkerLife
<1>3. ASSUME IInv, [Next]_vars, ~work PROVE ~work'
  BY <1>3, NextIsStep DEF Step, Gui, Worker, Io, Handler, Pool, vars, IInv, WorkerLife,
     Start, StopCall, StopReturn,
     SlotStart, ReadLine, SpinAtEof, ExitInstance, JoinThreads, PoolDeleted, ResetInstance,
     CloseServer, SlotReturn, Finish, TypeEnter, SyncRequest, SyncResponse, AsyncRequest,
     GetInstance, ReturnInstance, CommitStart, CommitRoom, CommitPush, InCommit,
     CommitOnNone, BeginTask, Leave, Expire, EndTask
<1> QED BY <1>1, <1>2, <1>3, SpecIInv, PTL DEF Spec, NoServiceAfterStop

\* With the console at its end no later event of the program lets a stop() return
\* that meets a server waiting for a line (myhttpserverworker.cpp:186).
THEOREM StopHangsForGood == Spec => EofHangsStop
<1> DEFINE Hung == gui = "stop" /\ slot = "getchar" /\ stdin = "eof"
<1>1. ASSUME IInv, [Next]_vars, Hung PROVE Hung'
  <2>1. thread = "running" BY <1>1 DEF IInv, WorkerLife
  <2> QED
    BY <1>1, <2>1, NextIsStep DEF Step, Gui, Worker, Io, Handler, Pool, vars,
     Start, StopCall, StopReturn,
     SlotStart, ReadLine, SpinAtEof, ExitInstance, JoinThreads, PoolDeleted, ResetInstance,
     CloseServer, SlotReturn, Finish, TypeEnter, SyncRequest, SyncResponse, AsyncRequest,
     GetInstance, ReturnInstance, CommitStart, CommitRoom, CommitPush, InCommit,
     CommitOnNone, BeginTask, Leave, Expire, EndTask
<1>2. Hung => gui = "stop" OBVIOUS
<1> QED BY <1>1, <1>2, SpecIInv, PTL DEF Spec, EofHangsStop

\* The requests for /async are treated as by one pool that never lasts: begun once, in
\* the order they came, answered once, and dropped only when no other one runs, by a cleanup
\* that has waited for what was begun, what a late commit() of a restarted pool gave it
\* included (singleton.h:33-39, hthreadpool.h:40,81,129).
THEOREM OnePoolAfterTheOther == Spec => ImplementsAsyncPool
<1>1. Init => Async!Init /\ OneRequest
  <2> SUFFICES ASSUME Init PROVE Async!Init /\ OneRequest OBVIOUS
  <2>1. GlobalQueue = <<>> /\ Started = {} /\ answered = {} BY DEF Init, GlobalQueue, Started
  <2>2. Handling = {} BY IoAtRest DEF Init, Handling, InAsync
  <2> QED BY <2>1, <2>2 DEF Async!Init, OneRequest
<1>2. IInv /\ OneRequest /\ [Next]_vars
        => OneRequest' /\ [Async!Next \/ Async!Discard]_(Async!vars)
  BY AsyncStep DEF Simulates
<1> QED BY <1>1, <1>2, SpecIInv, PTL DEF Spec, ImplementsAsyncPool, Async!LossySpec

-----------------------------------------------------------------------------
(* A start() spends at most one pool.                                       *)

\* The runs of slotStart that have not come to exitInstance yet.
Coming == IF slot \in {"getchar", "cleanup"} THEN posted + 1 ELSE posted

\* Each pool that is stopped was stopped by a slot of its own.
OnePoolPerStart ==
    /\ IsFiniteSet(stopping)
    /\ Cardinality(stopping) + Coming <= starts

LEMMA InitPerStart == Init => OnePoolPerStart
<1> SUFFICES ASSUME Init PROVE OnePoolPerStart OBVIOUS
<1>1. stopping = {} /\ posted = 0 /\ starts = 0 /\ slot = "none" BY DEF Init
<1>2. IsFiniteSet(stopping) /\ Cardinality(stopping) = 0 BY <1>1, FS_EmptySet
<1> QED BY <1>1, <1>2 DEF OnePoolPerStart, Coming

LEMMA PerStartStep == TypeOK /\ OnePoolPerStart /\ [Next]_vars => OnePoolPerStart'
<1> SUFFICES ASSUME TypeOK, OnePoolPerStart, [Next]_vars PROVE OnePoolPerStart'
  OBVIOUS
<1> DEFINE c == Cardinality(stopping)
<1>0. IsFiniteSet(stopping) /\ c \in Nat /\ posted \in Nat /\ starts \in Nat
  BY BoundsAssumption, FS_CardinalityType DEF OnePoolPerStart, TypeOK
<1>1. CASE ExitInstance
  <2>1. /\ slot = "cleanup" /\ slot' \in {"closing", "joining", "joined"} /\ UNCHANGED <<posted, starts>>
        /\ stopping' = stopping \/ stopping' = stopping \cup {instance}
    BY <1>1 DEF ExitInstance
  <2>2. /\ IsFiniteSet(stopping')
        /\ Cardinality(stopping') = c \/ Cardinality(stopping') = c + 1
    BY <1>0, <2>1, FS_AddElement
  <2> QED BY <1>0, <2>1, <2>2 DEF OnePoolPerStart, Coming
<1>2. ASSUME UNCHANGED stopping,
             /\ posted' \in Nat /\ starts' \in Nat
             /\ Coming' - starts' <= Coming - starts
      PROVE  OnePoolPerStart'
  <2>1. IsFiniteSet(stopping') /\ Cardinality(stopping') = c BY <1>0, <1>2
  <2>2. Coming \in Nat /\ Coming' \in Nat
    <3>1. posted \in Nat /\ posted' \in Nat BY <1>0, <1>2
    <3>2. Coming \in Nat BY <3>1 DEF Coming
    <3>3. Coming' = posted' + 1 \/ Coming' = posted' BY DEF Coming
    <3>4. ASSUME NEW k \in Nat PROVE k \in Nat /\ k + 1 \in Nat OBVIOUS
    <3> QED BY <3>1, <3>2, <3>3, <3>4, Zenon
  <2>3. c + Coming <= starts BY DEF OnePoolPerStart
  <2>4. c + Coming' <= starts'
    <3> HIDE DEF c
    <3>1. ASSUME NEW k \in Nat, NEW a \in Nat, NEW b \in Nat, NEW x \in Nat, NEW y \in Nat,
                 k + a <= x, b - y <= a - x
          PROVE  k + b <= y
      BY <3>1
    <3> QED BY <1>0, <1>2, <2>2, <2>3, <3>1
  <2> QED BY <2>1, <2>4 DEF OnePoolPerStart
<1> USE DEF Coming
<1>3. CASE Start BY <1>0, <1>2, <1>3 DEF Start
<1>4. CASE SlotStart BY <1>0, <1>2, <1>4 DEF SlotStart
<1>5. CASE ReadLine BY <1>0, <1>2, <1>5 DEF ReadLine
<1>6. CASE JoinThreads \/ PoolDeleted \/ ResetInstance \/ CloseServer \/ SlotReturn
  BY <1>0, <1>2, <1>6 DEF JoinThreads, PoolDeleted, ResetInstance, CloseServer, SlotReturn
<1>7. CASE Finish BY <1>0, <1>2, <1>7 DEF Finish
<1>8. CASE UNCHANGED <<posted, starts, slot, stopping>> BY <1>0, <1>2, <1>8
<1>9. \/ ExitInstance \/ Start \/ SlotStart \/ ReadLine \/ JoinThreads \/ PoolDeleted
      \/ ResetInstance \/ CloseServer \/ SlotReturn \/ Finish
      \/ UNCHANGED <<posted, starts, slot, stopping>>
  BY NextIsStep
     DEF Step, Gui, Worker, Io, Handler, Pool, StopCall, StopReturn, SpinAtEof, TypeEnter,
         SyncRequest, SyncResponse, AsyncRequest, GetInstance, ReturnInstance, CommitStart,
         CommitRoom, CommitPush, InCommit, CommitOnNone, BeginTask, Leave, Expire, EndTask,
         vars
<1> QED BY <1>1, <1>3, <1>4, <1>5, <1>6, <1>7, <1>8, <1>9

\* However many requests come and however often the server is started, a start() costs
\* one pool at most: whenever instance() finds no pool there is one to make, so the
\* bound on pools keeps no handler waiting (singleton.h:22-39).
THEOREM PoolsSuffice == Spec => [](instance = Null => Pools \ (alive \cup stopping) # {})
<1>1. ASSUME IInv, OnePoolPerStart, instance = Null
      PROVE  Pools \ (alive \cup stopping) # {}
  <2>1. alive = {} BY <1>1 DEF IInv, PoolState
  <2>2. SUFFICES ASSUME Pools \subseteq stopping PROVE FALSE BY <2>1
  <2>3. /\ IsFiniteSet(stopping) /\ Cardinality(stopping) \in Nat
        /\ posted \in Nat /\ starts \in 0..MaxStarts
    BY <1>1, BoundsAssumption, FS_CardinalityType DEF OnePoolPerStart, IInv, TypeOK
  <2>4. Cardinality(stopping) <= MaxStarts
    BY <1>1, <2>3, BoundsAssumption DEF OnePoolPerStart, Coming
  <2>5. Cardinality(Pools) = MaxPools BY BoundsAssumption, FS_Interval
  <2>6. Cardinality(Pools) <= Cardinality(stopping) BY <2>2, <2>3, FS_Subset
  <2> QED BY <2>3, <2>4, <2>5, <2>6, BoundsAssumption
<1>2. IInv => TypeOK BY DEF IInv
<1> QED BY <1>1, <1>2, InitPerStart, PerStartStep, SpecIInv, PTL DEF Spec

=============================================================================

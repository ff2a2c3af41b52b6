------------------------ MODULE HThreadPool_proofs ------------------------
(***************************************************************************)
(* The threads of the pool, for any clients, tasks and limits: types,      *)
(* counters and the limit.  What becomes of the tasks is in                *)
(* HThreadPoolTasks_proofs.                                                *)
(***************************************************************************)
EXTENDS HThreadPool, FiniteSetTheorems, TLAPS

-----------------------------------------------------------------------------
(* The inductive invariant.                                                *)

Busy   == {w \in Workers : pc[w] \in {"run", "ran"}}
InAdd1 == {c \in Clients : call[c].at = "add1"}
Stops  == {"notify_all", "join"}

\* While a client is inside stop() no other one is in a call that adds threads.
StopAlone ==
    \A c, d \in Clients :
        c # d /\ call[c].at \in Stops => call[d].at \notin Structural

\* thread_mutex: one thread at most is being added or removed.
OneAtATime ==
    /\ \A c, d \in Adding : c = d
    /\ \A v, w \in Removing : v = w
    /\ Adding = {} \/ Removing = {}

\* A client that creates threads knows how many, and which one it adds; what it goes
\* on with needs a task.
CreateState ==
    \A c \in Clients :
        /\ call[c].at \in {"add1", "add2"} => call[c].thread \in Workers /\ call[c].left > 0
        /\ call[c].at \in {"check", "size", "room", "push"} => call[c].task # None
        /\ call[c].at \in {"create", "add1", "add2"} /\ call[c].back # "idle"
              => call[c].task # None

\* A thread that runs has a task.
Jobs == \A w \in Workers : pc[w] = "run" => job[w] \in Tasks

\* A thread that works is in the list or on its way into it, so stop() joins it.
Listed ==
    \A w \in Workers : pc[w] \notin {"none", "exited"} =>
        \/ threads[w] # None
        \/ \E c \in Clients : call[c].at \in {"add1", "add2"} /\ call[c].thread = w

PoolInv == /\ TypeOK /\ StopAlone /\ OneAtATime /\ CreateState /\ Jobs /\ Listed
           /\ CountersAgree /\ ThreadCap

-----------------------------------------------------------------------------
(* What the actions do to the record of a client's call.                    *)

Typed == call \in [Clients -> Call]

\* Only client c's record changes.
OnlyCall(c) == Typed' /\ \A d \in Clients \ {c} : call'[d] = call[d]

KeepsTask(c)   == call'[c].task = call[c].task
KeepsAdding(c) == /\ call'[c].left = call[c].left /\ call'[c].back = call[c].back
                  /\ call'[c].thread = call[c].thread
KeepsWait(c)   == call'[c].until = call[c].until /\ call'[c].moved = call[c].moved

\* One field at a time.
LEMMA OneField ==
    ASSUME NEW r \in Call
    PROVE  /\ \A a \in ClientAts : [r EXCEPT !.at = a] \in Call
           /\ \A t \in Tasks \cup {None} : [r EXCEPT !.task = t] \in Call
           /\ \A n \in Nat : [r EXCEPT !.left = n] \in Call
           /\ \A b \in {"idle", "check", "push"} : [r EXCEPT !.back = b] \in Call
           /\ \A w \in Workers \cup {None} : [r EXCEPT !.thread = w] \in Call
           /\ \A n \in Int : [r EXCEPT !.seen = n] \in Call
           /\ \A u \in SUBSET Tasks : [r EXCEPT !.until = u] \in Call
           /\ \A m \in BOOLEAN : [r EXCEPT !.moved = m] \in Call
<1>1. ASSUME NEW a \in ClientAts PROVE [r EXCEPT !.at = a] \in Call BY DEF Call
<1>2. ASSUME NEW t \in Tasks \cup {None} PROVE [r EXCEPT !.task = t] \in Call BY DEF Call
<1>3. ASSUME NEW n \in Nat PROVE [r EXCEPT !.left = n] \in Call BY DEF Call
<1>4. ASSUME NEW b \in {"idle", "check", "push"} PROVE [r EXCEPT !.back = b] \in Call
  BY DEF Call
<1>5. ASSUME NEW w \in Workers \cup {None} PROVE [r EXCEPT !.thread = w] \in Call
  BY DEF Call
<1>6. ASSUME NEW n \in Int PROVE [r EXCEPT !.seen = n] \in Call BY DEF Call
<1>7. ASSUME NEW u \in SUBSET Tasks PROVE [r EXCEPT !.until = u] \in Call BY DEF Call
<1>8. ASSUME NEW m \in BOOLEAN PROVE [r EXCEPT !.moved = m] \in Call BY DEF Call
<1> QED BY <1>1, <1>2, <1>3, <1>4, <1>5, <1>6, <1>7, <1>8

\* The fields of a call are typed.
LEMMA FieldTypes ==
    ASSUME NEW r \in Call
    PROVE  /\ r.at \in ClientAts /\ r.task \in Tasks \cup {None} /\ r.left \in Nat
           /\ r.back \in {"idle", "check", "push"} /\ r.thread \in Workers \cup {None}
           /\ r.seen \in Int /\ r.until \in SUBSET Tasks /\ r.moved \in BOOLEAN
BY DEF Call

\* A client that is in no call.
LEMMA IdleFields ==
    /\ Idle \in Call /\ Idle.at = "idle" /\ Idle.task = None /\ Idle.thread = None
    /\ Idle.until = {} /\ Idle.moved = FALSE
BY DEF Call, ClientAts, Idle, None

\* Becomes changes the record of one client.
LEMMA BecomesEffect ==
    ASSUME Typed, NEW c \in Clients, NEW r \in Call, Becomes(c, r)
    PROVE  OnlyCall(c) /\ call'[c] = r
BY DEF Typed, OnlyCall, Becomes

\* Goto changes its place only.
LEMMA GotoEffect ==
    ASSUME Typed, NEW c \in Clients, NEW l \in ClientAts, Goto(c, l)
    PROVE  /\ OnlyCall(c) /\ call'[c].at = l
           /\ KeepsTask(c) /\ KeepsAdding(c) /\ KeepsWait(c) /\ call'[c].seen = call[c].seen
<1>1. call[c] \in Call BY DEF Typed
<1>2. [call[c] EXCEPT !.at = l] \in Call BY <1>1, OneField
<1>3. OnlyCall(c) /\ call'[c] = [call[c] EXCEPT !.at = l]
  BY <1>2, BecomesEffect DEF Goto
<1> QED BY <1>1, <1>3 DEF Call, KeepsTask, KeepsAdding, KeepsWait

\* Return leaves it idle.
LEMMA ReturnEffect ==
    ASSUME Typed, NEW c \in Clients, Return(c)
    PROVE  OnlyCall(c) /\ call'[c] = Idle
BY BecomesEffect, IdleFields DEF Return

\* The fields at, task at once.
LEMMA AtTask ==
    ASSUME Typed, NEW c \in Clients, NEW a \in ClientAts, NEW t \in Tasks \cup {None},
           Becomes(c, [call[c] EXCEPT !.task = t, !.at = a])
    PROVE  /\ OnlyCall(c)
           /\ call'[c].task = t
           /\ call'[c].at = a
           /\ KeepsAdding(c)
           /\ KeepsWait(c)
<1> DEFINE r0 == call[c]
            r1 == [r0 EXCEPT !.task = t]
            r2 == [r1 EXCEPT !.at = a]
<1>1. r0 \in Call BY DEF Typed
<1>2. r1 \in Call BY <1>1, OneField
<1>3. r2 \in Call BY <1>2, OneField
<1>4. OnlyCall(c) /\ call'[c] = r2 BY <1>3, BecomesEffect
<1> QED BY <1>1, <1>4 DEF Call, KeepsTask, KeepsAdding, KeepsWait

\* The fields at, left, back at once.
LEMMA AtLeftBack ==
    ASSUME Typed, NEW c \in Clients, NEW a \in ClientAts, NEW n \in Nat,
           NEW b \in {"idle", "check", "push"},
           Becomes(c, [call[c] EXCEPT !.at = a, !.left = n, !.back = b])
    PROVE  /\ OnlyCall(c)
           /\ call'[c].at = a
           /\ call'[c].left = n
           /\ call'[c].back = b
           /\ KeepsTask(c)
           /\ call'[c].thread = call[c].thread
           /\ KeepsWait(c)
<1> DEFINE r0 == call[c]
            r1 == [r0 EXCEPT !.at = a]
            r2 == [r1 EXCEPT !.left = n]
            r3 == [r2 EXCEPT !.back = b]
<1>1. r0 \in Call BY DEF Typed
<1>2. r1 \in Call BY <1>1, OneField
<1>3. r2 \in Call BY <1>2, OneField
<1>4. r3 \in Call BY <1>3, OneField
<1>5. OnlyCall(c) /\ call'[c] = r3 BY <1>4, BecomesEffect
<1> QED BY <1>1, <1>5 DEF Call, KeepsTask, KeepsAdding, KeepsWait

\* The fields at, seen at once.
LEMMA AtSeen ==
    ASSUME Typed, NEW c \in Clients, NEW a \in ClientAts, NEW n \in Int,
           Becomes(c, [call[c] EXCEPT !.at = a, !.seen = n])
    PROVE  /\ OnlyCall(c)
           /\ call'[c].at = a
           /\ call'[c].seen = n
           /\ KeepsTask(c)
           /\ KeepsAdding(c)
           /\ KeepsWait(c)
<1> DEFINE r0 == call[c]
            r1 == [r0 EXCEPT !.at = a]
            r2 == [r1 EXCEPT !.seen = n]
<1>1. r0 \in Call BY DEF Typed
<1>2. r1 \in Call BY <1>1, OneField
<1>3. r2 \in Call BY <1>2, OneField
<1>4. OnlyCall(c) /\ call'[c] = r2 BY <1>3, BecomesEffect
<1> QED BY <1>1, <1>4 DEF Call, KeepsTask, KeepsAdding, KeepsWait

\* The fields at, left, seen, back at once.
\* The field left alone.
LEMMA LeftOnly ==
    ASSUME Typed, NEW c \in Clients, NEW n \in Nat,
           Becomes(c, [call[c] EXCEPT !.left = n])
    PROVE  /\ OnlyCall(c)
           /\ call'[c].left = n
           /\ call'[c].at = call[c].at
           /\ KeepsTask(c)
           /\ call'[c].back = call[c].back
           /\ call'[c].thread = call[c].thread
           /\ KeepsWait(c)
<1> DEFINE r0 == call[c]
            r1 == [r0 EXCEPT !.left = n]
<1>1. r0 \in Call BY DEF Typed
<1>2. r1 \in Call BY <1>1, OneField
<1>3. OnlyCall(c) /\ call'[c] = r1 BY <1>2, BecomesEffect
<1> QED BY <1>1, <1>3 DEF Call, KeepsTask, KeepsAdding, KeepsWait

\* The fields at, thread at once.
LEMMA AtThread ==
    ASSUME Typed, NEW c \in Clients, NEW a \in ClientAts, NEW w \in Workers,
           Becomes(c, [call[c] EXCEPT !.at = a, !.thread = w])
    PROVE  /\ OnlyCall(c)
           /\ call'[c].at = a
           /\ call'[c].thread = w
           /\ KeepsTask(c)
           /\ call'[c].left = call[c].left
           /\ call'[c].back = call[c].back
           /\ KeepsWait(c)
<1> DEFINE r0 == call[c]
            r1 == [r0 EXCEPT !.at = a]
            r2 == [r1 EXCEPT !.thread = w]
<1>1. r0 \in Call BY DEF Typed
<1>2. r1 \in Call BY <1>1, OneField
<1>3. r2 \in Call BY <1>2, OneField
<1>4. OnlyCall(c) /\ call'[c] = r2 BY <1>3, BecomesEffect
<1> QED BY <1>1, <1>4 DEF Call, KeepsTask, KeepsAdding, KeepsWait

\* The fields at, task at once.
LEMMA AtTaskGone ==
    ASSUME Typed, NEW c \in Clients, NEW a \in ClientAts,
           Becomes(c, [call[c] EXCEPT !.at = a, !.task = None])
    PROVE  /\ OnlyCall(c)
           /\ call'[c].at = a
           /\ call'[c].task = None
           /\ KeepsAdding(c)
           /\ KeepsWait(c)
<1> DEFINE r0 == call[c]
            r1 == [r0 EXCEPT !.at = a]
            r2 == [r1 EXCEPT !.task = None]
<1>1. r0 \in Call BY DEF Typed
<1>2. r1 \in Call BY <1>1, OneField
<1>3. r2 \in Call BY <1>2, OneField
<1>4. OnlyCall(c) /\ call'[c] = r2 BY <1>3, BecomesEffect
<1> QED BY <1>1, <1>4 DEF Call, KeepsTask, KeepsAdding, KeepsWait

\* The fields at, until at once.
LEMMA AtUntil ==
    ASSUME Typed, NEW c \in Clients, NEW a \in ClientAts, NEW u \in SUBSET Tasks,
           Becomes(c, [call[c] EXCEPT !.at = a, !.until = u])
    PROVE  /\ OnlyCall(c)
           /\ call'[c].at = a
           /\ call'[c].until = u
           /\ KeepsTask(c)
           /\ KeepsAdding(c)
           /\ call'[c].moved = call[c].moved
<1> DEFINE r0 == call[c]
            r1 == [r0 EXCEPT !.at = a]
            r2 == [r1 EXCEPT !.until = u]
<1>1. r0 \in Call BY DEF Typed
<1>2. r1 \in Call BY <1>1, OneField
<1>3. r2 \in Call BY <1>2, OneField
<1>4. OnlyCall(c) /\ call'[c] = r2 BY <1>3, BecomesEffect
<1> QED BY <1>1, <1>4 DEF Call, KeepsTask, KeepsAdding, KeepsWait

\* The fields at, seen, moved at once.
LEMMA AtSeenMoved ==
    ASSUME Typed, NEW c \in Clients, NEW a \in ClientAts, NEW n \in Int, NEW m \in BOOLEAN,
           Becomes(c, [call[c] EXCEPT !.at = a, !.seen = n, !.moved = m])
    PROVE  /\ OnlyCall(c)
           /\ call'[c].at = a
           /\ call'[c].seen = n
           /\ call'[c].moved = m
           /\ KeepsTask(c)
           /\ KeepsAdding(c)
           /\ call'[c].until = call[c].until
<1> DEFINE r0 == call[c]
            r1 == [r0 EXCEPT !.at = a]
            r2 == [r1 EXCEPT !.seen = n]
            r3 == [r2 EXCEPT !.moved = m]
<1>1. r0 \in Call BY DEF Typed
<1>2. r1 \in Call BY <1>1, OneField
<1>3. r2 \in Call BY <1>2, OneField
<1>4. r3 \in Call BY <1>3, OneField
<1>5. OnlyCall(c) /\ call'[c] = r3 BY <1>4, BecomesEffect
<1> QED BY <1>1, <1>5 DEF Call, KeepsTask, KeepsAdding, KeepsWait

\* A client that takes no step keeps its record, but for `moved`, which is set if it
\* compares the counters.
OnlyMoved(f, g) ==
    /\ g.at = f.at /\ g.task = f.task /\ g.left = f.left /\ g.back = f.back
    /\ g.thread = f.thread /\ g.seen = f.seen /\ g.until = f.until
    /\ f.at \in {"idle_read", "cur_read"} => g.moved

\* Noticed sets `moved` of those who compare and nothing else.
LEMMA NoticedEffect ==
    ASSUME NEW f \in [Clients -> Call]
    PROVE  /\ Noticed(f) \in [Clients -> Call]
           /\ \A d \in Clients : OnlyMoved(f[d], Noticed(f)[d])
<1>1. ASSUME NEW r \in Call
      PROVE  [r EXCEPT !.moved = TRUE] \in Call /\ OnlyMoved(r, [r EXCEPT !.moved = TRUE])
  <2>1. [r EXCEPT !.moved = TRUE] \in Call BY OneField
  <2> QED BY <2>1 DEF Call, OnlyMoved
<1>2. ASSUME NEW r \in Call, r.at \notin {"idle_read", "cur_read"} PROVE OnlyMoved(r, r)
  BY <1>2 DEF OnlyMoved
<1>3. ASSUME NEW d \in Clients
      PROVE  /\ f[d] \in Call
             /\ Noticed(f)[d] = IF f[d].at \in {"idle_read", "cur_read"}
                                THEN [f[d] EXCEPT !.moved = TRUE] ELSE f[d]
  BY DEF Noticed
<1>4. Noticed(f) \in [Clients -> Call] BY <1>1 DEF Noticed
<1>5. ASSUME NEW d \in Clients PROVE OnlyMoved(f[d], Noticed(f)[d])
  <2>1. CASE f[d].at \in {"idle_read", "cur_read"} BY <2>1, <1>1, <1>3
  <2>2. CASE f[d].at \notin {"idle_read", "cur_read"} BY <2>2, <1>2, <1>3
  <2> QED BY <2>1, <2>2
<1> QED BY <1>4, <1>5

\* AddThread1 moves its client on; those who compare notice.
LEMMA AddThread1Effect ==
    ASSUME Typed, NEW c \in Clients, AddThread1(c)
    PROVE  /\ Typed' /\ call'[c].at = "add2" /\ KeepsTask(c) /\ KeepsAdding(c)
           /\ \A d \in Clients \ {c} : OnlyMoved(call[d], call'[d])
<1> DEFINE r1 == [call[c] EXCEPT !.at = "add2"]
           f == [call EXCEPT ![c] = r1]
<1>1. call[c] \in Call BY DEF Typed
<1>2. r1 \in Call BY <1>1, OneField DEF ClientAts
<1>3. f \in [Clients -> Call] BY <1>2 DEF Typed
<1>4. f[c] = r1 /\ \A d \in Clients \ {c} : f[d] = call[d] BY DEF Typed
<1>5. call' = Noticed(f) BY DEF AddThread1
<1>6. /\ r1.at = "add2" /\ r1.task = call[c].task /\ r1.left = call[c].left
      /\ r1.back = call[c].back /\ r1.thread = call[c].thread
  BY <1>1 DEF Call
<1> HIDE DEF f, r1
<1>7. Typed' /\ \A d \in Clients : OnlyMoved(f[d], call'[d])
  BY <1>3, <1>5, NoticedEffect DEF Typed
<1> QED BY <1>4, <1>6, <1>7 DEF OnlyMoved, KeepsTask, KeepsAdding

\* AddThread2 likewise.
LEMMA AddThread2Effect ==
    ASSUME Typed, NEW c \in Clients, AddThread2(c), call[c].left > 0
    PROVE  /\ Typed' /\ call'[c].at = "create" /\ KeepsTask(c)
           /\ call'[c].left = call[c].left - 1 /\ call'[c].back = call[c].back
           /\ call'[c].thread = None
           /\ \A d \in Clients \ {c} : OnlyMoved(call[d], call'[d])
<1> DEFINE r1 == [call[c] EXCEPT !.at = "create"]
           r2 == [r1 EXCEPT !.left = call[c].left - 1]
           r3 == [r2 EXCEPT !.thread = None]
           f == [call EXCEPT ![c] = r3]
<1>1. call[c] \in Call /\ call[c].left - 1 \in Nat BY FieldTypes DEF Typed
<1>2. r1 \in Call BY <1>1, OneField DEF ClientAts
<1>3. r2 \in Call BY <1>1, <1>2, OneField
<1>4. r3 \in Call BY <1>3, OneField
<1>5. f \in [Clients -> Call] BY <1>4 DEF Typed
<1>6. f[c] = r3 /\ \A d \in Clients \ {c} : f[d] = call[d] BY DEF Typed
<1>7. r3 = [call[c] EXCEPT !.at = "create", !.left = call[c].left - 1, !.thread = None]
  BY <1>1 DEF Call
<1>8. call' = Noticed([call EXCEPT ![c] =
                  [call[c] EXCEPT !.at = "create", !.left = call[c].left - 1, !.thread = None]])
  BY DEF AddThread2
<1>9. call' = Noticed(f) BY <1>7, <1>8
<1>10. /\ r3.at = "create" /\ r3.task = call[c].task /\ r3.left = call[c].left - 1
       /\ r3.back = call[c].back /\ r3.thread = None
  BY <1>1 DEF Call
<1> HIDE DEF f, r3
<1>11. Typed' /\ \A d \in Clients : OnlyMoved(f[d], call'[d])
  BY <1>5, <1>9, NoticedEffect DEF Typed
<1> QED BY <1>6, <1>10, <1>11 DEF OnlyMoved, KeepsTask

\* delThread takes no client's step.
LEMMA DelThreadEffect ==
    ASSUME Typed, call' = Noticed(call)
    PROVE  Typed' /\ \A d \in Clients : OnlyMoved(call[d], call'[d])
BY NoticedEffect DEF Typed

USE DEF poolVars, counters, workerVars, queueVars, history

\* The limits are numbers in order.
LEMMA Limits ==
    ASSUME TypeOK
    PROVE  min_thread_num \in Nat /\ max_thread_num \in Nat /\ min_thread_num <= max_thread_num
BY SetupsAssumption DEF TypeOK, min_thread_num, max_thread_num, Setup

\* What StartTest makes of its client's call.
LEMMA StartTestEffect ==
    ASSUME TypeOK, NEW c \in Clients, StartTest(c)
    PROVE  /\ OnlyCall(c)
           /\ call'[c].at \in {"idle", "check", "run"}
           /\ call'[c] = Idle \/ (KeepsTask(c) /\ KeepsAdding(c))
           /\ call'[c].at = "check" => call[c].task # None /\ status # "STOP"
<1> USE DEF Typed, TypeOK, ClientAts
<1>1. CASE status # "STOP" /\ call[c].task = None
  BY <1>1, ReturnEffect, IdleFields DEF StartTest, AfterStart
<1>2. CASE status # "STOP" /\ call[c].task # None
  BY <1>2, GotoEffect DEF StartTest, AfterStart
<1>3. CASE status = "STOP"
  BY <1>3, GotoEffect DEF StartTest
<1> QED BY <1>1, <1>2, <1>3

\* What StartRun makes of its client's call.
LEMMA StartRunEffect ==
    ASSUME TypeOK, NEW c \in Clients, StartRun(c)
    PROVE  /\ OnlyCall(c)
           /\ call'[c].at = "create" /\ KeepsTask(c)
           /\ call'[c].back # "idle" => call[c].task # None
           /\ call'[c].back # "push" /\ call'[c].left = min_thread_num
<1>1. PICK n \in Nat : n = min_thread_num BY Limits
<1>2. "create" \in ClientAts BY DEF ClientAts
<1>3. CASE call[c].task = None
  <2>1. Becomes(c, [call[c] EXCEPT !.at = "create", !.left = n, !.back = "idle"])
    BY <1>1, <1>3 DEF StartRun
  <2> QED BY <1>1, <1>2, <2>1, AtLeftBack, ZenonT(30) DEF Typed, TypeOK
<1>4. CASE call[c].task # None
  <2>1. Becomes(c, [call[c] EXCEPT !.at = "create", !.left = n, !.back = "check"])
    BY <1>1, <1>4 DEF StartRun
  <2> QED BY <1>1, <1>2, <1>4, <2>1, AtLeftBack, ZenonT(30) DEF Typed, TypeOK
<1> QED BY <1>3, <1>4

\* What CommitCheck makes of its client's call.
LEMMA CommitCheckEffect ==
    ASSUME TypeOK, NEW c \in Clients, CommitCheck(c)
    PROVE  /\ OnlyCall(c)
           /\ call'[c].at = "size" /\ KeepsTask(c)
BY AtSeen, IdleFields, FieldTypes DEF CommitCheck, ClientAts, Typed, TypeOK, At

\* What CommitSize makes of its client's call.
LEMMA CommitSizeEffect ==
    ASSUME TypeOK, NEW c \in Clients, CommitSize(c)
    PROVE  /\ OnlyCall(c)
           /\ call'[c].at \in {"room", "push"} /\ KeepsTask(c)
<1> USE DEF Typed, TypeOK
<1>1. PICK zero \in Int : zero = 0 OBVIOUS
<1>2. PICK a \in {"room", "push"} : Becomes(c, [call[c] EXCEPT !.at = a, !.seen = zero])
  BY <1>1 DEF CommitSize
<1>3. a \in ClientAts BY <1>2 DEF ClientAts
<1> QED BY <1>2, <1>3, AtSeen

\* What CommitRoom makes of its client's call.
LEMMA CommitRoomEffect ==
    ASSUME TypeOK, NEW c \in Clients, CommitRoom(c)
    PROVE  /\ OnlyCall(c)
           /\ call'[c].at \in {"create", "push"} /\ KeepsTask(c)
           /\ call'[c].at = "create" => call'[c].back = "push"
<1>1. PICK one \in Nat : one = 1 OBVIOUS
<1>2. "create" \in ClientAts /\ "push" \in ClientAts BY DEF ClientAts
<1>3. CASE cur_thread_num < max_thread_num
  <2>1. Becomes(c, [call[c] EXCEPT !.at = "create", !.left = one, !.back = "push"])
    BY <1>1, <1>3 DEF CommitRoom
  <2> QED BY <1>2, <2>1, AtLeftBack, ZenonT(30) DEF Typed, TypeOK
<1>4. CASE ~(cur_thread_num < max_thread_num)
  BY <1>2, <1>4, GotoEffect DEF CommitRoom, Typed, TypeOK
<1> QED BY <1>3, <1>4

\* What CreateDone makes of its client's call.
LEMMA CreateDoneEffect ==
    ASSUME TypeOK, NEW c \in Clients, CreateDone(c)
    PROVE  /\ OnlyCall(c)
           /\ call'[c].at \in {"idle", "check", "push"}
           /\ call'[c] = Idle \/ (KeepsTask(c) /\ call[c].back # "idle")
<1> USE DEF Typed, TypeOK, ClientAts
<1>1. CASE call[c].back = "idle" BY <1>1, ReturnEffect, IdleFields DEF CreateDone
<1>2. CASE call[c].back # "idle"
  <2>1. call[c].back \in {"check", "push"} BY <1>2, FieldTypes
  <2>2. Goto(c, call[c].back) BY <1>2 DEF CreateDone
  <2> QED BY <1>2, <2>1, <2>2, GotoEffect
<1> QED BY <1>1, <1>2

\* What CreateThread makes of its client's call.
LEMMA CreateThreadEffect ==
    ASSUME TypeOK, NEW c \in Clients, CreateThread(c)
    PROVE  /\ OnlyCall(c)
           /\ KeepsTask(c) /\ call'[c].back = call[c].back
           /\ \/ /\ call'[c].at = "create" /\ UNCHANGED pc
                 /\ cur_thread_num >= max_thread_num
              \/ /\ call'[c].at = "add1" /\ call'[c].thread = NewWorker /\ NewWorker \in Workers
                 /\ call'[c].left = call[c].left
                 /\ pc[NewWorker] = "none" /\ pc' = [pc EXCEPT ![NewWorker] = "loop"]
<1>0. Typed BY DEF Typed, TypeOK
<1>1. CASE /\ Becomes(c, [call[c] EXCEPT !.left = call[c].left - 1]) /\ UNCHANGED pc
           /\ cur_thread_num >= max_thread_num
  <2>1. PICK n \in Nat : n = call[c].left - 1 BY <1>0, FieldTypes DEF CreateThread, Typed
  <2>2. Becomes(c, [call[c] EXCEPT !.left = n]) BY <1>1, <2>1
  <2>3. OnlyCall(c) /\ KeepsTask(c) /\ call'[c].back = call[c].back /\ call'[c].at = "create"
    BY <1>0, <2>2, LeftOnly DEF CreateThread, At
  <2> QED BY <1>1, <2>3
<1>2. CASE /\ FreeWorkers # {}
           /\ pc' = [pc EXCEPT ![NewWorker] = "loop"]
           /\ Becomes(c, [call[c] EXCEPT !.at = "add1", !.thread = NewWorker])
  <2>1. NewWorker \in Workers /\ pc[NewWorker] = "none" BY <1>2 DEF FreeWorkers, NewWorker
  <2>2. PICK w \in Workers : w = NewWorker BY <2>1
  <2>3. Becomes(c, [call[c] EXCEPT !.at = "add1", !.thread = w]) BY <1>2, <2>2
  <2>4. "add1" \in ClientAts BY DEF ClientAts
  <2>5. /\ OnlyCall(c) /\ call'[c].at = "add1" /\ call'[c].thread = w /\ KeepsTask(c)
        /\ call'[c].left = call[c].left /\ call'[c].back = call[c].back
    BY <1>0, <2>3, <2>4, AtThread, ZenonT(30)
  <2> QED BY <1>2, <2>1, <2>2, <2>5
<1> QED BY <1>1, <1>2 DEF CreateThread

\* What CommitPush makes of its client's call.
LEMMA CommitPushEffect ==
    ASSUME TypeOK, NEW c \in Clients, CommitPush(c)
    PROVE  /\ OnlyCall(c)
           /\ call'[c].at = "notify" /\ call'[c].task = None
BY AtTaskGone, IdleFields, FieldTypes DEF CommitPush, ClientAts, Typed, TypeOK, At

\* What CommitNotify makes of its client's call.
LEMMA CommitNotifyEffect ==
    ASSUME TypeOK, NEW c \in Clients, CommitNotify(c)
    PROVE  /\ OnlyCall(c)
           /\ call'[c] = Idle
BY ReturnEffect, IdleFields, FieldTypes DEF CommitNotify, ClientAts, Typed, TypeOK, At

\* What StopNotify makes of its client's call.
LEMMA StopNotifyEffect ==
    ASSUME TypeOK, NEW c \in Clients, StopNotify(c)
    PROVE  /\ OnlyCall(c)
           /\ call'[c].at = "join" /\ KeepsTask(c)
BY GotoEffect, IdleFields, FieldTypes DEF StopNotify, ClientAts, Typed, TypeOK, At

\* What StopJoin makes of its client's call.
LEMMA StopJoinEffect ==
    ASSUME TypeOK, NEW c \in Clients, StopJoin(c)
    PROVE  /\ OnlyCall(c)
           /\ call'[c] = Idle
BY ReturnEffect, IdleFields, FieldTypes DEF StopJoin, ClientAts, Typed, TypeOK, At

\* What PauseSet makes of its client's call.
LEMMA PauseSetEffect ==
    ASSUME TypeOK, NEW c \in Clients, PauseSet(c)
    PROVE  /\ OnlyCall(c)
           /\ call'[c] = Idle
BY ReturnEffect, IdleFields, FieldTypes DEF PauseSet, ClientAts, Typed, TypeOK, At

\* What ResumeSet makes of its client's call.
LEMMA ResumeSetEffect ==
    ASSUME TypeOK, NEW c \in Clients, ResumeSet(c)
    PROVE  /\ OnlyCall(c)
           /\ call'[c] = Idle
BY ReturnEffect, IdleFields, FieldTypes DEF ResumeSet, ClientAts, Typed, TypeOK, At

\* What WaitStopped makes of its client's call.
LEMMA WaitStoppedEffect ==
    ASSUME TypeOK, NEW c \in Clients, WaitStopped(c)
    PROVE  /\ OnlyCall(c)
           /\ call'[c] = Idle
BY ReturnEffect, IdleFields, FieldTypes DEF WaitStopped, ClientAts, Typed, TypeOK, At

\* What WaitEmpty makes of its client's call.
LEMMA WaitEmptyEffect ==
    ASSUME TypeOK, NEW c \in Clients, WaitEmpty(c)
    PROVE  /\ OnlyCall(c)
           /\ call'[c].at \in {"empty", "compare"} /\ KeepsTask(c) /\ KeepsWait(c)
           /\ call'[c].at = "compare" => tasks = <<>>
<1> USE DEF Typed, TypeOK, ClientAts
<1>1. CASE tasks = <<>> BY <1>1, GotoEffect DEF WaitEmpty
<1>2. CASE tasks # <<>>
  BY <1>2 DEF WaitEmpty, OnlyCall, At, KeepsTask, KeepsWait
<1> QED BY <1>1, <1>2

\* What WaitRead makes of its client's call.
LEMMA WaitReadEffect ==
    ASSUME TypeOK, NEW c \in Clients, WaitRead(c)
    PROVE  /\ OnlyCall(c)
           /\ KeepsTask(c) /\ call'[c].until = call[c].until /\ call'[c].moved = ~ThreadMutexFree
           /\ \/ call'[c].at = "idle_read" /\ call'[c].seen = idle_thread_num
              \/ call'[c].at = "cur_read" /\ call'[c].seen = cur_thread_num
<1> USE DEF Typed, TypeOK, ClientAts
<1>1. PICK r \in {[at |-> "idle_read", seen |-> idle_thread_num],
                  [at |-> "cur_read", seen |-> cur_thread_num]} :
          Becomes(c, [call[c] EXCEPT !.at = r.at, !.seen = r.seen,
                                     !.moved = ~ThreadMutexFree])
  BY DEF WaitRead
<1>2. \/ r.at = "idle_read" /\ r.seen = idle_thread_num
      \/ r.at = "cur_read" /\ r.seen = cur_thread_num
  OBVIOUS
<1>3. (~ThreadMutexFree) \in BOOLEAN BY DEF ThreadMutexFree
<1>4. r.at \in ClientAts /\ r.seen \in Int BY <1>2
<1> HIDE DEF ClientAts
<1> QED BY <1>1, <1>2, <1>3, <1>4, AtSeenMoved, ZenonT(30)

\* What WaitCompare makes of its client's call.
LEMMA WaitCompareEffect ==
    ASSUME TypeOK, NEW c \in Clients, WaitCompare(c)
    PROVE  /\ OnlyCall(c)
           /\ \/ call'[c] = Idle
              \/ /\ call'[c].at = "empty" /\ KeepsTask(c) /\ call'[c].until = call[c].until
<1> USE DEF Typed, TypeOK
<1>1. CASE Return(c) BY <1>1, ReturnEffect
<1>2. CASE Becomes(c, [call[c] EXCEPT !.at = "empty", !.seen = 0, !.moved = FALSE])
  <2>1. PICK zero \in Int : zero = 0 OBVIOUS
  <2>2. Becomes(c, [call[c] EXCEPT !.at = "empty", !.seen = zero, !.moved = FALSE])
    BY <1>2, <2>1
  <2>3. "empty" \in ClientAts BY DEF ClientAts
  <2> QED BY <2>2, <2>3, AtSeenMoved
<1> QED BY <1>1, <1>2 DEF WaitCompare

\* What StartCall makes of its client's call.
LEMMA StartCallEffect ==
    ASSUME TypeOK, NEW c \in Clients, StartCall(c)
    PROVE  /\ OnlyCall(c)
           /\ call'[c].at = "start" /\ KeepsTask(c)
BY GotoEffect, IdleFields, FieldTypes DEF StartCall, ClientAts, Typed, TypeOK, At

\* What StopCall makes of its client's call.
LEMMA StopCallEffect ==
    ASSUME TypeOK, NEW c \in Clients, StopCall(c)
    PROVE  /\ OnlyCall(c)
           /\ call'[c].at = "notify_all" /\ KeepsTask(c)
BY GotoEffect, IdleFields, FieldTypes DEF StopCall, ClientAts, Typed, TypeOK, At

\* What PauseCall makes of its client's call.
LEMMA PauseCallEffect ==
    ASSUME TypeOK, NEW c \in Clients, PauseCall(c)
    PROVE  /\ OnlyCall(c)
           /\ call'[c].at = "pause" /\ KeepsTask(c)
BY GotoEffect, IdleFields, FieldTypes DEF PauseCall, ClientAts, Typed, TypeOK, At

\* What ResumeCall makes of its client's call.
LEMMA ResumeCallEffect ==
    ASSUME TypeOK, NEW c \in Clients, ResumeCall(c)
    PROVE  /\ OnlyCall(c)
           /\ call'[c].at = "resume" /\ KeepsTask(c)
BY GotoEffect, IdleFields, FieldTypes DEF ResumeCall, ClientAts, Typed, TypeOK, At

\* What WaitCall makes of its client's call.
LEMMA WaitCallEffect ==
    ASSUME TypeOK, Jobs, NEW c \in Clients, WaitCall(c)
    PROVE  /\ OnlyCall(c)
           /\ call'[c].at = "empty" /\ KeepsTask(c) /\ call'[c].until = Committed
<1> USE DEF Typed, TypeOK
<1>1. Committed \in SUBSET Tasks
  <2>1. Queued \subseteq Tasks BY DEF Queued
  <2>2. Running \subseteq Tasks BY DEF Running, Jobs
  <2> QED BY <2>1, <2>2 DEF Committed
<1>2. "empty" \in ClientAts BY DEF ClientAts
<1> QED BY <1>1, <1>2, AtUntil DEF WaitCall

\* The thread that createThread starts was not in use.
LEMMA NewThreadMoves ==
    ASSUME TypeOK, NEW c \in Clients, CreateThread(c)
    PROVE  \A w \in Workers : pc'[w] = pc[w] \/ (pc[w] = "none" /\ pc'[w] = "loop")
<1>1. CASE UNCHANGED pc BY <1>1
<1>2. CASE FreeWorkers # {} /\ pc' = [pc EXCEPT ![NewWorker] = "loop"]
  <2>1. pc[NewWorker] = "none" /\ NewWorker \in Workers BY <1>2 DEF NewWorker, FreeWorkers
  <2> QED BY <1>2, <2>1 DEF TypeOK
<1> QED BY <1>1, <1>2 DEF CreateThread

\* CommitCall gives the client its task.
LEMMA CommitCallEffect ==
    ASSUME TypeOK, NEW c \in Clients, NEW t \in Tasks, CommitCall(c, t)
    PROVE  /\ OnlyCall(c)
           /\ call'[c].at \in {"start", "check"} /\ call'[c].task = t
<1>0. Typed BY DEF Typed, TypeOK
<1>1. PICK a \in {"start", "check"} : a = IF status = "STOP" THEN "start" ELSE "check"
  OBVIOUS
<1>2. Becomes(c, [call[c] EXCEPT !.task = t, !.at = a]) BY <1>1 DEF CommitCall
<1>3. a \in ClientAts BY DEF ClientAts
<1>4. OnlyCall(c) /\ call'[c].at = a /\ call'[c].task = t BY <1>0, <1>2, <1>3, AtTask
<1> QED BY <1>4

-----------------------------------------------------------------------------
(* The steps.                                                              *)

\* Types are kept by every step.
LEMMA TypeStep ==
    ASSUME TypeOK, CreateState, Jobs, [Next]_vars
    PROVE  TypeOK'
<1>0. Typed BY DEF TypeOK, Typed
<1> USE <1>0, NamesAssumption DEF TypeOK, WorkerPcs
<1>1. ASSUME NEW c \in Clients, StartTest(c) PROVE TypeOK'
  BY <1>1, StartTestEffect DEF StartTest, OnlyCall, Typed
<1>2. ASSUME NEW c \in Clients, StartRun(c) PROVE TypeOK'
  BY <1>2, StartRunEffect DEF StartRun, OnlyCall, Typed
<1>3. ASSUME NEW c \in Clients, CommitCheck(c) PROVE TypeOK'
  BY <1>3, CommitCheckEffect DEF CommitCheck, OnlyCall, Typed
<1>4. ASSUME NEW c \in Clients, CommitSize(c) PROVE TypeOK'
  BY <1>4, CommitSizeEffect DEF CommitSize, OnlyCall, Typed
<1>4a. ASSUME NEW c \in Clients, CommitRoom(c) PROVE TypeOK'
  BY <1>4a, CommitRoomEffect DEF CommitRoom, OnlyCall, Typed
<1>5. ASSUME NEW c \in Clients, CreateDone(c) PROVE TypeOK'
  BY <1>5, CreateDoneEffect DEF CreateDone, OnlyCall, Typed
<1>6. ASSUME NEW c \in Clients, CreateThread(c) PROVE TypeOK'
  <2>1. pc' \in [Workers -> WorkerPcs] BY <1>6 DEF CreateThread
  <2>2. UNCHANGED <<setup, status, counters, threads, job, queueVars, history>>
    BY <1>6 DEF CreateThread
  <2>3. Typed' BY <1>6, CreateThreadEffect DEF OnlyCall
  <2> QED BY <2>1, <2>2, <2>3 DEF Typed
<1>7. ASSUME NEW c \in Clients, AddThread1(c) PROVE TypeOK'
  <2>1. /\ cur_thread_num' = cur_thread_num + 1
        /\ UNCHANGED <<setup, status, idle_thread_num, workerVars, queueVars, history>>
    BY <1>7 DEF AddThread1
  <2>2. Typed' BY <1>7, AddThread1Effect
  <2> QED BY <2>1, <2>2 DEF Typed
<1>8. ASSUME NEW c \in Clients, AddThread2(c) PROVE TypeOK'
  <2>1. /\ idle_thread_num' = idle_thread_num + 1
        /\ threads' = [threads EXCEPT ![call[c].thread] = "RUNNING"]
        /\ UNCHANGED <<setup, status, cur_thread_num, pc, job, queueVars, history>>
    BY <1>8 DEF AddThread2
  <2>2. Typed' BY <1>8, AddThread2Effect DEF AddThread2, At, CreateState
  <2>3. threads' \in [Workers -> {None, "RUNNING", "STOP"}]
    <3>1. PICK v : v = call[c].thread OBVIOUS
    <3> QED BY <2>1, <3>1
  <2>4. idle_thread_num' \in Int BY <2>1
  <2>5. UNCHANGED <<setup, status, cur_thread_num, pc, job, tasks, task_mutex, done, eager>>
    BY <2>1
  <2> QED BY <2>2, <2>3, <2>4, <2>5 DEF Typed
<1>9. ASSUME NEW c \in Clients, CommitPush(c) PROVE TypeOK'
  <2>1. call[c].task \in Tasks BY <1>9, FieldTypes DEF CommitPush, At, CreateState
  <2>2. /\ tasks' = Append(tasks, call[c].task)
        /\ UNCHANGED <<setup, status, counters, workerVars, task_mutex, history>>
    BY <1>9 DEF CommitPush
  <2>3. Typed' BY <1>9, CommitPushEffect DEF OnlyCall
  <2> QED BY <2>1, <2>2, <2>3 DEF Typed
<1>10. ASSUME NEW c \in Clients, CommitNotify(c) PROVE TypeOK'
  BY <1>10, CommitNotifyEffect DEF CommitNotify, OnlyCall, Typed
<1>11. ASSUME NEW c \in Clients, StopNotify(c) PROVE TypeOK'
  BY <1>11, StopNotifyEffect DEF StopNotify, OnlyCall, Typed
<1>12. ASSUME NEW c \in Clients, StopJoin(c) PROVE TypeOK'
  BY <1>12, StopJoinEffect DEF StopJoin, OnlyCall, Typed
<1>13. ASSUME NEW c \in Clients, PauseSet(c) PROVE TypeOK'
  BY <1>13, PauseSetEffect DEF PauseSet, OnlyCall, Typed
<1>14. ASSUME NEW c \in Clients, ResumeSet(c) PROVE TypeOK'
  BY <1>14, ResumeSetEffect DEF ResumeSet, OnlyCall, Typed
<1>15. ASSUME NEW c \in Clients, WaitStopped(c) PROVE TypeOK'
  BY <1>15, WaitStoppedEffect DEF WaitStopped, OnlyCall, Typed
<1>16. ASSUME NEW c \in Clients, WaitEmpty(c) PROVE TypeOK'
  BY <1>16, WaitEmptyEffect DEF WaitEmpty, OnlyCall, Typed
<1>17. ASSUME NEW c \in Clients, WaitRead(c) PROVE TypeOK'
  BY <1>17, WaitReadEffect DEF WaitRead, OnlyCall, Typed
<1>18. ASSUME NEW c \in Clients, WaitCompare(c) PROVE TypeOK'
  BY <1>18, WaitCompareEffect DEF WaitCompare, OnlyCall, Typed
<1>19. ASSUME NEW c \in Clients, StartCall(c) PROVE TypeOK'
  BY <1>19, StartCallEffect DEF StartCall, OnlyCall, Typed
<1>20. ASSUME NEW c \in Clients, StopCall(c) PROVE TypeOK'
  BY <1>20, StopCallEffect DEF StopCall, OnlyCall, Typed
<1>21. ASSUME NEW c \in Clients, PauseCall(c) PROVE TypeOK'
  BY <1>21, PauseCallEffect DEF PauseCall, OnlyCall, Typed
<1>22. ASSUME NEW c \in Clients, ResumeCall(c) PROVE TypeOK'
  BY <1>22, ResumeCallEffect DEF ResumeCall, OnlyCall, Typed
<1>23. ASSUME NEW c \in Clients, WaitCall(c) PROVE TypeOK'
  BY <1>23, WaitCallEffect DEF WaitCall, OnlyCall, Typed
<1>24. ASSUME NEW c \in Clients, NEW t \in Tasks, CommitCall(c, t) PROVE TypeOK'
  BY <1>24, CommitCallEffect DEF CommitCall, OnlyCall, Typed
<1>25. ASSUME NEW w \in Workers, Loop(w) PROVE TypeOK'
  BY <1>25 DEF Loop, Move
<1>26. ASSUME NEW w \in Workers, Gate(w) PROVE TypeOK'
  BY <1>26 DEF Gate, Move
<1>27. ASSUME NEW w \in Workers, Block(w) PROVE TypeOK'
  BY <1>27 DEF Block, Move
<1>28. ASSUME NEW w \in Workers, Wait(w) PROVE TypeOK'
  BY <1>28 DEF Wait, Move
<1>29. ASSUME NEW w \in Workers, Exit(w) PROVE TypeOK'
  BY <1>29 DEF Exit, Move
<1>30. ASSUME NEW w \in Workers, Take(w) PROVE TypeOK'
  BY <1>30 DEF Take, StartTask, Returned, Move
<1>31. ASSUME NEW w \in Workers, Expire(w) PROVE TypeOK'
  BY <1>31 DEF Expire, Decide, Returned, Move
<1>32. ASSUME NEW w \in Workers, Timeout(w) PROVE TypeOK'
  BY <1>32 DEF Timeout, Move
<1>33. ASSUME NEW w \in Workers, DelThread1(w) PROVE TypeOK'
  BY <1>33, DelThreadEffect DEF DelThread1, Move, Typed
<1>34. ASSUME NEW w \in Workers, DelThread2(w) PROVE TypeOK'
  BY <1>34, DelThreadEffect DEF DelThread2, LeaveList, Typed
<1>35. ASSUME NEW w \in Workers, RunTask(w) PROVE TypeOK'
  BY <1>35 DEF RunTask, Move, Jobs
<1>36. ASSUME NEW w \in Workers, BackToIdle(w) PROVE TypeOK'
  BY <1>36 DEF BackToIdle, Move
<1>37. CASE UNCHANGED vars
  BY <1>37 DEF vars
<1> QED
  BY <1>1, <1>2, <1>3, <1>4, <1>4a, <1>5, <1>6, <1>7, <1>8, <1>9, <1>10, <1>11, <1>12,
     <1>13, <1>14, <1>15, <1>16, <1>17, <1>18, <1>19, <1>20, <1>21, <1>22, <1>23, <1>24,
     <1>25, <1>26, <1>27, <1>28, <1>29, <1>30, <1>31, <1>32, <1>33, <1>34, <1>35, <1>36,
     <1>37
     DEF Next, Proceed, Begin, Thread

\* What a client in createThread knows stays true.
LEMMA CreateStep ==
    ASSUME TypeOK, CreateState, Jobs, [Next]_vars
    PROVE  CreateState'
<1>0. Typed BY DEF TypeOK, Typed
<1> USE <1>0, IdleFields DEF CreateState, KeepsTask, KeepsAdding
<1>1. ASSUME NEW c \in Clients, StartTest(c) PROVE CreateState'
  BY <1>1, StartTestEffect DEF StartTest, OnlyCall, At
<1>2. ASSUME NEW c \in Clients, StartRun(c) PROVE CreateState'
  BY <1>2, StartRunEffect DEF StartRun, OnlyCall, At
<1>3. ASSUME NEW c \in Clients, CommitCheck(c) PROVE CreateState'
  BY <1>3, CommitCheckEffect DEF CommitCheck, OnlyCall, At
<1>4. ASSUME NEW c \in Clients, CommitSize(c) PROVE CreateState'
  BY <1>4, CommitSizeEffect DEF CommitSize, OnlyCall, At
<1>4a. ASSUME NEW c \in Clients, CommitRoom(c) PROVE CreateState'
  BY <1>4a, CommitRoomEffect DEF CommitRoom, OnlyCall, At
<1>5. ASSUME NEW c \in Clients, CreateDone(c) PROVE CreateState'
  BY <1>5, CreateDoneEffect DEF CreateDone, OnlyCall, At
<1>6. ASSUME NEW c \in Clients, CreateThread(c) PROVE CreateState'
  <2>1. call[c].at = "create" /\ call[c].left > 0 BY <1>6 DEF CreateThread, At
  <2>2. /\ OnlyCall(c) /\ call'[c].task = call[c].task /\ call'[c].back = call[c].back
        /\ \/ call'[c].at = "create"
           \/ /\ call'[c].at = "add1" /\ call'[c].thread \in Workers
              /\ call'[c].left = call[c].left
    BY <1>6, CreateThreadEffect
  <2> QED BY <2>1, <2>2 DEF OnlyCall
<1>7. ASSUME NEW c \in Clients, AddThread1(c) PROVE CreateState'
  <2>1. call[c].at = "add1" BY <1>7 DEF AddThread1, At
  <2>2. /\ call'[c].at = "add2" /\ call'[c].task = call[c].task
        /\ call'[c].left = call[c].left /\ call'[c].back = call[c].back
        /\ call'[c].thread = call[c].thread
        /\ \A d \in Clients \ {c} : OnlyMoved(call[d], call'[d])
    BY <1>7, AddThread1Effect
  <2> QED BY <2>1, <2>2 DEF OnlyMoved
<1>8. ASSUME NEW c \in Clients, AddThread2(c) PROVE CreateState'
  <2>1. call[c].at = "add2" BY <1>8 DEF AddThread2, At
  <2>2. call[c].left > 0 BY <2>1
  <2>3. /\ call'[c].at = "create" /\ call'[c].task = call[c].task
        /\ call'[c].back = call[c].back
        /\ \A d \in Clients \ {c} : OnlyMoved(call[d], call'[d])
    BY <1>8, <2>2, AddThread2Effect
  <2> QED BY <2>1, <2>3 DEF OnlyMoved
<1>9. ASSUME NEW c \in Clients, CommitPush(c) PROVE CreateState'
  BY <1>9, CommitPushEffect DEF CommitPush, OnlyCall, At
<1>10. ASSUME NEW c \in Clients, CommitNotify(c) PROVE CreateState'
  BY <1>10, CommitNotifyEffect DEF CommitNotify, OnlyCall, At
<1>11. ASSUME NEW c \in Clients, StopNotify(c) PROVE CreateState'
  BY <1>11, StopNotifyEffect DEF StopNotify, OnlyCall, At
<1>12. ASSUME NEW c \in Clients, StopJoin(c) PROVE CreateState'
  BY <1>12, StopJoinEffect DEF StopJoin, OnlyCall, At
<1>13. ASSUME NEW c \in Clients, PauseSet(c) PROVE CreateState'
  BY <1>13, PauseSetEffect DEF PauseSet, OnlyCall, At
<1>14. ASSUME NEW c \in Clients, ResumeSet(c) PROVE CreateState'
  BY <1>14, ResumeSetEffect DEF ResumeSet, OnlyCall, At
<1>15. ASSUME NEW c \in Clients, WaitStopped(c) PROVE CreateState'
  BY <1>15, WaitStoppedEffect DEF WaitStopped, OnlyCall, At
<1>16. ASSUME NEW c \in Clients, WaitEmpty(c) PROVE CreateState'
  BY <1>16, WaitEmptyEffect DEF WaitEmpty, OnlyCall, At
<1>17. ASSUME NEW c \in Clients, WaitRead(c) PROVE CreateState'
  BY <1>17, WaitReadEffect DEF WaitRead, OnlyCall, At
<1>18. ASSUME NEW c \in Clients, WaitCompare(c) PROVE CreateState'
  BY <1>18, WaitCompareEffect DEF WaitCompare, OnlyCall, At
<1>19. ASSUME NEW c \in Clients, StartCall(c) PROVE CreateState'
  BY <1>19, StartCallEffect DEF StartCall, OnlyCall, At
<1>20. ASSUME NEW c \in Clients, StopCall(c) PROVE CreateState'
  BY <1>20, StopCallEffect DEF StopCall, OnlyCall, At
<1>21. ASSUME NEW c \in Clients, PauseCall(c) PROVE CreateState'
  BY <1>21, PauseCallEffect DEF PauseCall, OnlyCall, At
<1>22. ASSUME NEW c \in Clients, ResumeCall(c) PROVE CreateState'
  BY <1>22, ResumeCallEffect DEF ResumeCall, OnlyCall, At
<1>23. ASSUME NEW c \in Clients, WaitCall(c) PROVE CreateState'
  BY <1>23, WaitCallEffect DEF WaitCall, OnlyCall, At
<1>24. ASSUME NEW c \in Clients, NEW t \in Tasks, CommitCall(c, t) PROVE CreateState'
  <2>1. t # None BY NamesAssumption DEF None
  <2>2. OnlyCall(c) /\ call'[c].at \in {"start", "check"} /\ call'[c].task = t
    BY <1>24, CommitCallEffect
  <2> QED BY <2>1, <2>2 DEF OnlyCall
<1>25. ASSUME NEW w \in Workers, Loop(w) PROVE CreateState'
  BY <1>25 DEF Loop, Move
<1>26. ASSUME NEW w \in Workers, Gate(w) PROVE CreateState'
  BY <1>26 DEF Gate, Move
<1>27. ASSUME NEW w \in Workers, Block(w) PROVE CreateState'
  BY <1>27 DEF Block, Move
<1>28. ASSUME NEW w \in Workers, Wait(w) PROVE CreateState'
  BY <1>28 DEF Wait, Move
<1>29. ASSUME NEW w \in Workers, Exit(w) PROVE CreateState'
  BY <1>29 DEF Exit, Move
<1>30. ASSUME NEW w \in Workers, Take(w) PROVE CreateState'
  BY <1>30 DEF Take, StartTask, Returned, Move
<1>31. ASSUME NEW w \in Workers, Expire(w) PROVE CreateState'
  BY <1>31 DEF Expire, Decide, Returned, Move
<1>32. ASSUME NEW w \in Workers, Timeout(w) PROVE CreateState'
  BY <1>32 DEF Timeout, Move
<1>33. ASSUME NEW w \in Workers, DelThread1(w) PROVE CreateState'
  BY <1>33, DelThreadEffect DEF DelThread1, Move, OnlyMoved
<1>34. ASSUME NEW w \in Workers, DelThread2(w) PROVE CreateState'
  BY <1>34, DelThreadEffect DEF DelThread2, LeaveList, OnlyMoved
<1>35. ASSUME NEW w \in Workers, RunTask(w) PROVE CreateState'
  BY <1>35 DEF RunTask, Move
<1>36. ASSUME NEW w \in Workers, BackToIdle(w) PROVE CreateState'
  BY <1>36 DEF BackToIdle, Move
<1>37. CASE UNCHANGED vars
  BY <1>37 DEF vars
<1> QED
  BY <1>1, <1>2, <1>3, <1>4, <1>4a, <1>5, <1>6, <1>7, <1>8, <1>9, <1>10, <1>11, <1>12,
     <1>13, <1>14, <1>15, <1>16, <1>17, <1>18, <1>19, <1>20, <1>21, <1>22, <1>23, <1>24,
     <1>25, <1>26, <1>27, <1>28, <1>29, <1>30, <1>31, <1>32, <1>33, <1>34, <1>35, <1>36,
     <1>37
     DEF Next, Proceed, Begin, Thread

\* A thread that starts to run has a task.
LEMMA JobStep ==
    ASSUME TypeOK, CreateState, Jobs, [Next]_vars
    PROVE  Jobs'
<1> USE DEF Jobs
<1>1. ASSUME NEW c \in Clients, StartTest(c) PROVE Jobs'
  BY <1>1, StartTestEffect DEF StartTest
<1>2. ASSUME NEW c \in Clients, StartRun(c) PROVE Jobs'
  BY <1>2, StartRunEffect DEF StartRun
<1>3. ASSUME NEW c \in Clients, CommitCheck(c) PROVE Jobs'
  BY <1>3, CommitCheckEffect DEF CommitCheck
<1>4. ASSUME NEW c \in Clients, CommitSize(c) PROVE Jobs'
  BY <1>4, CommitSizeEffect DEF CommitSize
<1>4a. ASSUME NEW c \in Clients, CommitRoom(c) PROVE Jobs'
  BY <1>4a, CommitRoomEffect DEF CommitRoom
<1>5. ASSUME NEW c \in Clients, CreateDone(c) PROVE Jobs'
  BY <1>5, CreateDoneEffect DEF CreateDone
<1>6. ASSUME NEW c \in Clients, CreateThread(c) PROVE Jobs'
  BY <1>6, CreateThreadEffect DEF CreateThread, TypeOK
<1>7. ASSUME NEW c \in Clients, AddThread1(c) PROVE Jobs'
  BY <1>7, AddThread1Effect DEF AddThread1
<1>8. ASSUME NEW c \in Clients, AddThread2(c) PROVE Jobs'
  BY <1>8, AddThread2Effect DEF AddThread2
<1>9. ASSUME NEW c \in Clients, CommitPush(c) PROVE Jobs'
  BY <1>9, CommitPushEffect DEF CommitPush
<1>10. ASSUME NEW c \in Clients, CommitNotify(c) PROVE Jobs'
  BY <1>10, CommitNotifyEffect DEF CommitNotify, TypeOK
<1>11. ASSUME NEW c \in Clients, StopNotify(c) PROVE Jobs'
  BY <1>11, StopNotifyEffect DEF StopNotify, TypeOK
<1>12. ASSUME NEW c \in Clients, StopJoin(c) PROVE Jobs'
  BY <1>12, StopJoinEffect DEF StopJoin, TypeOK
<1>13. ASSUME NEW c \in Clients, PauseSet(c) PROVE Jobs'
  BY <1>13, PauseSetEffect DEF PauseSet
<1>14. ASSUME NEW c \in Clients, ResumeSet(c) PROVE Jobs'
  BY <1>14, ResumeSetEffect DEF ResumeSet
<1>15. ASSUME NEW c \in Clients, WaitStopped(c) PROVE Jobs'
  BY <1>15, WaitStoppedEffect DEF WaitStopped
<1>16. ASSUME NEW c \in Clients, WaitEmpty(c) PROVE Jobs'
  BY <1>16, WaitEmptyEffect DEF WaitEmpty
<1>17. ASSUME NEW c \in Clients, WaitRead(c) PROVE Jobs'
  BY <1>17, WaitReadEffect DEF WaitRead
<1>18. ASSUME NEW c \in Clients, WaitCompare(c) PROVE Jobs'
  BY <1>18, WaitCompareEffect DEF WaitCompare
<1>19. ASSUME NEW c \in Clients, StartCall(c) PROVE Jobs'
  BY <1>19, StartCallEffect DEF StartCall
<1>20. ASSUME NEW c \in Clients, StopCall(c) PROVE Jobs'
  BY <1>20, StopCallEffect DEF StopCall
<1>21. ASSUME NEW c \in Clients, PauseCall(c) PROVE Jobs'
  BY <1>21, PauseCallEffect DEF PauseCall
<1>22. ASSUME NEW c \in Clients, ResumeCall(c) PROVE Jobs'
  BY <1>22, ResumeCallEffect DEF ResumeCall
<1>23. ASSUME NEW c \in Clients, WaitCall(c) PROVE Jobs'
  BY <1>23, WaitCallEffect DEF WaitCall
<1>24. ASSUME NEW c \in Clients, NEW t \in Tasks, CommitCall(c, t) PROVE Jobs'
  BY <1>24, CommitCallEffect DEF CommitCall
<1>25. ASSUME NEW w \in Workers, Loop(w) PROVE Jobs'
  BY <1>25 DEF Loop, Move, TypeOK
<1>26. ASSUME NEW w \in Workers, Gate(w) PROVE Jobs'
  BY <1>26 DEF Gate, Move, TypeOK
<1>27. ASSUME NEW w \in Workers, Block(w) PROVE Jobs'
  BY <1>27 DEF Block, Move, TypeOK
<1>28. ASSUME NEW w \in Workers, Wait(w) PROVE Jobs'
  BY <1>28 DEF Wait, Move, TypeOK
<1>29. ASSUME NEW w \in Workers, Exit(w) PROVE Jobs'
  BY <1>29 DEF Exit, Move, TypeOK
<1>30. ASSUME NEW w \in Workers, Take(w) PROVE Jobs'
  BY <1>30 DEF Take, StartTask, Returned, Move, TypeOK
<1>31. ASSUME NEW w \in Workers, Expire(w) PROVE Jobs'
  BY <1>31 DEF Expire, Decide, Returned, Move, TypeOK
<1>32. ASSUME NEW w \in Workers, Timeout(w) PROVE Jobs'
  BY <1>32 DEF Timeout, Move, TypeOK
<1>33. ASSUME NEW w \in Workers, DelThread1(w) PROVE Jobs'
  BY <1>33, DelThreadEffect DEF DelThread1, Move, TypeOK
<1>34. ASSUME NEW w \in Workers, DelThread2(w) PROVE Jobs'
  BY <1>34, DelThreadEffect DEF DelThread2, LeaveList, TypeOK
<1>35. ASSUME NEW w \in Workers, RunTask(w) PROVE Jobs'
  BY <1>35 DEF RunTask, Move, TypeOK
<1>36. ASSUME NEW w \in Workers, BackToIdle(w) PROVE Jobs'
  BY <1>36 DEF BackToIdle, Move, TypeOK
<1>37. CASE UNCHANGED vars
  BY <1>37 DEF vars
<1> QED
  BY <1>1, <1>2, <1>3, <1>4, <1>4a, <1>5, <1>6, <1>7, <1>8, <1>9, <1>10, <1>11, <1>12,
     <1>13, <1>14, <1>15, <1>16, <1>17, <1>18, <1>19, <1>20, <1>21, <1>22, <1>23, <1>24,
     <1>25, <1>26, <1>27, <1>28, <1>29, <1>30, <1>31, <1>32, <1>33, <1>34, <1>35, <1>36,
     <1>37
     DEF Next, Proceed, Begin, Thread

\* A step that brings no client into stop() or into a call that adds threads.
LEMMA StopAloneKept ==
    ASSUME StopAlone, NEW c \in Clients,
           \A d \in Clients \ {c} : call'[d].at = call[d].at,
           call'[c].at \in Structural => call[c].at \in Structural,
           call'[c].at \in Stops => call[c].at \in Stops
    PROVE  StopAlone'
BY DEF StopAlone

\* A client enters stop() only when no other adds threads, and the other way round.
LEMMA StopAloneStep ==
    ASSUME TypeOK, CreateState, Jobs, StopAlone, [Next]_vars
    PROVE  StopAlone'
<1>0. Typed BY DEF TypeOK, Typed
<1> USE <1>0, IdleFields
<1>1. ASSUME NEW c \in Clients, StartTest(c) PROVE StopAlone'
  BY <1>1, StartTestEffect, StopAloneKept DEF StartTest, OnlyCall, At, Structural, Stops
<1>2. ASSUME NEW c \in Clients, StartRun(c) PROVE StopAlone'
  BY <1>2, StartRunEffect, StopAloneKept DEF StartRun, OnlyCall, At, Structural, Stops
<1>3. ASSUME NEW c \in Clients, CommitCheck(c) PROVE StopAlone'
  BY <1>3, CommitCheckEffect, StopAloneKept
     DEF CommitCheck, OnlyCall, At, Structural, Stops
<1>4. ASSUME NEW c \in Clients, CommitSize(c) PROVE StopAlone'
  BY <1>4, CommitSizeEffect, StopAloneKept DEF CommitSize, OnlyCall, At, Structural, Stops
<1>4a. ASSUME NEW c \in Clients, CommitRoom(c) PROVE StopAlone'
  BY <1>4a, CommitRoomEffect, StopAloneKept DEF CommitRoom, OnlyCall, At, Structural, Stops
<1>5. ASSUME NEW c \in Clients, CreateDone(c) PROVE StopAlone'
  BY <1>5, CreateDoneEffect, StopAloneKept DEF CreateDone, OnlyCall, At, Structural, Stops
<1>6. ASSUME NEW c \in Clients, CreateThread(c) PROVE StopAlone'
  <2>1. call[c].at = "create" BY <1>6 DEF CreateThread, At
  <2>2. OnlyCall(c) /\ call'[c].at \in {"create", "add1"} BY <1>6, CreateThreadEffect
  <2> QED BY <2>1, <2>2, StopAloneKept DEF OnlyCall, Structural, Stops
<1>7. ASSUME NEW c \in Clients, AddThread1(c) PROVE StopAlone'
  <2>1. call[c].at = "add1" BY <1>7 DEF AddThread1, At
  <2>2. call'[c].at = "add2" /\ \A d \in Clients \ {c} : call'[d].at = call[d].at
    BY <1>7, AddThread1Effect DEF OnlyMoved
  <2> QED BY <2>1, <2>2, StopAloneKept DEF Structural, Stops
<1>8. ASSUME NEW c \in Clients, AddThread2(c) PROVE StopAlone'
  <2>1. call[c].at = "add2" /\ call[c].left > 0 BY <1>8 DEF AddThread2, At, CreateState
  <2>2. call'[c].at = "create" /\ \A d \in Clients \ {c} : call'[d].at = call[d].at
    BY <1>8, <2>1, AddThread2Effect DEF OnlyMoved
  <2> QED BY <2>1, <2>2, StopAloneKept DEF Structural, Stops
<1>9. ASSUME NEW c \in Clients, CommitPush(c) PROVE StopAlone'
  BY <1>9, CommitPushEffect, StopAloneKept DEF CommitPush, OnlyCall, At, Structural, Stops
<1>10. ASSUME NEW c \in Clients, CommitNotify(c) PROVE StopAlone'
  BY <1>10, CommitNotifyEffect, StopAloneKept
     DEF CommitNotify, OnlyCall, At, Structural, Stops
<1>11. ASSUME NEW c \in Clients, StopNotify(c) PROVE StopAlone'
  BY <1>11, StopNotifyEffect, StopAloneKept
     DEF StopNotify, OnlyCall, At, Structural, Stops
<1>12. ASSUME NEW c \in Clients, StopJoin(c) PROVE StopAlone'
  BY <1>12, StopJoinEffect, StopAloneKept DEF StopJoin, OnlyCall, At, Structural, Stops
<1>13. ASSUME NEW c \in Clients, PauseSet(c) PROVE StopAlone'
  BY <1>13, PauseSetEffect, StopAloneKept DEF PauseSet, OnlyCall, At, Structural, Stops
<1>14. ASSUME NEW c \in Clients, ResumeSet(c) PROVE StopAlone'
  BY <1>14, ResumeSetEffect, StopAloneKept DEF ResumeSet, OnlyCall, At, Structural, Stops
<1>15. ASSUME NEW c \in Clients, WaitStopped(c) PROVE StopAlone'
  BY <1>15, WaitStoppedEffect, StopAloneKept
     DEF WaitStopped, OnlyCall, At, Structural, Stops
<1>16. ASSUME NEW c \in Clients, WaitEmpty(c) PROVE StopAlone'
  BY <1>16, WaitEmptyEffect, StopAloneKept DEF WaitEmpty, OnlyCall, At, Structural, Stops
<1>17. ASSUME NEW c \in Clients, WaitRead(c) PROVE StopAlone'
  BY <1>17, WaitReadEffect, StopAloneKept DEF WaitRead, OnlyCall, At, Structural, Stops
<1>18. ASSUME NEW c \in Clients, WaitCompare(c) PROVE StopAlone'
  BY <1>18, WaitCompareEffect, StopAloneKept
     DEF WaitCompare, OnlyCall, At, Structural, Stops
<1>19. ASSUME NEW c \in Clients, StartCall(c) PROVE StopAlone'
  <2>1. ~Stopping BY <1>19 DEF StartCall
  <2>2. OnlyCall(c) /\ call'[c].at = "start" BY <1>19, StartCallEffect
  <2> QED BY <2>1, <2>2 DEF Stopping, StopAlone, OnlyCall, Stops
<1>20. ASSUME NEW c \in Clients, StopCall(c) PROVE StopAlone'
  <2>1. \A d \in Clients : call[d].at \notin Structural BY <1>20 DEF StopCall
  <2>2. OnlyCall(c) /\ call'[c].at = "notify_all" BY <1>20, StopCallEffect
  <2> QED BY <2>1, <2>2 DEF StopAlone, OnlyCall, Stops, Structural
<1>21. ASSUME NEW c \in Clients, PauseCall(c) PROVE StopAlone'
  BY <1>21, PauseCallEffect, StopAloneKept DEF PauseCall, OnlyCall, At, Structural, Stops
<1>22. ASSUME NEW c \in Clients, ResumeCall(c) PROVE StopAlone'
  BY <1>22, ResumeCallEffect, StopAloneKept
     DEF ResumeCall, OnlyCall, At, Structural, Stops
<1>23. ASSUME NEW c \in Clients, WaitCall(c) PROVE StopAlone'
  BY <1>23, WaitCallEffect, StopAloneKept DEF WaitCall, OnlyCall, At, Structural, Stops
<1>24. ASSUME NEW c \in Clients, NEW t \in Tasks, CommitCall(c, t) PROVE StopAlone'
  <2>1. ~Stopping BY <1>24 DEF CommitCall
  <2>2. OnlyCall(c) /\ call'[c].at \in {"start", "check"} BY <1>24, CommitCallEffect
  <2> QED BY <2>1, <2>2 DEF Stopping, StopAlone, OnlyCall, Stops
<1>25. ASSUME NEW w \in Workers, Loop(w) PROVE StopAlone'
  BY <1>25 DEF Loop, Move, StopAlone
<1>26. ASSUME NEW w \in Workers, Gate(w) PROVE StopAlone'
  BY <1>26 DEF Gate, Move, StopAlone
<1>27. ASSUME NEW w \in Workers, Block(w) PROVE StopAlone'
  BY <1>27 DEF Block, Move, StopAlone
<1>28. ASSUME NEW w \in Workers, Wait(w) PROVE StopAlone'
  BY <1>28 DEF Wait, Move, StopAlone
<1>29. ASSUME NEW w \in Workers, Exit(w) PROVE StopAlone'
  BY <1>29 DEF Exit, Move, StopAlone
<1>30. ASSUME NEW w \in Workers, Take(w) PROVE StopAlone'
  BY <1>30 DEF Take, StartTask, Returned, Move, StopAlone
<1>31. ASSUME NEW w \in Workers, Expire(w) PROVE StopAlone'
  BY <1>31 DEF Expire, Decide, Returned, Move, StopAlone
<1>32. ASSUME NEW w \in Workers, Timeout(w) PROVE StopAlone'
  BY <1>32 DEF Timeout, Move, StopAlone
<1>33. ASSUME NEW w \in Workers, DelThread1(w) PROVE StopAlone'
  BY <1>33, DelThreadEffect DEF DelThread1, Move, OnlyMoved, StopAlone
<1>34. ASSUME NEW w \in Workers, DelThread2(w) PROVE StopAlone'
  BY <1>34, DelThreadEffect DEF DelThread2, LeaveList, OnlyMoved, StopAlone
<1>35. ASSUME NEW w \in Workers, RunTask(w) PROVE StopAlone'
  BY <1>35 DEF RunTask, Move, StopAlone
<1>36. ASSUME NEW w \in Workers, BackToIdle(w) PROVE StopAlone'
  BY <1>36 DEF BackToIdle, Move, StopAlone
<1>37. CASE UNCHANGED vars
  BY <1>37 DEF vars, StopAlone
<1> QED
  BY <1>1, <1>2, <1>3, <1>4, <1>4a, <1>5, <1>6, <1>7, <1>8, <1>9, <1>10, <1>11, <1>12,
     <1>13, <1>14, <1>15, <1>16, <1>17, <1>18, <1>19, <1>20, <1>21, <1>22, <1>23, <1>24,
     <1>25, <1>26, <1>27, <1>28, <1>29, <1>30, <1>31, <1>32, <1>33, <1>34, <1>35, <1>36,
     <1>37
     DEF Next, Proceed, Begin, Thread

\* A step that begins no addition and no removal.
LEMMA OneAtATimeKept ==
    ASSUME OneAtATime, \A d \in Clients : call'[d].at = "add2" => call[d].at = "add2",
           \A w \in Workers : pc'[w] = "del2" => pc[w] = "del2"
    PROVE  OneAtATime'
<1>1. Adding' \subseteq Adding /\ Removing' \subseteq Removing BY DEF Adding, Removing
<1> QED BY <1>1 DEF OneAtATime

\* Whoever begins to add or to remove a thread has thread_mutex to itself.
LEMMA OneAtATimeStep ==
    ASSUME TypeOK, CreateState, Jobs, OneAtATime, [Next]_vars
    PROVE  OneAtATime'
<1>0. Typed BY DEF TypeOK, Typed
<1> USE <1>0, IdleFields
<1>1. ASSUME NEW c \in Clients, StartTest(c) PROVE OneAtATime'
  BY <1>1, StartTestEffect, OneAtATimeKept DEF StartTest, OnlyCall, At
<1>2. ASSUME NEW c \in Clients, StartRun(c) PROVE OneAtATime'
  BY <1>2, StartRunEffect, OneAtATimeKept DEF StartRun, OnlyCall, At
<1>3. ASSUME NEW c \in Clients, CommitCheck(c) PROVE OneAtATime'
  BY <1>3, CommitCheckEffect, OneAtATimeKept DEF CommitCheck, OnlyCall, At
<1>4. ASSUME NEW c \in Clients, CommitSize(c) PROVE OneAtATime'
  BY <1>4, CommitSizeEffect, OneAtATimeKept DEF CommitSize, OnlyCall, At
<1>4a. ASSUME NEW c \in Clients, CommitRoom(c) PROVE OneAtATime'
  BY <1>4a, CommitRoomEffect, OneAtATimeKept DEF CommitRoom, OnlyCall, At
<1>5. ASSUME NEW c \in Clients, CreateDone(c) PROVE OneAtATime'
  BY <1>5, CreateDoneEffect, OneAtATimeKept DEF CreateDone, OnlyCall, At
<1>6. ASSUME NEW c \in Clients, CreateThread(c) PROVE OneAtATime'
  <2>1. OnlyCall(c) /\ call'[c].at \in {"create", "add1"} BY <1>6, CreateThreadEffect
  <2>2. \A w \in Workers : pc'[w] = "del2" => pc[w] = "del2"
    BY <1>6 DEF CreateThread, TypeOK
  <2> QED BY <2>1, <2>2, OneAtATimeKept DEF OnlyCall
<1>7. ASSUME NEW c \in Clients, AddThread1(c) PROVE OneAtATime'
  <2>1. Adding = {} /\ Removing = {} BY <1>7 DEF AddThread1, ThreadMutexFree
  <2>2. UNCHANGED pc BY <1>7 DEF AddThread1
  <2>3. \A d \in Clients \ {c} : call'[d].at = call[d].at
    BY <1>7, AddThread1Effect DEF OnlyMoved
  <2>4. Adding' \subseteq {c} /\ Removing' = {} BY <2>1, <2>2, <2>3 DEF Adding, Removing
  <2> QED BY <2>4 DEF OneAtATime
<1>8. ASSUME NEW c \in Clients, AddThread2(c) PROVE OneAtATime'
  <2>1. call[c].at = "add2" /\ call[c].left > 0 BY <1>8 DEF AddThread2, At, CreateState
  <2>2. call'[c].at = "create" /\ \A d \in Clients \ {c} : call'[d].at = call[d].at
    BY <1>8, <2>1, AddThread2Effect DEF OnlyMoved
  <2>3. UNCHANGED pc BY <1>8 DEF AddThread2
  <2> QED BY <2>2, <2>3, OneAtATimeKept
<1>9. ASSUME NEW c \in Clients, CommitPush(c) PROVE OneAtATime'
  BY <1>9, CommitPushEffect, OneAtATimeKept DEF CommitPush, OnlyCall, At
<1>10. ASSUME NEW c \in Clients, CommitNotify(c) PROVE OneAtATime'
  BY <1>10, CommitNotifyEffect, OneAtATimeKept DEF CommitNotify, OnlyCall, At, TypeOK
<1>11. ASSUME NEW c \in Clients, StopNotify(c) PROVE OneAtATime'
  BY <1>11, StopNotifyEffect, OneAtATimeKept DEF StopNotify, OnlyCall, At, TypeOK
<1>12. ASSUME NEW c \in Clients, StopJoin(c) PROVE OneAtATime'
  BY <1>12, StopJoinEffect, OneAtATimeKept DEF StopJoin, OnlyCall, At, TypeOK
<1>13. ASSUME NEW c \in Clients, PauseSet(c) PROVE OneAtATime'
  BY <1>13, PauseSetEffect, OneAtATimeKept DEF PauseSet, OnlyCall, At
<1>14. ASSUME NEW c \in Clients, ResumeSet(c) PROVE OneAtATime'
  BY <1>14, ResumeSetEffect, OneAtATimeKept DEF ResumeSet, OnlyCall, At
<1>15. ASSUME NEW c \in Clients, WaitStopped(c) PROVE OneAtATime'
  BY <1>15, WaitStoppedEffect, OneAtATimeKept DEF WaitStopped, OnlyCall, At
<1>16. ASSUME NEW c \in Clients, WaitEmpty(c) PROVE OneAtATime'
  BY <1>16, WaitEmptyEffect, OneAtATimeKept DEF WaitEmpty, OnlyCall, At
<1>17. ASSUME NEW c \in Clients, WaitRead(c) PROVE OneAtATime'
  BY <1>17, WaitReadEffect, OneAtATimeKept DEF WaitRead, OnlyCall, At
<1>18. ASSUME NEW c \in Clients, WaitCompare(c) PROVE OneAtATime'
  BY <1>18, WaitCompareEffect, OneAtATimeKept DEF WaitCompare, OnlyCall, At
<1>19. ASSUME NEW c \in Clients, StartCall(c) PROVE OneAtATime'
  BY <1>19, StartCallEffect, OneAtATimeKept DEF StartCall, OnlyCall, At
<1>20. ASSUME NEW c \in Clients, StopCall(c) PROVE OneAtATime'
  BY <1>20, StopCallEffect, OneAtATimeKept DEF StopCall, OnlyCall, At
<1>21. ASSUME NEW c \in Clients, PauseCall(c) PROVE OneAtATime'
  BY <1>21, PauseCallEffect, OneAtATimeKept DEF PauseCall, OnlyCall, At
<1>22. ASSUME NEW c \in Clients, ResumeCall(c) PROVE OneAtATime'
  BY <1>22, ResumeCallEffect, OneAtATimeKept DEF ResumeCall, OnlyCall, At
<1>23. ASSUME NEW c \in Clients, WaitCall(c) PROVE OneAtATime'
  BY <1>23, WaitCallEffect, OneAtATimeKept DEF WaitCall, OnlyCall, At
<1>24. ASSUME NEW c \in Clients, NEW t \in Tasks, CommitCall(c, t) PROVE OneAtATime'
  BY <1>24, CommitCallEffect, OneAtATimeKept DEF CommitCall, OnlyCall, At
<1>25. ASSUME NEW w \in Workers, Loop(w) PROVE OneAtATime'
  BY <1>25, OneAtATimeKept DEF Loop, Move, TypeOK
<1>26. ASSUME NEW w \in Workers, Gate(w) PROVE OneAtATime'
  BY <1>26, OneAtATimeKept DEF Gate, Move, TypeOK
<1>27. ASSUME NEW w \in Workers, Block(w) PROVE OneAtATime'
  BY <1>27, OneAtATimeKept DEF Block, Move, TypeOK
<1>28. ASSUME NEW w \in Workers, Wait(w) PROVE OneAtATime'
  BY <1>28, OneAtATimeKept DEF Wait, Move, TypeOK
<1>29. ASSUME NEW w \in Workers, Exit(w) PROVE OneAtATime'
  BY <1>29, OneAtATimeKept DEF Exit, Move, TypeOK
<1>30. ASSUME NEW w \in Workers, Take(w) PROVE OneAtATime'
  BY <1>30, OneAtATimeKept DEF Take, StartTask, Returned, Move, TypeOK
<1>31. ASSUME NEW w \in Workers, Expire(w) PROVE OneAtATime'
  BY <1>31, OneAtATimeKept DEF Expire, Decide, Returned, Move, TypeOK
<1>32. ASSUME NEW w \in Workers, Timeout(w) PROVE OneAtATime'
  BY <1>32, OneAtATimeKept DEF Timeout, Move, TypeOK
<1>33. ASSUME NEW w \in Workers, DelThread1(w) PROVE OneAtATime'
  <2>1. Adding = {} /\ Removing = {} BY <1>33 DEF DelThread1, ThreadMutexFree
  <2>2. \A d \in Clients : call'[d].at = call[d].at
    BY <1>33, DelThreadEffect DEF DelThread1, OnlyMoved
  <2>3. \A v \in Workers \ {w} : pc'[v] = pc[v] BY <1>33 DEF DelThread1, Move, TypeOK
  <2>4. Adding' = {} /\ Removing' \subseteq {w} BY <2>1, <2>2, <2>3 DEF Adding, Removing
  <2> QED BY <2>4 DEF OneAtATime
<1>34. ASSUME NEW w \in Workers, DelThread2(w) PROVE OneAtATime'
  BY <1>34, DelThreadEffect, OneAtATimeKept DEF DelThread2, LeaveList, OnlyMoved, TypeOK
<1>35. ASSUME NEW w \in Workers, RunTask(w) PROVE OneAtATime'
  BY <1>35, OneAtATimeKept DEF RunTask, Move, TypeOK
<1>36. ASSUME NEW w \in Workers, BackToIdle(w) PROVE OneAtATime'
  BY <1>36, OneAtATimeKept DEF BackToIdle, Move, TypeOK
<1>37. CASE UNCHANGED vars
  BY <1>37, OneAtATimeKept DEF vars
<1> QED
  BY <1>1, <1>2, <1>3, <1>4, <1>4a, <1>5, <1>6, <1>7, <1>8, <1>9, <1>10, <1>11, <1>12,
     <1>13, <1>14, <1>15, <1>16, <1>17, <1>18, <1>19, <1>20, <1>21, <1>22, <1>23, <1>24,
     <1>25, <1>26, <1>27, <1>28, <1>29, <1>30, <1>31, <1>32, <1>33, <1>34, <1>35, <1>36,
     <1>37
     DEF Next, Proceed, Begin, Thread

\* A step that starts no thread and takes none off the list.
LEMMA ListedKept ==
    ASSUME Listed,
           \A d \in Clients : call[d].at \in {"add1", "add2"} =>
               call'[d].at \in {"add1", "add2"} /\ call'[d].thread = call[d].thread,
           \A w \in Workers : threads[w] # None => threads'[w] # None,
           \A w \in Workers : pc'[w] \notin {"none", "exited"} => pc[w] \notin {"none", "exited"}
    PROVE  Listed'
BY DEF Listed

\* A thread is never lost between its start and its entry in the list.
LEMMA ListedStep ==
    ASSUME TypeOK, CreateState, Jobs, Listed, [Next]_vars
    PROVE  Listed'
<1>0. Typed BY DEF TypeOK, Typed
<1> USE <1>0, IdleFields
<1>1. ASSUME NEW c \in Clients, StartTest(c) PROVE Listed'
  BY <1>1, StartTestEffect, ListedKept DEF StartTest, OnlyCall, At
<1>2. ASSUME NEW c \in Clients, StartRun(c) PROVE Listed'
  BY <1>2, StartRunEffect, ListedKept DEF StartRun, OnlyCall, At
<1>3. ASSUME NEW c \in Clients, CommitCheck(c) PROVE Listed'
  BY <1>3, CommitCheckEffect, ListedKept DEF CommitCheck, OnlyCall, At
<1>4. ASSUME NEW c \in Clients, CommitSize(c) PROVE Listed'
  BY <1>4, CommitSizeEffect, ListedKept DEF CommitSize, OnlyCall, At
<1>4a. ASSUME NEW c \in Clients, CommitRoom(c) PROVE Listed'
  BY <1>4a, CommitRoomEffect, ListedKept DEF CommitRoom, OnlyCall, At
<1>5. ASSUME NEW c \in Clients, CreateDone(c) PROVE Listed'
  BY <1>5, CreateDoneEffect, ListedKept DEF CreateDone, OnlyCall, At
<1>6. ASSUME NEW c \in Clients, CreateThread(c) PROVE Listed'
  <2>1. call[c].at = "create" BY <1>6 DEF CreateThread, At
  <2>2. UNCHANGED threads BY <1>6 DEF CreateThread
  <2>3. OnlyCall(c) BY <1>6, CreateThreadEffect
  <2>4. \A d \in Clients : call[d].at \in {"add1", "add2"} =>
            call'[d].at \in {"add1", "add2"} /\ call'[d].thread = call[d].thread
    BY <2>1, <2>3 DEF OnlyCall
  <2>5. CASE UNCHANGED pc BY <2>2, <2>4, <2>5, ListedKept
  <2>6. CASE pc' = [pc EXCEPT ![NewWorker] = "loop"] /\ pc' # pc
    <3>1. call'[c].at = "add1" /\ call'[c].thread = NewWorker
      BY <1>6, <2>6, CreateThreadEffect
    <3>2. \A w \in Workers : w # NewWorker => pc'[w] = pc[w] BY <2>6 DEF TypeOK
    <3> QED BY <2>2, <2>4, <3>1, <3>2 DEF Listed
  <2> QED BY <1>6, <2>5, <2>6 DEF CreateThread
<1>7. ASSUME NEW c \in Clients, AddThread1(c) PROVE Listed'
  <2>1. call'[c].at = "add2" /\ call'[c].thread = call[c].thread
    BY <1>7, AddThread1Effect DEF KeepsAdding
  <2>2. \A d \in Clients \ {c} : call'[d].at = call[d].at /\ call'[d].thread = call[d].thread
    BY <1>7, AddThread1Effect DEF OnlyMoved
  <2>3. UNCHANGED <<threads, pc>> BY <1>7 DEF AddThread1
  <2> QED BY <2>1, <2>2, <2>3, ListedKept
<1>8. ASSUME NEW c \in Clients, AddThread2(c) PROVE Listed'
  <2>1. call[c].at = "add2" /\ call[c].left > 0 BY <1>8 DEF AddThread2, At, CreateState
  <2>2. \A d \in Clients \ {c} : call'[d].at = call[d].at /\ call'[d].thread = call[d].thread
    BY <1>8, <2>1, AddThread2Effect DEF OnlyMoved
  <2>3. threads' = [threads EXCEPT ![call[c].thread] = "RUNNING"] /\ UNCHANGED pc
    BY <1>8 DEF AddThread2
  <2>4. ASSUME NEW w \in Workers PROVE w = call[c].thread \/ threads[w] # None => threads'[w] # None
    BY <2>3 DEF TypeOK, None
  <2> QED BY <2>2, <2>3, <2>4 DEF Listed
<1>9. ASSUME NEW c \in Clients, CommitPush(c) PROVE Listed'
  BY <1>9, CommitPushEffect, ListedKept DEF CommitPush, OnlyCall, At
<1>10. ASSUME NEW c \in Clients, CommitNotify(c) PROVE Listed'
  BY <1>10, CommitNotifyEffect, ListedKept DEF CommitNotify, OnlyCall, At, TypeOK
<1>11. ASSUME NEW c \in Clients, StopNotify(c) PROVE Listed'
  BY <1>11, StopNotifyEffect, ListedKept DEF StopNotify, OnlyCall, At, TypeOK
<1>12. ASSUME NEW c \in Clients, StopJoin(c) PROVE Listed'
  <2>1. OnlyCall(c) /\ call[c].at = "join" BY <1>12, StopJoinEffect DEF StopJoin, At
  <2>2. ASSUME NEW w \in Workers, pc'[w] \notin {"none", "exited"}
        PROVE  threads[w] = None /\ pc[w] = pc'[w]
    BY <1>12, <2>2 DEF StopJoin
  <2> QED BY <2>1, <2>2 DEF Listed, OnlyCall
<1>13. ASSUME NEW c \in Clients, PauseSet(c) PROVE Listed'
  BY <1>13, PauseSetEffect, ListedKept DEF PauseSet, OnlyCall, At
<1>14. ASSUME NEW c \in Clients, ResumeSet(c) PROVE Listed'
  BY <1>14, ResumeSetEffect, ListedKept DEF ResumeSet, OnlyCall, At
<1>15. ASSUME NEW c \in Clients, WaitStopped(c) PROVE Listed'
  BY <1>15, WaitStoppedEffect, ListedKept DEF WaitStopped, OnlyCall, At
<1>16. ASSUME NEW c \in Clients, WaitEmpty(c) PROVE Listed'
  BY <1>16, WaitEmptyEffect, ListedKept DEF WaitEmpty, OnlyCall, At
<1>17. ASSUME NEW c \in Clients, WaitRead(c) PROVE Listed'
  BY <1>17, WaitReadEffect, ListedKept DEF WaitRead, OnlyCall, At
<1>18. ASSUME NEW c \in Clients, WaitCompare(c) PROVE Listed'
  BY <1>18, WaitCompareEffect, ListedKept DEF WaitCompare, OnlyCall, At
<1>19. ASSUME NEW c \in Clients, StartCall(c) PROVE Listed'
  BY <1>19, StartCallEffect, ListedKept DEF StartCall, OnlyCall, At
<1>20. ASSUME NEW c \in Clients, StopCall(c) PROVE Listed'
  BY <1>20, StopCallEffect, ListedKept DEF StopCall, OnlyCall, At
<1>21. ASSUME NEW c \in Clients, PauseCall(c) PROVE Listed'
  BY <1>21, PauseCallEffect, ListedKept DEF PauseCall, OnlyCall, At
<1>22. ASSUME NEW c \in Clients, ResumeCall(c) PROVE Listed'
  BY <1>22, ResumeCallEffect, ListedKept DEF ResumeCall, OnlyCall, At
<1>23. ASSUME NEW c \in Clients, WaitCall(c) PROVE Listed'
  BY <1>23, WaitCallEffect, ListedKept DEF WaitCall, OnlyCall, At
<1>24. ASSUME NEW c \in Clients, NEW t \in Tasks, CommitCall(c, t) PROVE Listed'
  BY <1>24, CommitCallEffect, ListedKept DEF CommitCall, OnlyCall, At
<1>25. ASSUME NEW w \in Workers, Loop(w) PROVE Listed'
  BY <1>25, ListedKept DEF Loop, Move, TypeOK
<1>26. ASSUME NEW w \in Workers, Gate(w) PROVE Listed'
  BY <1>26, ListedKept DEF Gate, Move, TypeOK
<1>27. ASSUME NEW w \in Workers, Block(w) PROVE Listed'
  BY <1>27, ListedKept DEF Block, Move, TypeOK
<1>28. ASSUME NEW w \in Workers, Wait(w) PROVE Listed'
  BY <1>28, ListedKept DEF Wait, Move, TypeOK
<1>29. ASSUME NEW w \in Workers, Exit(w) PROVE Listed'
  BY <1>29, ListedKept DEF Exit, Move, TypeOK
<1>30. ASSUME NEW w \in Workers, Take(w) PROVE Listed'
  BY <1>30, ListedKept DEF Take, StartTask, Returned, Move, TypeOK
<1>31. ASSUME NEW w \in Workers, Expire(w) PROVE Listed'
  BY <1>31, ListedKept DEF Expire, Decide, Returned, Move, TypeOK
<1>32. ASSUME NEW w \in Workers, Timeout(w) PROVE Listed'
  BY <1>32, ListedKept DEF Timeout, Move, TypeOK
<1>33. ASSUME NEW w \in Workers, DelThread1(w) PROVE Listed'
  BY <1>33, DelThreadEffect, ListedKept DEF DelThread1, Move, OnlyMoved, TypeOK
<1>34. ASSUME NEW w \in Workers, DelThread2(w) PROVE Listed'
  <2>1. \A d \in Clients : call'[d].at = call[d].at /\ call'[d].thread = call[d].thread
    BY <1>34, DelThreadEffect DEF DelThread2, LeaveList, OnlyMoved
  <2>2. PICK old \in SUBSET {v \in Workers : threads[v] = "STOP" /\ pc[v] = "exited"} :
          /\ threads' = [v \in Workers |->
                            IF v \in old THEN None
                            ELSE IF v = w /\ threads[v] # None THEN "STOP"
                            ELSE threads[v]]
          /\ pc' = [v \in Workers |-> IF v = w THEN "exited"
                                      ELSE IF v \in old THEN "none" ELSE pc[v]]
    BY <1>34 DEF DelThread2, LeaveList
  <2>3. ASSUME NEW v \in Workers, pc'[v] \notin {"none", "exited"}
        PROVE  pc[v] = pc'[v] /\ threads'[v] = threads[v]
    BY <2>2, <2>3
  <2> QED BY <2>1, <2>3 DEF Listed
<1>35. ASSUME NEW w \in Workers, RunTask(w) PROVE Listed'
  BY <1>35, ListedKept DEF RunTask, Move, TypeOK
<1>36. ASSUME NEW w \in Workers, BackToIdle(w) PROVE Listed'
  BY <1>36, ListedKept DEF BackToIdle, Move, TypeOK
<1>37. CASE UNCHANGED vars
  BY <1>37, ListedKept DEF vars
<1> QED
  BY <1>1, <1>2, <1>3, <1>4, <1>4a, <1>5, <1>6, <1>7, <1>8, <1>9, <1>10, <1>11, <1>12,
     <1>13, <1>14, <1>15, <1>16, <1>17, <1>18, <1>19, <1>20, <1>21, <1>22, <1>23, <1>24,
     <1>25, <1>26, <1>27, <1>28, <1>29, <1>30, <1>31, <1>32, <1>33, <1>34, <1>35, <1>36,
     <1>37
     DEF Next, Proceed, Begin, Thread

-----------------------------------------------------------------------------
(* Counting.                                                                *)

\* One element more.
LEMMA OneMore ==
    ASSUME NEW S, NEW T, NEW x, IsFiniteSet(S), x \notin S, T = S \cup {x}
    PROVE  Cardinality(S) \in Int /\ Cardinality(T) = Cardinality(S) + 1
BY FS_AddElement, FS_CardinalityType

\* One element less.
LEMMA OneLess ==
    ASSUME NEW S, NEW T, NEW x, IsFiniteSet(S), x \in S, T = S \ {x}
    PROVE  Cardinality(S) \in Int /\ Cardinality(T) = Cardinality(S) - 1
BY FS_RemoveElement, FS_CardinalityType

\* The sets that are counted are finite.
LEMMA FiniteParts ==
    /\ IsFiniteSet(Adding) /\ IsFiniteSet(Removing) /\ IsFiniteSet(Busy) /\ IsFiniteSet(InAdd1)
    /\ Cardinality(Adding) \in Int /\ Cardinality(Removing) \in Int
    /\ Cardinality(Busy) \in Int /\ Cardinality(InAdd1) \in Int /\ Cardinality(Clients) \in Int
<1>1. Adding \subseteq Clients /\ InAdd1 \subseteq Clients BY DEF Adding, InAdd1
<1>2. Removing \subseteq Workers /\ Busy \subseteq Workers BY DEF Removing, Busy
<1>3. /\ IsFiniteSet(Adding) /\ IsFiniteSet(Removing)
      /\ IsFiniteSet(Busy) /\ IsFiniteSet(InAdd1)
  BY <1>1, <1>2, FiniteAssumption, FS_Subset
<1> QED BY <1>3, FiniteAssumption, FS_CardinalityType

\* A step that counts nothing and moves no thread in or out of the counted sets.
LEMMA CountersKept ==
    ASSUME CountersAgree, UNCHANGED counters,
           \A d \in Clients : call'[d].at = "add2" <=> call[d].at = "add2",
           \A w \in Workers : /\ pc'[w] = "del2" <=> pc[w] = "del2"
                              /\ pc'[w] \in {"run", "ran"} <=> pc[w] \in {"run", "ran"}
    PROVE  CountersAgree'
<1>1. Adding' = Adding /\ Removing' = Removing /\ Busy' = Busy
  BY DEF Adding, Removing, Busy
<1> QED BY <1>1 DEF CountersAgree, Busy

\* Every step that counts a thread also moves it, and the other way round.
LEMMA CountersStep ==
    ASSUME TypeOK, CreateState, Jobs, StopAlone, Listed, CountersAgree, [Next]_vars
    PROVE  CountersAgree'
<1>0. Typed BY DEF TypeOK, Typed
<1> USE <1>0, IdleFields, FiniteParts
<1>1. ASSUME NEW c \in Clients, StartTest(c) PROVE CountersAgree'
  BY <1>1, StartTestEffect, CountersKept DEF StartTest, OnlyCall, At
<1>2. ASSUME NEW c \in Clients, StartRun(c) PROVE CountersAgree'
  BY <1>2, StartRunEffect, CountersKept DEF StartRun, OnlyCall, At
<1>3. ASSUME NEW c \in Clients, CommitCheck(c) PROVE CountersAgree'
  BY <1>3, CommitCheckEffect, CountersKept DEF CommitCheck, OnlyCall, At
<1>4. ASSUME NEW c \in Clients, CommitSize(c) PROVE CountersAgree'
  BY <1>4, CommitSizeEffect, CountersKept DEF CommitSize, OnlyCall, At
<1>4a. ASSUME NEW c \in Clients, CommitRoom(c) PROVE CountersAgree'
  BY <1>4a, CommitRoomEffect, CountersKept DEF CommitRoom, OnlyCall, At
<1>5. ASSUME NEW c \in Clients, CreateDone(c) PROVE CountersAgree'
  BY <1>5, CreateDoneEffect, CountersKept DEF CreateDone, OnlyCall, At
<1>6. ASSUME NEW c \in Clients, CreateThread(c) PROVE CountersAgree'
  <2>1. call[c].at = "create" BY <1>6 DEF CreateThread, At
  <2>2. OnlyCall(c) /\ call'[c].at \in {"create", "add1"} BY <1>6, CreateThreadEffect
  <2>3. UNCHANGED counters BY <1>6 DEF CreateThread
  <2>4. \A w \in Workers : pc'[w] = pc[w] \/ (pc[w] = "none" /\ pc'[w] = "loop")
    BY <1>6, NewThreadMoves
  <2> QED BY <2>1, <2>2, <2>3, <2>4, CountersKept DEF OnlyCall
<1>7. ASSUME NEW c \in Clients, AddThread1(c) PROVE CountersAgree'
  <2>1. call[c].at = "add1" /\ call'[c].at = "add2"
    BY <1>7, AddThread1Effect DEF AddThread1, At
  <2>2. \A d \in Clients \ {c} : call'[d].at = call[d].at
    BY <1>7, AddThread1Effect DEF OnlyMoved
  <2>3. cur_thread_num' = cur_thread_num + 1 /\ UNCHANGED <<idle_thread_num, pc>>
    BY <1>7 DEF AddThread1
  <2>4. Adding' = Adding \cup {c} /\ c \notin Adding BY <2>1, <2>2 DEF Adding
  <2>5. Removing' = Removing /\ Busy' = Busy BY <2>3 DEF Removing, Busy
  <2>6. Cardinality(Adding') = Cardinality(Adding) + 1 BY <2>4, OneMore
  <2> QED BY <2>3, <2>5, <2>6 DEF CountersAgree, Busy, TypeOK
<1>8. ASSUME NEW c \in Clients, AddThread2(c) PROVE CountersAgree'
  <2>1. call[c].at = "add2" /\ call[c].left > 0 BY <1>8 DEF AddThread2, At, CreateState
  <2>2. call'[c].at = "create" /\ \A d \in Clients \ {c} : call'[d].at = call[d].at
    BY <1>8, <2>1, AddThread2Effect DEF OnlyMoved
  <2>3. idle_thread_num' = idle_thread_num + 1 /\ UNCHANGED <<cur_thread_num, pc>>
    BY <1>8 DEF AddThread2
  <2>4. Adding' = Adding \ {c} /\ c \in Adding BY <2>1, <2>2 DEF Adding
  <2>5. Removing' = Removing /\ Busy' = Busy BY <2>3 DEF Removing, Busy
  <2>6. Cardinality(Adding') = Cardinality(Adding) - 1 BY <2>4, OneLess
  <2> QED BY <2>3, <2>5, <2>6 DEF CountersAgree, Busy, TypeOK
<1>9. ASSUME NEW c \in Clients, CommitPush(c) PROVE CountersAgree'
  BY <1>9, CommitPushEffect, CountersKept DEF CommitPush, OnlyCall, At
<1>10. ASSUME NEW c \in Clients, CommitNotify(c) PROVE CountersAgree'
  BY <1>10, CommitNotifyEffect, CountersKept DEF CommitNotify, OnlyCall, At, TypeOK
<1>11. ASSUME NEW c \in Clients, StopNotify(c) PROVE CountersAgree'
  BY <1>11, StopNotifyEffect, CountersKept DEF StopNotify, OnlyCall, At, TypeOK
<1>12. ASSUME NEW c \in Clients, StopJoin(c) PROVE CountersAgree'
  <2>1. OnlyCall(c) /\ call[c].at = "join" /\ call'[c] = Idle
    BY <1>12, StopJoinEffect DEF StopJoin, At
  <2>2. \A d \in Clients \ {c} : call[d].at \notin Structural
    BY <2>1 DEF StopAlone, Stops
  <2>3. Adding' = {} BY <2>1, <2>2 DEF Adding, OnlyCall, Structural
  <2>4. ASSUME NEW w \in Workers PROVE pc'[w] \in {"none", "exited"}
    <3>1. CASE threads[w] # None BY <1>12, <3>1 DEF StopJoin
    <3>2. CASE threads[w] = None
      <4>1. pc[w] \in {"none", "exited"} BY <2>1, <2>2, <3>2 DEF Listed, Structural
      <4> QED BY <1>12, <3>2, <4>1 DEF StopJoin
    <3> QED BY <3>1, <3>2
  <2>5. Removing' = {} /\ Busy' = {} BY <2>4 DEF Removing, Busy
  <2>6. cur_thread_num' = 0 /\ idle_thread_num' = 0 BY <1>12 DEF StopJoin
  <2>7. Cardinality({}) = 0 BY FS_EmptySet
  <2>8. Cardinality(Adding') = 0 /\ Cardinality(Removing') = 0 /\ Cardinality(Busy') = 0
    BY <2>3, <2>5, <2>7
  <2> QED BY <2>6, <2>8 DEF CountersAgree, Busy
<1>13. ASSUME NEW c \in Clients, PauseSet(c) PROVE CountersAgree'
  BY <1>13, PauseSetEffect, CountersKept DEF PauseSet, OnlyCall, At
<1>14. ASSUME NEW c \in Clients, ResumeSet(c) PROVE CountersAgree'
  BY <1>14, ResumeSetEffect, CountersKept DEF ResumeSet, OnlyCall, At
<1>15. ASSUME NEW c \in Clients, WaitStopped(c) PROVE CountersAgree'
  BY <1>15, WaitStoppedEffect, CountersKept DEF WaitStopped, OnlyCall, At
<1>16. ASSUME NEW c \in Clients, WaitEmpty(c) PROVE CountersAgree'
  BY <1>16, WaitEmptyEffect, CountersKept DEF WaitEmpty, OnlyCall, At
<1>17. ASSUME NEW c \in Clients, WaitRead(c) PROVE CountersAgree'
  BY <1>17, WaitReadEffect, CountersKept DEF WaitRead, OnlyCall, At
<1>18. ASSUME NEW c \in Clients, WaitCompare(c) PROVE CountersAgree'
  BY <1>18, WaitCompareEffect, CountersKept DEF WaitCompare, OnlyCall, At
<1>19. ASSUME NEW c \in Clients, StartCall(c) PROVE CountersAgree'
  BY <1>19, StartCallEffect, CountersKept DEF StartCall, OnlyCall, At
<1>20. ASSUME NEW c \in Clients, StopCall(c) PROVE CountersAgree'
  BY <1>20, StopCallEffect, CountersKept DEF StopCall, OnlyCall, At
<1>21. ASSUME NEW c \in Clients, PauseCall(c) PROVE CountersAgree'
  BY <1>21, PauseCallEffect, CountersKept DEF PauseCall, OnlyCall, At
<1>22. ASSUME NEW c \in Clients, ResumeCall(c) PROVE CountersAgree'
  BY <1>22, ResumeCallEffect, CountersKept DEF ResumeCall, OnlyCall, At
<1>23. ASSUME NEW c \in Clients, WaitCall(c) PROVE CountersAgree'
  BY <1>23, WaitCallEffect, CountersKept DEF WaitCall, OnlyCall, At
<1>24. ASSUME NEW c \in Clients, NEW t \in Tasks, CommitCall(c, t) PROVE CountersAgree'
  BY <1>24, CommitCallEffect, CountersKept DEF CommitCall, OnlyCall, At
<1>25. ASSUME NEW w \in Workers, Loop(w) PROVE CountersAgree'
  BY <1>25, CountersKept DEF Loop, Move, TypeOK
<1>26. ASSUME NEW w \in Workers, Gate(w) PROVE CountersAgree'
  BY <1>26, CountersKept DEF Gate, Move, TypeOK
<1>27. ASSUME NEW w \in Workers, Block(w) PROVE CountersAgree'
  BY <1>27, CountersKept DEF Block, Move, TypeOK
<1>28. ASSUME NEW w \in Workers, Wait(w) PROVE CountersAgree'
  BY <1>28, CountersKept DEF Wait, Move, TypeOK
<1>29. ASSUME NEW w \in Workers, Exit(w) PROVE CountersAgree'
  BY <1>29, CountersKept DEF Exit, Move, TypeOK
<1>30. ASSUME NEW w \in Workers, Take(w) PROVE CountersAgree'
  <2>1. /\ pc[w] \in {"lock", "expired"} /\ pc' = [pc EXCEPT ![w] = "run"]
        /\ idle_thread_num' = idle_thread_num - 1 /\ UNCHANGED <<cur_thread_num, call>>
    BY <1>30 DEF Take, StartTask, Returned, Move
  <2>2. pc'[w] = "run" /\ \A v \in Workers \ {w} : pc'[v] = pc[v] BY <2>1 DEF TypeOK
  <2>3. Busy' = Busy \cup {w} /\ w \notin Busy BY <2>1, <2>2 DEF Busy
  <2>4. Removing' = Removing /\ Adding' = Adding BY <2>1, <2>2 DEF Removing, Adding
  <2>5. Cardinality(Busy') = Cardinality(Busy) + 1 BY <2>3, OneMore
  <2> QED BY <2>1, <2>4, <2>5 DEF CountersAgree, Busy, TypeOK
<1>31. ASSUME NEW w \in Workers, Expire(w) PROVE CountersAgree'
  BY <1>31, CountersKept DEF Expire, Decide, Returned, Move, TypeOK
<1>32. ASSUME NEW w \in Workers, Timeout(w) PROVE CountersAgree'
  BY <1>32, CountersKept DEF Timeout, Move, TypeOK
<1>33. ASSUME NEW w \in Workers, DelThread1(w) PROVE CountersAgree'
  <2>1. /\ pc[w] = "del1" /\ pc' = [pc EXCEPT ![w] = "del2"]
        /\ cur_thread_num' = cur_thread_num - 1 /\ UNCHANGED idle_thread_num
    BY <1>33 DEF DelThread1, Move
  <2>2. pc'[w] = "del2" /\ \A v \in Workers \ {w} : pc'[v] = pc[v] BY <2>1 DEF TypeOK
  <2>3. \A d \in Clients : call'[d].at = call[d].at
    BY <1>33, DelThreadEffect DEF DelThread1, OnlyMoved
  <2>4. Removing' = Removing \cup {w} /\ w \notin Removing BY <2>1, <2>2 DEF Removing
  <2>5. Busy' = Busy /\ Adding' = Adding BY <2>1, <2>2, <2>3 DEF Busy, Adding
  <2>6. Cardinality(Removing') = Cardinality(Removing) + 1 BY <2>4, OneMore
  <2>7. cur_thread_num \in Int BY DEF TypeOK
  <2>8. Cardinality(Busy') = Cardinality(Busy) BY <2>5
  <2> QED BY <2>1, <2>5, <2>6, <2>7, <2>8 DEF CountersAgree, Busy
<1>34. ASSUME NEW w \in Workers, DelThread2(w) PROVE CountersAgree'
  <2>1. pc[w] = "del2" /\ idle_thread_num' = idle_thread_num - 1 /\ UNCHANGED cur_thread_num
    BY <1>34 DEF DelThread2, LeaveList
  <2>2. /\ pc'[w] = "exited"
        /\ \A v \in Workers \ {w} : pc'[v] = pc[v] \/ (pc[v] = "exited" /\ pc'[v] = "none")
    BY <1>34 DEF DelThread2, LeaveList
  <2>3. \A d \in Clients : call'[d].at = call[d].at
    BY <1>34, DelThreadEffect DEF DelThread2, LeaveList, OnlyMoved
  <2>4. Removing' = Removing \ {w} /\ w \in Removing BY <2>1, <2>2 DEF Removing
  <2>5. Busy' = Busy /\ Adding' = Adding BY <2>1, <2>2, <2>3 DEF Busy, Adding
  <2>6. Cardinality(Removing') = Cardinality(Removing) - 1 BY <2>4, OneLess
  <2>7. cur_thread_num \in Int BY DEF TypeOK
  <2>8. Cardinality(Busy') = Cardinality(Busy) BY <2>5
  <2> QED BY <2>1, <2>5, <2>6, <2>7, <2>8 DEF CountersAgree, Busy
<1>35. ASSUME NEW w \in Workers, RunTask(w) PROVE CountersAgree'
  BY <1>35, CountersKept DEF RunTask, Move, TypeOK
<1>36. ASSUME NEW w \in Workers, BackToIdle(w) PROVE CountersAgree'
  <2>1. /\ pc[w] = "ran" /\ pc' = [pc EXCEPT ![w] = "loop"]
        /\ idle_thread_num' = idle_thread_num + 1 /\ UNCHANGED <<cur_thread_num, call>>
    BY <1>36 DEF BackToIdle, Move
  <2>2. pc'[w] = "loop" /\ \A v \in Workers \ {w} : pc'[v] = pc[v] BY <2>1 DEF TypeOK
  <2>3. Busy' = Busy \ {w} /\ w \in Busy BY <2>1, <2>2 DEF Busy
  <2>4. Removing' = Removing /\ Adding' = Adding BY <2>1, <2>2 DEF Removing, Adding
  <2>5. Cardinality(Busy') = Cardinality(Busy) - 1 BY <2>3, OneLess
  <2> QED BY <2>1, <2>4, <2>5 DEF CountersAgree, Busy, TypeOK
<1>37. CASE UNCHANGED vars
  BY <1>37, CountersKept DEF vars
<1> QED
  BY <1>1, <1>2, <1>3, <1>4, <1>4a, <1>5, <1>6, <1>7, <1>8, <1>9, <1>10, <1>11, <1>12,
     <1>13, <1>14, <1>15, <1>16, <1>17, <1>18, <1>19, <1>20, <1>21, <1>22, <1>23, <1>24,
     <1>25, <1>26, <1>27, <1>28, <1>29, <1>30, <1>31, <1>32, <1>33, <1>34, <1>35, <1>36,
     <1>37
     DEF Next, Proceed, Begin, Thread

\* A step that does not raise the counter and brings no client past the test.
LEMMA CapKept ==
    ASSUME TypeOK, ThreadCap, UNCHANGED setup, cur_thread_num' \in Int,
           cur_thread_num' <= cur_thread_num,
           \A d \in Clients : call'[d].at = "add1" => call[d].at = "add1"
    PROVE  ThreadCap'
<1>1. InAdd1' \subseteq InAdd1 BY DEF InAdd1
<1>2. Cardinality(InAdd1') <= Cardinality(InAdd1) /\ Cardinality(InAdd1') \in Int
  BY <1>1, FiniteParts, FS_Subset, FS_CardinalityType
<1>3. max_thread_num' = max_thread_num /\ max_thread_num \in Int
  BY Limits DEF max_thread_num
<1>4. cur_thread_num \in Int BY DEF TypeOK
<1>5. cur_thread_num + Cardinality(InAdd1) <= max_thread_num + Cardinality(Clients) - 1
  BY DEF ThreadCap, InAdd1, At
<1>6. cur_thread_num' + Cardinality(InAdd1') <= max_thread_num' + Cardinality(Clients) - 1
  BY <1>2, <1>3, <1>4, <1>5, FiniteParts
<1> QED BY <1>6 DEF ThreadCap, InAdd1, At

\* A step that leaves the counter alone.
LEMMA CapSame ==
    ASSUME TypeOK, ThreadCap, UNCHANGED <<setup, cur_thread_num>>,
           \A d \in Clients : call'[d].at = "add1" => call[d].at = "add1"
    PROVE  ThreadCap'
<1>1. cur_thread_num' \in Int /\ cur_thread_num' <= cur_thread_num BY DEF TypeOK
<1> QED BY <1>1, CapKept

\* Whoever adds a thread has seen the counter below the limit.
LEMMA CapStep ==
    ASSUME TypeOK, CreateState, Jobs, ThreadCap, [Next]_vars
    PROVE  ThreadCap'
<1>0. Typed /\ cur_thread_num \in Int BY DEF TypeOK, Typed
<1> USE <1>0, IdleFields
<1>1. ASSUME NEW c \in Clients, StartTest(c) PROVE ThreadCap'
  BY <1>1, StartTestEffect, CapSame DEF StartTest, OnlyCall, At
<1>2. ASSUME NEW c \in Clients, StartRun(c) PROVE ThreadCap'
  BY <1>2, StartRunEffect, CapSame DEF StartRun, OnlyCall, At
<1>3. ASSUME NEW c \in Clients, CommitCheck(c) PROVE ThreadCap'
  BY <1>3, CommitCheckEffect, CapSame DEF CommitCheck, OnlyCall, At
<1>4. ASSUME NEW c \in Clients, CommitSize(c) PROVE ThreadCap'
  BY <1>4, CommitSizeEffect, CapSame DEF CommitSize, OnlyCall, At
<1>4a. ASSUME NEW c \in Clients, CommitRoom(c) PROVE ThreadCap'
  BY <1>4a, CommitRoomEffect, CapSame DEF CommitRoom, OnlyCall, At
<1>5. ASSUME NEW c \in Clients, CreateDone(c) PROVE ThreadCap'
  BY <1>5, CreateDoneEffect, CapSame DEF CreateDone, OnlyCall, At
<1>6. ASSUME NEW c \in Clients, CreateThread(c) PROVE ThreadCap'
  <2>1. /\ call[c].at = "create" /\ UNCHANGED <<setup, cur_thread_num>>
        /\ cur_thread_num \in Int
    BY <1>6 DEF CreateThread, At, TypeOK
  <2>2. CASE cur_thread_num >= max_thread_num
    <3>1. \A d \in Clients : call'[d].at = "add1" => call[d].at = "add1"
      <4>1. Becomes(c, [call[c] EXCEPT !.left = call[c].left - 1])
        BY <1>6, <2>2, <2>1, Limits DEF CreateThread
      <4>2. PICK n \in Nat : n = call[c].left - 1
        BY <1>6, FieldTypes DEF CreateThread, Typed
      <4>3. Becomes(c, [call[c] EXCEPT !.left = n]) BY <4>1, <4>2
      <4> QED BY <2>1, <4>3, LeftOnly DEF OnlyCall
    <3> QED BY <2>1, <3>1, CapSame
  <2>3. CASE cur_thread_num < max_thread_num
    <3>1. InAdd1' \subseteq Clients BY DEF InAdd1
    <3>2. Cardinality(InAdd1') <= Cardinality(Clients) /\ Cardinality(InAdd1') \in Int
      BY <3>1, FiniteAssumption, FS_Subset, FS_CardinalityType
    <3>3. max_thread_num' = max_thread_num /\ max_thread_num \in Int
      BY <2>1, Limits DEF max_thread_num
    <3>4. cur_thread_num' + Cardinality(InAdd1') <= max_thread_num' + Cardinality(Clients) - 1
      BY <2>1, <2>3, <3>2, <3>3, FiniteParts
    <3> QED BY <3>4 DEF ThreadCap, InAdd1, At
  <2> QED BY <2>1, <2>2, <2>3, Limits
<1>7. ASSUME NEW c \in Clients, AddThread1(c) PROVE ThreadCap'
  <2>1. call[c].at = "add1" /\ call'[c].at = "add2"
    BY <1>7, AddThread1Effect DEF AddThread1, At
  <2>2. \A d \in Clients \ {c} : call'[d].at = call[d].at
    BY <1>7, AddThread1Effect DEF OnlyMoved
  <2>3. cur_thread_num' = cur_thread_num + 1 /\ UNCHANGED setup BY <1>7 DEF AddThread1
  <2>4. InAdd1' = InAdd1 \ {c} /\ c \in InAdd1 BY <2>1, <2>2 DEF InAdd1
  <2>5. Cardinality(InAdd1') = Cardinality(InAdd1) - 1 BY <2>4, FiniteParts, OneLess
  <2>6. cur_thread_num + Cardinality(InAdd1) <= max_thread_num + Cardinality(Clients) - 1
    BY DEF ThreadCap, InAdd1, At
  <2>7. max_thread_num' = max_thread_num /\ max_thread_num \in Int /\ cur_thread_num \in Int
    BY <2>3, Limits DEF max_thread_num, TypeOK
  <2>8. cur_thread_num' + Cardinality(InAdd1') <= max_thread_num' + Cardinality(Clients) - 1
    BY <2>3, <2>5, <2>6, <2>7, FiniteParts
  <2> QED BY <2>8 DEF ThreadCap, InAdd1, At
<1>8. ASSUME NEW c \in Clients, AddThread2(c) PROVE ThreadCap'
  <2>1. call[c].at = "add2" /\ call[c].left > 0 BY <1>8 DEF AddThread2, At, CreateState
  <2>2. call'[c].at = "create" /\ \A d \in Clients \ {c} : call'[d].at = call[d].at
    BY <1>8, <2>1, AddThread2Effect DEF OnlyMoved
  <2>3. UNCHANGED <<setup, cur_thread_num>> BY <1>8 DEF AddThread2
  <2> QED BY <2>2, <2>3, CapSame
<1>9. ASSUME NEW c \in Clients, CommitPush(c) PROVE ThreadCap'
  BY <1>9, CommitPushEffect, CapSame DEF CommitPush, OnlyCall, At
<1>10. ASSUME NEW c \in Clients, CommitNotify(c) PROVE ThreadCap'
  BY <1>10, CommitNotifyEffect, CapSame DEF CommitNotify, OnlyCall, At
<1>11. ASSUME NEW c \in Clients, StopNotify(c) PROVE ThreadCap'
  BY <1>11, StopNotifyEffect, CapSame DEF StopNotify, OnlyCall, At
<1>12. ASSUME NEW c \in Clients, StopJoin(c) PROVE ThreadCap'
  <2>1. OnlyCall(c) /\ call'[c] = Idle /\ cur_thread_num' = 0 /\ UNCHANGED setup
    BY <1>12, StopJoinEffect DEF StopJoin
  <2>2. InAdd1' \subseteq Clients \ {c} BY <2>1 DEF InAdd1
  <2>3. Cardinality(Clients \ {c}) = Cardinality(Clients) - 1 /\ IsFiniteSet(Clients \ {c})
    BY FiniteAssumption, OneLess, FS_RemoveElement
  <2>4. Cardinality(InAdd1') <= Cardinality(Clients) - 1 /\ Cardinality(InAdd1') \in Int
    BY <2>2, <2>3, FS_Subset, FS_CardinalityType
  <2>5. max_thread_num' = max_thread_num /\ max_thread_num \in Nat
    BY <2>1, Limits DEF max_thread_num
  <2>6. cur_thread_num' + Cardinality(InAdd1') <= max_thread_num' + Cardinality(Clients) - 1
    BY <2>1, <2>4, <2>5, FiniteParts
  <2> QED BY <2>6 DEF ThreadCap, InAdd1, At
<1>13. ASSUME NEW c \in Clients, PauseSet(c) PROVE ThreadCap'
  BY <1>13, PauseSetEffect, CapSame DEF PauseSet, OnlyCall, At
<1>14. ASSUME NEW c \in Clients, ResumeSet(c) PROVE ThreadCap'
  BY <1>14, ResumeSetEffect, CapSame DEF ResumeSet, OnlyCall, At
<1>15. ASSUME NEW c \in Clients, WaitStopped(c) PROVE ThreadCap'
  BY <1>15, WaitStoppedEffect, CapSame DEF WaitStopped, OnlyCall, At
<1>16. ASSUME NEW c \in Clients, WaitEmpty(c) PROVE ThreadCap'
  BY <1>16, WaitEmptyEffect, CapSame DEF WaitEmpty, OnlyCall, At
<1>17. ASSUME NEW c \in Clients, WaitRead(c) PROVE ThreadCap'
  BY <1>17, WaitReadEffect, CapSame DEF WaitRead, OnlyCall, At
<1>18. ASSUME NEW c \in Clients, WaitCompare(c) PROVE ThreadCap'
  BY <1>18, WaitCompareEffect, CapSame DEF WaitCompare, OnlyCall, At
<1>19. ASSUME NEW c \in Clients, StartCall(c) PROVE ThreadCap'
  BY <1>19, StartCallEffect, CapSame DEF StartCall, OnlyCall, At
<1>20. ASSUME NEW c \in Clients, StopCall(c) PROVE ThreadCap'
  BY <1>20, StopCallEffect, CapSame DEF StopCall, OnlyCall, At
<1>21. ASSUME NEW c \in Clients, PauseCall(c) PROVE ThreadCap'
  BY <1>21, PauseCallEffect, CapSame DEF PauseCall, OnlyCall, At
<1>22. ASSUME NEW c \in Clients, ResumeCall(c) PROVE ThreadCap'
  BY <1>22, ResumeCallEffect, CapSame DEF ResumeCall, OnlyCall, At
<1>23. ASSUME NEW c \in Clients, WaitCall(c) PROVE ThreadCap'
  BY <1>23, WaitCallEffect, CapSame DEF WaitCall, OnlyCall, At
<1>24. ASSUME NEW c \in Clients, NEW t \in Tasks, CommitCall(c, t) PROVE ThreadCap'
  BY <1>24, CommitCallEffect, CapSame DEF CommitCall, OnlyCall, At
<1>25. ASSUME NEW w \in Workers, Loop(w) PROVE ThreadCap'
  BY <1>25, CapSame DEF Loop, Move
<1>26. ASSUME NEW w \in Workers, Gate(w) PROVE ThreadCap'
  BY <1>26, CapSame DEF Gate, Move
<1>27. ASSUME NEW w \in Workers, Block(w) PROVE ThreadCap'
  BY <1>27, CapSame DEF Block, Move
<1>28. ASSUME NEW w \in Workers, Wait(w) PROVE ThreadCap'
  BY <1>28, CapSame DEF Wait, Move
<1>29. ASSUME NEW w \in Workers, Exit(w) PROVE ThreadCap'
  BY <1>29, CapSame DEF Exit, Move
<1>30. ASSUME NEW w \in Workers, Take(w) PROVE ThreadCap'
  BY <1>30, CapSame DEF Take, StartTask, Returned, Move
<1>31. ASSUME NEW w \in Workers, Expire(w) PROVE ThreadCap'
  BY <1>31, CapSame DEF Expire, Decide, Returned, Move
<1>32. ASSUME NEW w \in Workers, Timeout(w) PROVE ThreadCap'
  BY <1>32, CapSame DEF Timeout, Move
<1>33. ASSUME NEW w \in Workers, DelThread1(w) PROVE ThreadCap'
  <2>1. cur_thread_num' = cur_thread_num - 1 /\ UNCHANGED setup BY <1>33 DEF DelThread1
  <2>2. \A d \in Clients : call'[d].at = call[d].at
    BY <1>33, DelThreadEffect DEF DelThread1, OnlyMoved
  <2>3. cur_thread_num \in Int BY DEF TypeOK
  <2> QED BY <2>1, <2>2, <2>3, CapKept
<1>34. ASSUME NEW w \in Workers, DelThread2(w) PROVE ThreadCap'
  <2>1. UNCHANGED <<setup, cur_thread_num>> BY <1>34 DEF DelThread2, LeaveList
  <2>2. \A d \in Clients : call'[d].at = call[d].at
    BY <1>34, DelThreadEffect DEF DelThread2, LeaveList, OnlyMoved
  <2> QED BY <2>1, <2>2, CapSame
<1>35. ASSUME NEW w \in Workers, RunTask(w) PROVE ThreadCap'
  BY <1>35, CapSame DEF RunTask, Move
<1>36. ASSUME NEW w \in Workers, BackToIdle(w) PROVE ThreadCap'
  BY <1>36, CapSame DEF BackToIdle, Move
<1>37. CASE UNCHANGED vars
  BY <1>37, CapSame DEF vars
<1> QED
  BY <1>1, <1>2, <1>3, <1>4, <1>4a, <1>5, <1>6, <1>7, <1>8, <1>9, <1>10, <1>11, <1>12,
     <1>13, <1>14, <1>15, <1>16, <1>17, <1>18, <1>19, <1>20, <1>21, <1>22, <1>23, <1>24,
     <1>25, <1>26, <1>27, <1>28, <1>29, <1>30, <1>31, <1>32, <1>33, <1>34, <1>35, <1>36,
     <1>37
     DEF Next, Proceed, Begin, Thread

-----------------------------------------------------------------------------
(* The theorems.                                                           *)

\* The invariant holds at the start ...
LEMMA InitPool == Init => PoolInv
<1> SUFFICES ASSUME Init PROVE PoolInv OBVIOUS
<1> USE DEF Init
<1>1. \A c \in Clients : call[c] = Idle BY DEF Init
<1>2. Idle \in Call BY IdleFields
<1>3. TypeOK
  <2>1. call \in [Clients -> Call] BY <1>2
  <2>2. /\ tasks \in Seq(Tasks) /\ cur_thread_num \in Int /\ idle_thread_num \in Int
    OBVIOUS
  <2>3. /\ threads \in [Workers -> {None, "RUNNING", "STOP"}]
        /\ pc \in [Workers -> WorkerPcs] /\ job \in [Workers -> Tasks \cup {None}]
    BY DEF WorkerPcs
  <2> QED BY <2>1, <2>2, <2>3 DEF TypeOK
<1>4. StopAlone /\ CreateState
  BY <1>1, IdleFields DEF StopAlone, CreateState, Stops
<1>5. Jobs /\ Listed BY DEF Jobs, Listed
<1>6. Adding = {} /\ Removing = {} /\ Busy = {} /\ InAdd1 = {}
  BY <1>1, IdleFields DEF Adding, Removing, Busy, InAdd1
<1>7. OneAtATime BY <1>6 DEF OneAtATime
<1>8. /\ Cardinality(Adding) = 0 /\ Cardinality(Removing) = 0
      /\ Cardinality(Busy) = 0 /\ Cardinality(InAdd1) = 0
  BY <1>6, FS_EmptySet
<1>9. CountersAgree BY <1>8 DEF CountersAgree, Busy
<1>10. ThreadCap
  <2>1. Cardinality(Clients) \in Nat /\ Cardinality(Clients) # 0
    BY FiniteAssumption, FS_EmptySet, FS_CardinalityType
  <2>2. max_thread_num \in Nat BY <1>3, Limits
  <2>3. cur_thread_num + Cardinality(InAdd1) <= max_thread_num + Cardinality(Clients) - 1
    BY <1>8, <2>1, <2>2
  <2> QED BY <2>3 DEF ThreadCap, InAdd1, At
<1> QED BY <1>3, <1>4, <1>5, <1>7, <1>9, <1>10 DEF PoolInv

\* ... and is kept by every step.
LEMMA NextPool == PoolInv /\ [Next]_vars => PoolInv'
BY TypeStep, CreateStep, JobStep, StopAloneStep, OneAtATimeStep, ListedStep,
   CountersStep, CapStep DEF PoolInv

\* The invariant holds in every behaviour.
LEMMA PoolIsSound == Spec => []PoolInv
BY InitPool, NextPool, PTL DEF Spec

\* Every variable of the pool stays in its type, whatever its clients call.
THEOREM TypeCorrect == Spec => []TypeOK
<1>1. PoolInv => TypeOK BY DEF PoolInv
<1> QED BY <1>1, PoolIsSound, PTL

\* The two counters of the threads never drift apart: addThread, delThread, the
\* thread function and stop() count each thread once, in any interleaving.
THEOREM CountersDoNotDrift == Spec => []CountersAgree
<1>1. PoolInv => CountersAgree BY DEF PoolInv
<1> QED BY <1>1, PoolIsSound, PTL

\* createThread's unguarded test of max_thread_num lets one thread less than there
\* are clients past the limit, and no more.
THEOREM LimitIsKept == Spec => []ThreadCap
<1>1. PoolInv => ThreadCap BY DEF PoolInv
<1> QED BY <1>1, PoolIsSound, PTL

=============================================================================

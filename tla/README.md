# Verification of utisDeviceServer

utisDeviceServer is a Qt program that opens weather sensors (a weather
station, road-surface sensors, visibility sensors), polls them over UDP, shows
in a window which are open, and offers an HTTP interface. This directory models
it in TLA+, checks the models with TLC and proves part of what the runs check
with TLAPS. `PROJECT.json` lists the runs, the line of code behind each
definition, the hazards, the findings and the theorems.

## The system

Threads: the GUI thread, the device thread, the HTTP thread, libhv's IO thread
(it runs the handlers of the routes while the server is up) and the threads of
the pool behind `hv::async`. The first two share no data and talk through queued
Qt signals; the last three share the router, the server and the global pool.

| component | state | operations | talks to |
|---|---|---|---|
| device table, `ashuerdevive.*` | none after construction | name/type/category/command conversions, `isExclusion` | used by the worker |
| device facade, `utisDevice.*` | the thread, the worker pointer | constructor (connections), `start`, `stop`, destructor | GUI thread, in front of the worker |
| device worker, `utisDeviceWorker.*` | `m_onlineDev`, `m_cmdList`, `m_timer`, `m_udpClient`, `m_dataGram` | `slotStart`, `slotAddDev`, `slotDelDev`, `slotGetLatestData`, timer timeout (500 ms), `slotReadyRead`, `parseData` (no caller) | results to the facade, datagrams to the sensors |
| panels, `devicestatewidget.*` | `m_online` | `updateOnlineState`, button | requests to `Widget` |
| main window, `widget.*` | `m_HuaYunDevList`, `m_HuaYunDevCount`, `m_timer` (10 s) | `init` and its four parts, result handler, poll timer | facade, panels, HTTP server |
| HTTP facade and worker, `myhttpserver*.*` | the thread; `m_weatherData` (never written) | `start`, `stop`, `slotStart` (routes, `getchar` loop, `cleanup`) | libhv |
| libhv, `include/` | third party | HTTP server (binary), thread pool (headers) | HTTP worker |

What is hard here is the asynchrony between a click and its answer (the panel
acts on what the last answer said), the order of the queue before the worker has
created its timer, poll requests that overlap a poll in progress, a list edited
by the loop that walks it, and an early return that leaves a loop bound
unassigned. In the HTTP part: a slot that does not return to its event loop, a thread pool
cleaned up while requests may still use it, and a singleton read without its
mutex, so that a request may reach a pool that is being stopped, start it again, or
find it gone. In the pool: a status and two counters that are atomics read one at a
time, a wake-up that may be lost, threads that leave on a timeout. The properties that make
each component correct are:

- device thread: never two exclusive devices online; a close removes the device;
  polls do not mix and every command read is sent; nothing created by
  `slotStart` is used before it; towards its clients, one slot per category.
- GUI: a panel shows the state of its device; configured devices come online;
  an online device is polled again and again.
- startup: each configured device has a panel in a cell of its own; loops over
  the panels stay inside the list.
- end of the threads: `stop()` returns; nothing works, and nothing is left open,
  after it.
- UDP: the socket is never left unread in silence, and the loop that reads it ends.
- HTTP: no handler runs after the router is gone, none of a serving slot meets a
  pool that is gone; one global pool at a time; a cleanup that a late request
  meets does no more harm than the code makes inevitable.
- thread pool: a task is run once, in order, and is run at all; the two counters
  agree; the limit holds; `wait()` is a barrier; `pause()` and `stop()` are obeyed.

## Modules

| module | models |
|---|---|
| `AShuErDevive` | the device table: enumerations as the integers C++ gives them, conversions, the object the constructor makes as a record |
| `UtisDeviceWorker` | the device thread: facade, queue of posted events (`inbox`), one action per slot and per branch of the timeout, results posted back (`outbox`) |
| `DeviceRegistry` | abstract: one slot per category, opens and closes answered in the order they take effect; `Shutdown`, the end of a registry, which nobody is told of |
| `UtisDeviceServer` | `Widget` and its panels composed with `UtisDeviceWorker`; each GUI action is an action of the worker's client plus what it does to the panels |
| `WidgetInit` | the constructor of `Widget` up to the event loop, with the uninitialised count and the layout of the panels |
| `UtisDevice` | `UtisDeviceWorker` with what it leaves out: `stop()`, the destructor, a second `start()`, the end of the thread and of `m_work`, the socket and its port, the loop of `slotReadyRead`, and a network that loses, duplicates, delays and reorders the answers |
| `MyHttpServer` | the HTTP facade and its worker: `slotStart` from the server's construction to its destruction, the console, libhv's IO thread, `hv::async`, the life of the global pool, and `commit()` meeting the `stop()` of its destructor |
| `HThreadPool` | libhv's pool step by atomic step: `start`, `stop`, `pause`, `resume`, `wait`, `commit`, and the thread function |
| `TaskPool` | abstract: a task is started once, in the order of the queue, and ends once (`Spec`); what is queued may be dropped when nothing runs (`LossySpec`) |
| `MC*` | values for TLC |
| `UtisDeviceWorker_proofs` | what the loop of `slotDelDev` leaves of a list; inductive invariant and properties of the device thread |
| `DeviceRegistry_proofs` | the refinement |
| `UtisDeviceServer_proofs` | the GUI as a client of the device thread; what panels show and what is online; which device startup opens |
| `WidgetInit_proofs` | the layout of `initCfg` and the startup loop, for every count |
| `UtisDevice_proofs` | what the end of the thread means for the rest; that no datagram stays unread in silence; the worker's promises and its registry through `stop()` |
| `MyHttpServer_proofs` | the invariant of the HTTP thread and its safety properties; the pools of its `start()`s as one lossy `TaskPool` |
| `HThreadPool_proofs` | threads, counters and limit of the pool |
| `HThreadPoolTasks_proofs` | the tasks: the refinement of `TaskPool`, `wait()`, `pause()`; the threads that serve them: how many, whether awake, and none after `stop()` |

`UtisDeviceWorker` is used twice: alone, with any client that respects the
facade's interface (it calls `start()` once and emits nothing before it), and
inside `UtisDeviceServer`. That the real GUI is such a client is checked and
proved (`ImplementsWorker`), so what is proved of the worker holds in the
program.

Correspondence of state: `inbox` is the worker object's posted-event queue; a
slot is one action because the worker's event loop runs one slot to its end, and
nothing else touches the worker's members. `outbox` is the GUI thread's queue,
reduced to `signalAddDevResult`. `timerActive` is `m_timer->isActive()`;
`started` stands for `m_timer` and `m_udpClient` being created, and
`m_udpClient` is tested in the timeout as the code does. `running` is set by
`start()`. In `UtisDeviceServer`, `online[i]` is `m_online` of panel i and
`added` counts the requests of `initHuaYunDevice`; the event loop of the GUI
runs only when they are all emitted (`EventLoop`), as in the constructor.

In `UtisDevice`, every slot of the worker is the action of `UtisDeviceWorker`,
composed with what it does to the socket; `work` is "`m_work` has not been
deleted", `quit` the flag of `QThread::quit`, `net` the answers on their way,
`pending` what the socket holds and `dataGram` is `m_dataGram`. `Finish` is the
event loop's return and the deletion of `m_work` that `finished` triggers, in
one step: no other thread reads what it deletes.

`port` is the port of `m_udpClient`. `bind()` gives it `m_localPort`, or nothing,
and nobody looks; then the first `writeDatagram` binds the socket to a port the
system chooses (`Ask`). A device may answer to the port its command came from or to
`m_localPort` in any case (`AnswerPorts`), so such a socket may hear every answer or
none. `silent` is what Qt keeps of `readyRead`: it is not emitted again until
something has been read. `slotReadyRead` is three steps, `SlotReadyRead` (clear),
`ReadDatagram` (one turn of the loop) and `ReadEnd` (`hasPendingDatagrams()` is
false), and datagrams arrive between them; `reading` keeps the thread from its other
events meanwhile.

In `MyHttpServer`, `slot` says where `slotStart` is. It is split where another
thread can come between: the wait for a line, `exitInstance` (take the mutex, set
the status, join the threads, free the pool, reset the pointer), `~HttpServer` (stop
accepting, wait for the IO thread). A request for `/async` on the IO thread takes six
steps: `instance()` tests the pointer and returns it, and `commit()` on what was
returned looks at the status (`CommitStart`), at the counters (`CommitRoom`) and
queues the task (`CommitPush`). `instance()` may return NULL, since it reads the
pointer twice. `commit()` tests nothing but the status, so:

- on a pool whose destructor is in `stop()`, it finds STOP, starts the pool again
  (`Revived`), and the loop of `stop()` goes on to join the threads that have not seen
  STOP, the one it may have added included;
- past that loop, the thread it adds is never joined, and its object is destroyed
  with the list: the program terminates (`broken`);
- on a pool that is deleted or null the outcome is undefined (`CommitOnNone`,
  `broken`). Nothing is modelled of the program after that.

Of the pool it keeps the status, the queue, the running tasks, `cur_thread_num` and
the number of threads that have not returned: a thread that returns on STOP stays in
the counter, one that leaves on its timeout does not. `idle_thread_num` and the size
of the queue, which `commit()` compares without a mutex, are left open: it may or may
not add a thread. `HThreadPool` is the rest.

In `HThreadPool`, a client's `call[c].at` and a thread's `pc[w]` are program
counters between two accesses to shared state. Under `task_mutex` and
`thread_mutex` several accesses are one step unless someone reads one of them
without the mutex, as `wait()` reads the counters and `commit()` the size of the
queue; the size, read while another thread moves the queue, may be anything
(`QueueMoves`), and a negative `idle_thread_num` compares as a huge unsigned
number (`CommitSize`); `cur_thread_num` is read after that, in a step of its own
(`CommitRoom`). `setup` is drawn once: limits, tasks, and which calls each
client uses. `done`, `eager`, `until` and `moved` are history: the tasks that have
run, the threads that started one since `pause()`, what a `wait()` waits for, and
whether a counter moved while it compared. A thread woken without reason
(spurious wake-ups) is not modelled: the predicate is tested again, so it only
repeats `Block` and `Wait`.

Recursive loops are written as recursive functions (`RemoveDevices`, `Layout`),
never with RECURSIVE, so that every module can be proved about.

Operators named `<definition>_<what>` under a comment "Mutant" are wrong
versions of the definition that follows; `PROJECT.json` says which property each
of them breaks. No specification uses them.

## Runs

| run | shows |
|---|---|
| `device_thread` | `TypeOK`, `NoExclusiveDevices`, `StartedBeforeUse`, `NoCommandLeftBehind`, `PollIsASnapshot`, `CloseIsComplete`, `ImplementsRegistry`, for any client |
| `server_any_user` | whatever the user clicks and `cfg.ini` lists: `NoGhostDevice` (a panel that shows "open" is right), `WedgedForever`, `ImplementsWorker`, `StartupComesOnline`, `KeepsPolling`, and `StartupOrderWins`: of devices that exclude each other the one listed first is opened |
| `server_patient_user` | `PanelShowsDevice`, if the user waits for answers |
| `widget_init` | `EveryDeviceHasItsCell`, `OutOfRangeOnlyWithoutIni`, `StartupAsksForAll` |
| `device_life` | `NotSilenced`, `StopReturns`, `DeadAfterStop`, `SocketIsDrained`, `ImplementsRegistryLife`, with requests, polls, either port, a lossy network and `stop()` at any moment |
| `http_server` | `HandlersSeeRouter`, `PoolSoundWhileServing`, `OneGlobalPool`, `NoServiceAfterStop`, `EofHangsStop`, `ImplementsAsyncPool`, and, if someone keeps pressing Enter, `StopReturns`, `AsyncAnswered` |
| `thread_pool` | five uses of the pool: `CountersAgree`, `ThreadCap`, `WaitIsABarrier`, `PausePromise`, `KeepsMinimum`, `QueueIsAttended`, `ImplementsTaskPool`, `QueuedIsRun`, `StopReturns`, `WaitReturns` |
| `server_early_click` | violates `PanelShowsDevice`: a click while the startup request of the panel has no answer yet |
| `device_command` | violates `AskedWithListedCommand`: RD3000B |
| `widget_count` | violates `CountBoundsList`: no `cfg.ini` |
| `http_stop` | violates `StopEndsThread`: nobody presses Enter |
| `http_enter` | violates `EnterStops`: Enter is pressed, and a late `commit()` restarts the pool that is joined |

The type invariants of `MyHttpServer`, `HThreadPool` and the GUI are parts of the
inductive invariants below and proved for every instance, so no run repeats them.

Findings: (1) an `RD3000B` is polled with the weather station's command
(`ashuerdevive.cpp:130`); (2) a click on a panel whose last request, the one of
the startup for instance, is still unanswered asks for the same once more; the
refusal is shown after the success and leaves a device online
that its panel shows closed, and `WedgedForever` shows that no later click can
close it, because the button then only asks to open it and `slotAddDev` refuses;
(3) without `cfg.ini` the uninitialised `m_HuaYunDevCount` bounds the loops over
an empty list; (4) `MyHttpServer::stop` does not end its thread: `slotStart` waits
in `getchar()` inside the event loop, so `quit()` is not seen and the GUI blocks
in `wait()` until someone presses Enter, or for ever when the console is at its
end (`EofHangsStop`, proved as `StopHangsForGood`); (5) even with Enter pressed
`slotStart` may not end: `cleanup()` runs while the server still accepts, and an
`/async` request that comes to `commit()` at that moment sets the pool RUNNING again
(`hthreadpool.h:129`), so a thread that `stop()` joins never sees STOP
(`EnterStops`).

Some of what the runs show is weaker than one would like, and is stated as it is:

- `wait()` may return early if a thread is added or leaves between its two reads
  (`WaitIsABarrier` excepts `moved`). A thread that
  takes or ends a task in between cannot fool it.
- `max_thread_num` may be exceeded by the number of clients less one (`ThreadCap`).
- `pause()` and `resume()` test the status and set it in two steps, so they may
  overwrite the STOP of a `stop()` in between; then `stop()` waits for threads that
  never see it. `StopReturns` and `QueuedIsRun` except that case by name.
- For the same reason `KeepsMinimum` and `QueueIsAttended` are about pools that no
  client resumes (`NobodyResumes`): a `resume()` over a STOP makes a pool look
  running whose threads have been joined.
- With `min_thread_num = 0` the last thread may leave while a task is committed, as
  `commit()` has counted it as idle; nobody takes the task until the next
  `commit()`. `QueueIsAttended` is about pools with a least number of threads, as
  `hv::async` makes them.
- `stop()` of the device facade closes the devices that are open without an answer
  (`RegistryLife` has a step of its own for it): who asked for them is not told.
- A thread about to wait may miss the `notify_all` of `stop()`, which does not hold
  `task_mutex`. Its timeout wakes it; `Timeout_Never` shows that `StopReturns`
  rests on it.
- `stop()` of the HTTP facade returns when Enter is pressed unless a late `commit()`
  has restarted the pool (`[]Revived`) or broken the program (`StopReturns`). Those
  are the only ways: a `Revived` pool whose thread has returned nevertheless, because
  it had seen STOP, is joined like any other. `OneGlobalPool` and
  `ImplementsAsyncPool` hold through all of it, and `PoolSoundWhileServing` says how
  far the harm goes: the program does not break before the threads of the pool are
  let go of, and a slot that waits for its line has a pool no cleanup has touched.
- `cleanup` before `~HttpServer` discards the queued `/async` requests
  (`AsyncAnswered` excepts it). The result of `server.start()` is not looked at, so
  the slot may wait for a line with no server up.
- After `stop()` neither facade can be started again to any effect: `m_work` is
  deleted with its thread (`DeadAfterStop`, `NoServiceAfterStop`).

### Bounds

- `DevNames` in `device_thread`: two road sensors that exclude each other (so a
  list may hold a device that blocks another of a different type), one device of
  each other category (so the list reaches its greatest length, three, and a
  removal has a device after it to skip), and the invalid name `"-1"` that
  `initCfg` uses for a missing entry.
- `MaxRequests`: requests queued plus answers queued. Two or three are enough
  for a request to be made while another is queued and a third answer is on its
  way. `MaxPolls`: one queued poll beside a poll in progress shows every overlap
  (the timer is active or it is not); the server runs use two.
- `Configs`: two compatible devices, two that exclude each other, a duplicate, a
  missing entry, none.
- `WidgetInit`: counts on both sides of each multiple of four up to four rows,
  and negative ones; garbage values negative, zero and positive.

- `device_life`: a weather station and a road sensor; one request and one poll
  queued, so that `stop()` meets a busy thread; two answers on their way and a
  socket that holds two, so that they can be reordered, doubled and dropped; two
  calls of `start()`, the second after the thread's end.
- `http_server`: two `/async` requests against a pool of at most two threads, so
  that a request may queue, a thread may be added to a pool in its cleanup beside one
  that is leaving, and a thread may leave on its timeout; two calls of `start()`, so that the second meets what the first cleanup
  left; three pools, one more than `start()` needs, for the one a late request makes.
  `http_enter` needs one thread and one `start()`, `http_stop` no request at all.
- `thread_pool`: two clients, two tasks, four thread objects (two more than the
  largest limit, for threads that have left and are not yet joined). The setups are
  a pool that grows and is waited for, one that is paused, resumed and stopped, one
  thread shared by two clients, one stopped while waited for, two threads started
  by two clients at once. Deadlock is not checked there: when the tasks are done
  and the pool is stopped, its program has ended.

The bounds are guards of the environment (who emits), never of a slot.

### Fairness

`FairSpec` of `UtisDeviceServer` assumes weak fairness of the GUI's startup
steps, of its result handler and poll timer, of the worker's slots and of the
worker's timer: both threads run Qt event loops that deliver posted events and
fire active timers. Nothing is assumed of the user. `UtisDevice` assumes the same
of the device thread, its socket and its end, and that a `wait()` that can return
does; nothing of the network. `Thread` and `Read` are fair each: Qt's event loop
serves sockets and posted events in turn, and a slot that has begun goes on. That the
loop of `slotReadyRead` ends is not assumed: it could go on for as long as datagrams
arrive, and ends because the thread that reads is the one that asks. `MyHttpServer` assumes that the HTTP thread, the
IO thread inside a handler and the threads of the pool, taken together, go on; `AttendedSpec` adds that someone presses Enter again and again,
which the code does not provide, and `http_stop` is the run without it.
`HThreadPool` assumes weak fairness of a client inside a call and strong fairness
of each pool thread: the mutex it needs is taken by others again and again, and a
scheduler that starves no thread gives it its turn. No client has to begin a call. `WidgetInit` assumes only
that the constructor keeps running.

### Environment assumptions

`PatientUser` says that the user does not click a panel whose last request is
unanswered. The code does not enforce it; the run without it is a finding.

The clients of `HThreadPool` do not call `stop()` together with `start()`,
`commit()` or another `stop()`: `stop()` walks `threads` without `thread_mutex`, a
data race with no defined outcome. The cleanup of the HTTP server breaks that rule;
`MyHttpServer` models what follows by the status and the number of threads, as if the
list itself stayed whole. `Widget` starts each facade once; the models let a client
start the device facade again only after its thread has ended.

## Proofs

All proofs hold for every set of device names, every bound, every list of
configured devices and every user (but for `PanelShowsDevice`, see below), and every
count in `cfg.ini`; for every number of requests, pools and
starts; for every set of clients, tasks and thread objects and every limit of the
pool. They use the named assumptions on the constants at most (`NamesAssumption`,
`BoundsAssumption`, `ConfigsAssumption`, `NetAssumption`, `SetupsAssumption`, ...),
which TLC evaluates in the runs.

- `UtisDeviceWorker_proofs`. The loop of `slotDelDev` is a recursive function over
  its passes. `RemoveDevicesByWitness` shows that any function that satisfies
  the loop's equation has the loop's result: existence from the witness,
  uniqueness from the least pass at which two solutions would differ
  (`LeastNat`, from the well-foundedness of `<`). `RemoveDevicesNone` and
  `RemoveDevicesOne` give the witness for a list without the device and for a
  list with it once.

  `IndInv` is `TypeOK`, `NoExclusiveDevices`,
  `NoCommandLeftBehind` and `StartComesFirst`. The last is needed for
  `StartedBeforeUse`: between `start()` and `slotStart` the start event is at
  the head of the queue, and there is never a second one. `NoExclusiveDevices`
  is needed for the type of the list after `slotDelDev` and for the bound of
  three on `m_cmdList` (`AtMostThreeDevices`: one device per category).
  `CloseIsComplete` holds only because of it: a name occurs once
  (`NameOccursOnce`), so the device the loop skips is never one it looks for.
- `DeviceRegistry_proofs`. `WorkerImplementsRegistry`: an accepted add takes a
  free slot (`AddTakesSlot`), a removal frees the slot of its device
  (`RemoveFreesSlot`), any other step stutters or takes an answer.
- `UtisDeviceServer_proofs`. Each step of the program is a step of the worker or
  of a client it allows for (`ClientStep`), so `IndInv` holds here too.
  `NoGhostDevice` is then inductive: seen as a function of the results on their
  way (`WillShow`), what a panel will show changes only when an answer for its
  name is queued, which is when the list changes (`LastAnswerShown`,
  `OtherAnswerShown`), and not when an answer is shown (`FirstAnswerShown`).
  `WedgedForever` needs besides that panels of one name show the same
  (`SameNameSameState`): otherwise the other panel of a duplicate entry could
  still ask to close the device. `PanelsTellTheTruth` proves `PanelShowsDevice`
  under two hypotheses, each needed (`server_early_click` shows the first): the
  user is patient and no name occurs twice in `cfg.ini`. Its invariant `Tidy` says
  of each panel that at most one request or answer of it is under way, that the
  request asks for the opposite of what the panel shows, and that the answer tells
  what is online; `InvalidIsQuiet` deals with names that are no device.
  `FirstListedWins` proves `StartupOrderWins`: as long as nobody closes a device,
  the first device of its category in `cfg.ini` is online or its request waits, and
  no rival is online (`StartupInv`). The order of the queue is what makes it
  inductive: a rival the user asks for, or one listed later, is behind it.
- `WidgetInit_proofs`. The outer loop of `initCfg` is a recursive function too, and
  determined by a witness in the same way (`LayoutByWitness`): row i begins with
  device 4i, or with none (`LayoutIsRowByRow`); the rows suffice for every count,
  with the division of C++ (`RowsSuffice`). `EveryDeviceAsked`: with `cfg.ini` the
  second loop has asked for each panel's device when the constructor ends
  (`AskedInOrder`). `OutOfRangeOnlyWithoutIni` follows
  because with `cfg.ini` the count and the list come from the same number.
- `UtisDevice_proofs`. `LifeInv`: the start event is the first of the queue and
  posted once per worker, and without `m_work` nothing is left; `FacadeDeadAfterStop`
  then follows because that is stable. `SocketIsAttended` proves `NotSilenced`, which
  is not inductive: that a `readyRead` still unanswered by a read (`silent`) belongs to
  a loop that has a datagram to read (`SocketState`) needs besides that a socket
  without a port holds nothing and is not being read. `WorkerInv` is the worker's
  `IndInv` where there may be no worker: while `m_work` lives, every step but the
  thread's end is one that `UtisDeviceWorker` knows (`StepOfWorker`), so its lemmas
  are used again; the end leaves nothing to be wrong. This gives
  `PromisesOutliveStop`, for `stop()` at any moment and any number of `start()`s,
  and `FacadeIsARegistry`: the end maps to `Shutdown`, and after it answers are
  taken and nothing else happens.
- `MyHttpServer_proofs`. `IInv` has one conjunct per pair of threads: the server is
  up only inside the slot (`ServerInSlot`), the slot runs only while the worker and
  its thread live (`WorkerLife`), `s_pInstance`, the live pool and the destructor
  agree but for the steps of `exitInstance` (`PoolState`), what a handler got
  from `instance()` is the global pool until that is deleted (`HandlerState`), the
  threads of a pool cover what it runs, and none is left when the loop of `stop()` is
  past unless the program is broken (`StaffState`), and so a deleted pool holds
  nothing (`DeadPoolsIdle`). The handler's part needs the order
  of `slotStart`: `~HttpServer` waits for the IO thread, so no handler of one
  `start()` is left for the next. `OnePoolAfterTheOther` is the refinement: whatever
  pools come and go, or are restarted in their cleanup, the requests are those of one `TaskPool` (`LossySpec`), with
  `PoolDeleted` as `Discard`, which needs that nothing runs then (`JoinedIdle`); it needs `OneRequest`, that a request is with one
  handler, in the queue, running or answered. `OnePoolPerStart` counts the pools
  made against the calls of `start()`, from which `PoolsSuffice`: the bound on pools
  never keeps a handler waiting, so it hides no behaviour.
- `HThreadPool_proofs`. Each action has a lemma on what it does to its client's
  record (`...Effect`), each conjunct of `PoolInv` a lemma with one step per action
  (`...Step`). `CountersAgree` needs that `thread_mutex` admits one (`OneAtATime`)
  and that, when `stop()` resets the counters, every thread that works has been
  listed and joined (`StopAlone`, `Listed`). `ThreadCap` counts the clients between
  test and increment.
- `HThreadPoolTasks_proofs`. `OnePlace` says that a task is in one place, with its
  client, in the queue, with one thread, or done. From it `SimulationStep` shows
  that every step is one of `TaskPool` or a stutter, and so `NoTaskLost`. The
  barrier needs `Found`, what a client inside `wait()` knows after each of its
  reads: with no thread being counted in or out, equal counters mean that no thread
  is busy (`BusyCounted`). `PauseIsKept` needs that a thread that has started a
  task since `pause()` is at the gate or before it (`EagerState`).

  `StaffInv` is about the threads. `Staffed`, that the count is at its least number
  or a client inside `start()` will still bring it there, is what `PoolIsStaffed`
  says of the counter; `LiveCount` says that the counter is the number of threads,
  and `Spare` that a thread that has decided to leave, and holds `task_mutex`
  (`Held`), was one too many, which stays true as others can only add. `SomeAwake`
  is what `TasksAreAttended` needs: where a task is queued and a thread sleeps,
  another is awake or a `notify_one` is to come; a thread between its test and its
  sleep is no exception because it holds the mutex (`Held`). `Up` and `RunsAlone`
  keep calls and status together, `EmptyWhenStopped` is `StopLeavesNoThread`, which
  holds for clients that resume as well.

Only model-checked: the liveness properties (`StartupComesOnline`, `KeepsPolling`,
`StartupAsksForAll`, `StopReturns`, `SocketIsDrained`, `AsyncAnswered`, `QueuedIsRun`,
`WaitReturns`), as the backends of TLAPS used for the proofs do not reason about
fairness or ENABLED. Safety facts that some of them rest on are proved: which
devices come online at startup, if any (`FirstListedWins`), that all are asked for when the constructor
ends (`EveryDeviceAsked`), that a queued task has a thread that will look at it
(`TasksAreAttended`), that `stop()` of the pool leaves no thread
(`StopLeavesNoThread`). Induction over data is out of reach too, which is why the
two loops are determined by witnesses. `StopEndsThread`, `CountBoundsList`,
`EnterStops`, `AskedWithListedCommand` and the unconditional `PanelShowsDevice` are false.

That what `hv::async` does with a request is the same in `MyHttpServer` and in
`HThreadPool` is shown by the abstraction they share: both implement `TaskPool`, the
second without loss. The steps of `commit()` and of a thread's end in `MyHttpServer`
are those of `HThreadPool` with the mutexes and the idle counter left out. `MyHttpServer` is not composed with `HThreadPool` step by step.

## Not modelled

- `parseData` and `initWeatherData`: nothing calls them. What a datagram says:
  nothing reads `m_dataGram`.
- What the routes answer (constants, or an echo of the request).
- libhv beyond the pool and its singleton: the HTTP server and the event loops are
  in the binary `hv.dll` and modelled only by how `slotStart` uses them. Most of
  `include/` is declarations of it or code this program does not use; `json.hpp`
  alone is two thirds of the repository's lines. The share of lines the map covers
  is small for that reason.
- `signalLatestDataReady` (no receiver), messages to the history box, labels, the
  two info buttons.
- `Widget::slotAddDevResult` and `AShuErDevive::isExclusion` have no caller; the
  second is modelled because it states what excluding means.
- Pixel positions of panels: only row and column (from the fourth row on panels
  cover the history box of the form).
- A second `start()` while a facade runs, and what becomes of the pool's list when
  `stop()` walks it while others change it: see the environment assumptions.
- `main.cpp`, the form, the project files: construction and layout.

## Plan

1. Done: device table, device thread with its registry, GUI composition,
   startup; the end of the device thread and UDP reception; the HTTP thread; the
   thread pool. Proofs about all of them.
2. Done: the thread pool's staffing and its end, the refinement of `TaskPool` by the
   HTTP server, the registry through the end of its thread, the order at startup.
3. `MyHttpServer` over `HThreadPool` itself, in place of the pool's queue; the safety
   cores of the liveness properties of the device thread's end and of the socket.

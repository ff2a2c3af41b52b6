----------------------------- MODULE UtisDevice -----------------------------
(***************************************************************************)
(* The device thread from its start to its end, with its socket: what      *)
(* UtisDeviceWorker leaves out.  The facade can be stopped and started     *)
(* again; m_work dies with the thread.  The commands sent are answered by  *)
(* datagrams, which the network may lose, duplicate, delay and reorder,    *)
(* and which slotReadyRead collects in m_dataGram, one by one, while more  *)
(* come in.  bind() may have failed without anyone noticing; then the      *)
(* socket has no port until it sends its first command.                    *)
(***************************************************************************)
EXTENDS UtisDeviceWorker

CONSTANTS
    MaxStarts,    \* bound: calls of utisDevice::start
    MaxNet,       \* bound: answers on their way
    MaxPending    \* datagrams the socket holds before it drops the next

ASSUME NetAssumption ==
    MaxStarts \in Nat /\ MaxNet \in Nat /\ MaxPending \in Nat \ {0}

VARIABLES
    caller,       \* the client's thread: "free", or "stop" inside stop()
    starts,       \* calls of start(), for the bound
    quit,         \* quit() was called since the thread started
    work,         \* m_work has not been deleted
    port,         \* of m_udpClient: "none", "local" (m_localPort) or "other", one that
                  \* the system chose
    silent,       \* readyRead was emitted and nothing has been read since: Qt does
                  \* not emit it again
    reading,      \* the thread is in the loop of slotReadyRead
    net,          \* answers on their way, with the port they are sent to
    pending,      \* datagrams the socket has received
    dataGram      \* m_dataGram, as the answers it is made of

lifeVars == <<caller, starts, quit, work>>
sockVars == <<port, silent, reading, pending, dataGram>>
udpVars  == <<sockVars, net>>
vars == <<running, inbox, started, onlineDev, cmdList, timerActive, outbox,
          caller, starts, quit, work, port, silent, reading, net, pending, dataGram>>

\* An answer goes to the port its command came from, or to m_localPort in any case.
AnswerPorts(source) == {source, "local"}

-----------------------------------------------------------------------------
(* The facade.                                                             *)

\* utisDevice::start: signalStart reaches m_work while there is one.
Start ==
    /\ caller = "free"
    /\ starts < MaxStarts
    /\ starts' = starts + 1
    /\ quit' = FALSE
    /\ \/ work /\ FacadeStart
       \/ /\ ~work /\ ~running
          /\ running' = TRUE
          /\ UNCHANGED <<inbox, started, deviceVars, outbox>>
    /\ UNCHANGED <<caller, work, udpVars>>

\* The signals of the facade, with m_work to receive them.
Request ==
    /\ caller = "free"
    /\ work
    /\ \/ \E n \in DevNames : EmitRequest("signalAddDev", n)
       \/ \E n \in DevNames : EmitRequest("signalDelDev", n)
       \/ EmitPoll
    /\ UNCHANGED <<lifeVars, udpVars>>

Answer == caller = "free" /\ TakeResult /\ UNCHANGED <<lifeVars, udpVars>>

\* utisDevice::stop and ~utisDevice: quit(), then wait() ...
StopCall ==
    /\ caller = "free"
    /\ caller' = "stop"
    /\ quit' = TRUE
    /\ UNCHANGED <<workerVars, starts, work, udpVars>>

\* ... which returns when the thread does not run, or no longer.
StopReturn ==
    /\ caller = "stop"
    /\ ~running
    /\ caller' = "free"
    /\ UNCHANGED <<workerVars, starts, quit, work, udpVars>>

-----------------------------------------------------------------------------
(* The worker's thread.                                                    *)

\* The end of the socket.
Closed == port' = "none" /\ silent' = FALSE /\ pending' = <<>> /\ dataGram' = <<>>

\* Mutant: the socket has no parent, so it stays open.
Finish_LeaksSocket ==
    /\ running /\ ~reading
    /\ quit
    /\ running' = FALSE
    /\ work' = FALSE
    /\ started' = FALSE
    /\ inbox' = <<>>
    /\ onlineDev' = <<>> /\ cmdList' = <<>> /\ timerActive' = FALSE
    /\ pending' = <<>> /\ dataGram' = <<>> /\ silent' = FALSE
    /\ UNCHANGED <<outbox, caller, starts, quit, port, reading, net>>

\* Mutant: the answers still to be taken go with the worker.
Finish_DropsAnswers ==
    /\ running /\ ~reading
    /\ quit
    /\ running' = FALSE
    /\ work' = FALSE
    /\ started' = FALSE
    /\ inbox' = <<>> /\ outbox' = <<>>
    /\ onlineDev' = <<>> /\ cmdList' = <<>> /\ timerActive' = FALSE
    /\ Closed
    /\ UNCHANGED <<caller, starts, quit, reading, net>>

\* The event loop sees quit between two events.  finished deletes m_work, with
\* its events, devices, timer and socket; results already posted stay posted.
Finish ==
    /\ running /\ ~reading
    /\ quit
    /\ running' = FALSE
    /\ work' = FALSE
    /\ started' = FALSE
    /\ inbox' = <<>>
    /\ onlineDev' = <<>> /\ cmdList' = <<>> /\ timerActive' = FALSE
    /\ Closed
    /\ UNCHANGED <<outbox, caller, starts, quit, reading, net>>

\* slotStart: the socket is created; what bind() returns is not looked at.
OpenSocket ==
    /\ SlotStart /\ ~reading
    /\ port' \in {"local", "none"}
    /\ UNCHANGED <<lifeVars, silent, reading, net, pending, dataGram>>

DeviceSlot ==
    /\ SlotAddDev \/ SlotDelDev
    /\ ~reading
    /\ UNCHANGED <<lifeVars, udpVars>>

\* slotGetLatestData
PollSlot == SlotGetLatestData /\ ~reading /\ UNCHANGED <<lifeVars, udpVars>>

\* The timer sends a command.  writeDatagram binds a socket that has no port, and
\* sends nothing if that fails.  The device answers or not, and the network may
\* deliver the answer twice.
Ask ==
    /\ SendCommand /\ ~reading
    /\ IF port = "none" THEN port' \in {"other", "none"} ELSE UNCHANGED port
    /\ \/ UNCHANGED net
       \/ /\ port' # "none"
          /\ \E to \in AnswerPorts(port'), copies \in 1..2 :
                /\ Len(net) + copies <= MaxNet
                /\ net' = net \o [i \in 1..copies |-> [answer |-> Head(cmdList), to |-> to]]
    /\ UNCHANGED <<lifeVars, silent, reading, pending, dataGram>>

PollEnds == LatestDataReady /\ ~reading /\ UNCHANGED <<lifeVars, udpVars>>

\* Mutant: without a device online the slot returns at once.
SlotReadyRead_NobodyOnline ==
    /\ running /\ ~reading
    /\ pending # <<>> /\ ~silent
    /\ silent' = TRUE
    /\ reading' = (onlineDev # <<>>)
    /\ dataGram' = <<>>
    /\ UNCHANGED <<workerVars, lifeVars, port, net, pending>>

\* readyRead, and slotReadyRead up to its loop: m_dataGram is cleared.
SlotReadyRead ==
    /\ running /\ ~reading
    /\ pending # <<>> /\ ~silent
    /\ silent' = TRUE
    /\ reading' = TRUE
    /\ dataGram' = <<>>
    /\ UNCHANGED <<workerVars, lifeVars, port, net, pending>>

\* Mutant: what is not an answer of a device that is online is skipped, before it is
\* read.
ReadDatagram_OnlineOnly ==
    /\ reading
    /\ pending # <<>>
    /\ \E i \in 1..Len(onlineDev) : onlineDev[i].cmd = Head(pending)
    /\ dataGram' = Append(dataGram, Head(pending))
    /\ pending' = Tail(pending)
    /\ silent' = FALSE
    /\ UNCHANGED <<workerVars, lifeVars, port, reading, net>>

\* One turn of the loop: readDatagram takes the first datagram, and lets readyRead be
\* emitted again.
ReadDatagram ==
    /\ reading
    /\ pending # <<>>
    /\ dataGram' = Append(dataGram, Head(pending))
    /\ pending' = Tail(pending)
    /\ silent' = FALSE
    /\ UNCHANGED <<workerVars, lifeVars, port, reading, net>>

\* The loop ends when hasPendingDatagrams() finds nothing more.
ReadEnd ==
    /\ reading
    /\ pending = <<>>
    /\ reading' = FALSE
    /\ UNCHANGED <<workerVars, lifeVars, port, silent, net, pending, dataGram>>

-----------------------------------------------------------------------------
(* The network: any answer on its way arrives next, and it may find its     *)
(* port closed or the socket full.                                          *)
Arrive(i) ==
    /\ pending' = IF port = net[i].to /\ port # "none" /\ Len(pending) < MaxPending
                  THEN Append(pending, net[i].answer) ELSE pending
    /\ net' = RemoveAt(net, i)
    /\ UNCHANGED <<workerVars, lifeVars, port, silent, reading, dataGram>>

Lose(i) ==
    /\ net' = RemoveAt(net, i)
    /\ UNCHANGED <<workerVars, lifeVars, sockVars>>

-----------------------------------------------------------------------------
Init ==
    /\ WorkerInit
    /\ caller = "free"
    /\ starts = 0
    /\ quit = FALSE
    /\ work = TRUE
    /\ port = "none"
    /\ silent = FALSE /\ reading = FALSE
    /\ net = <<>> /\ pending = <<>> /\ dataGram = <<>>

Facade == Start \/ Request \/ Answer \/ StopCall \/ StopReturn
Thread == OpenSocket \/ DeviceSlot \/ PollSlot \/ Ask \/ PollEnds \/ Finish
Read   == SlotReadyRead \/ ReadDatagram \/ ReadEnd
Network == \E i \in 1..Len(net) : Arrive(i) \/ Lose(i)

Next == Facade \/ Thread \/ Read \/ Network

Spec == Init /\ [][Next]_vars

\* The event loop serves its events, its socket and its end, a slot goes on, and a
\* stop() that can return does.
FairSpec ==
    /\ Spec
    /\ WF_vars(Thread) /\ WF_vars(Finish) /\ WF_vars(Read)
    /\ WF_vars(StopReturn)

-----------------------------------------------------------------------------
(* Properties.                                                             *)

\* stop() always returns: no slot of the worker holds it for ever, not even the loop
\* that reads for as long as datagrams come, so its event loop gets to see quit,
\* whatever is queued (utisDevice.cpp:31-35, utisDeviceWorker.cpp:101).
StopReturns == (caller = "stop") ~> (caller = "free")

\* After the thread has ended the facade is dead for good: m_work went with the
\* thread, so a new start() runs a thread without a worker; the port is released,
\* no device is online and no request waits (utisDevice.cpp:10).
DeadAfterStop ==
    [](~work => [](/\ onlineDev = <<>> /\ inbox = <<>> /\ ~started
                   /\ port = "none" /\ pending = <<>>))

\* The socket is never silenced over a datagram: while Qt does not emit readyRead,
\* because the last one has not led to a read, slotReadyRead is there to read, whenever
\* the datagrams came in (utisDeviceWorker.cpp:97-107).
NotSilenced == pending # <<>> /\ silent => reading

\* The socket is emptied again and again: slotReadyRead comes to its end although more
\* datagrams come while it reads, since the thread that reads is the one that asks; and
\* what comes after its end is announced (utisDeviceWorker.cpp:97-107).
SocketIsDrained == (pending # <<>>) ~> (pending = <<>> /\ ~reading)

RegistryLife ==
    \/ work  /\ work'  /\ Registry!RegistryNext
    \/ work  /\ ~work' /\ Registry!Shutdown
    \/ ~work /\ ~work' /\ Registry!Take

\* Through stop() and start() the facade is the registry of DeviceRegistry until
\* its worker dies.  Then every device is closed and no answer says so: what the
\* client has not taken yet are the answers of before, and it takes nothing else
\* ever after, although start() may be called again (utisDevice.cpp:10,25-35).
ImplementsRegistryLife ==
    Registry!RegistryInit /\ [][RegistryLife]_<<Registry!registryVars, work>>

=============================================================================

-------------------------- MODULE UtisDeviceWorker --------------------------
(***************************************************************************)
(* The device thread: utisDevice (the facade that lives in the GUI thread) *)
(* and utisDeviceWorker (the object moved to m_workerThread).  A signal of *)
(* the facade is posted to the worker's event queue and handled there in   *)
(* order, one whole slot at a time; the worker's m_timer fires between two *)
(* slots; a result signal of the worker is posted back to the GUI thread.  *)
(*                                                                         *)
(* Here the GUI thread is any client of the facade.  UtisDeviceServer puts *)
(* the real one, Widget, in its place.                                     *)
(***************************************************************************)
EXTENDS AShuErDevive, Sequences, SequencesExt

CONSTANTS
    DevNames,     \* the device names clients pass: valid or not
    MaxRequests,  \* bound: add/delete requests in flight, both directions
    MaxPolls      \* bound: poll requests in the worker's queue

ASSUME NamesAssumption == DevNames \subseteq STRING
ASSUME BoundsAssumption == MaxRequests \in Nat /\ MaxPolls \in Nat

VARIABLES
    running,      \* m_workerThread has been started by utisDevice::start
    inbox,        \* events posted to the worker's thread, oldest first
    started,      \* slotStart has created m_udpClient and m_timer
    onlineDev,    \* m_onlineDev
    cmdList,      \* m_cmdList
    timerActive,  \* m_timer->isActive()
    outbox        \* signalAddDevResult events posted to the GUI thread

deviceVars == <<onlineDev, cmdList, timerActive>>
workerVars == <<running, inbox, started, onlineDev, cmdList, timerActive, outbox>>

NoDev == "-"
Signals == {"signalStart", "signalAddDev", "signalDelDev", "signalGetLatestData"}
Event   == [sig : Signals, dev : DevNames \cup {NoDev}]
Result  == [devType : DevNames, success : BOOLEAN]
Device  == {NewDevice(n) : n \in {m \in DevNames : isvalid(m)}}

IsRequest(e) == e.sig \in {"signalAddDev", "signalDelDev"}
IsPoll(e)    == e.sig = "signalGetLatestData"
Requests     == Len(SelectSeq(inbox, IsRequest)) + Len(outbox)
Polls        == Len(SelectSeq(inbox, IsPoll))

-----------------------------------------------------------------------------
(* The facade, called in the client's thread.                              *)

\* A queued emit: the event goes to the end of the receiver's queue.
Emit(sig, dev) == inbox' = Append(inbox, [sig |-> sig, dev |-> dev])

\* Mutant: start() does not emit signalStart.
FacadeStart_NoSignal ==
    /\ ~running
    /\ running' = TRUE
    /\ UNCHANGED <<inbox, started, deviceVars, outbox>>

\* utisDevice::start
FacadeStart ==
    /\ ~running
    /\ running' = TRUE
    /\ Emit("signalStart", NoDev)
    /\ UNCHANGED <<started, deviceVars, outbox>>

\* A client emits signalAddDev or signalDelDev.
EmitRequest(sig, n) ==
    /\ running
    /\ Requests < MaxRequests
    /\ Emit(sig, n)
    /\ UNCHANGED <<running, started, deviceVars, outbox>>

\* A client emits signalGetLatestData.
EmitPoll ==
    /\ running
    /\ Polls < MaxPolls
    /\ Emit("signalGetLatestData", NoDev)
    /\ UNCHANGED <<running, started, deviceVars, outbox>>

\* The client's event loop takes the next result.
TakeResult ==
    /\ outbox # <<>>
    /\ outbox' = Tail(outbox)
    /\ UNCHANGED <<running, inbox, started, deviceVars>>

-----------------------------------------------------------------------------
(* The worker's slots.                                                     *)

Handling(sig) ==
    /\ running
    /\ inbox # <<>>
    /\ Head(inbox).sig = sig
    /\ inbox' = Tail(inbox)
    /\ UNCHANGED running

Reply(n, success) == [devType |-> n, success |-> success]

\* slotStart: initUdpClient, initTimer
SlotStart ==
    /\ Handling("signalStart")
    /\ started' = TRUE
    /\ timerActive' = FALSE
    /\ UNCHANGED <<onlineDev, cmdList, outbox>>

\* Mutant: the categories are not compared.
allow2Create_TypeOnly(dev) ==
    \A i \in 1..Len(onlineDev) : onlineDev[i].devType # dev.devType

\* Mutant: nothing is compared.
allow2Create_Always(dev) == TRUE

\* allow2Create
allow2Create(dev) ==
    \A i \in 1..Len(onlineDev) :
        ~ \/ onlineDev[i].devType = dev.devType
          \/ onlineDev[i].devCategory = dev.devCategory

\* Mutant: the early return for an invalid name is missing.
SlotAddDev_Unchecked ==
    /\ Handling("signalAddDev")
    /\ LET n   == Head(inbox).dev
           dev == NewDevice(n)
       IN  /\ outbox' = Append(outbox, Reply(n, allow2Create(dev)))
           /\ onlineDev' = IF allow2Create(dev) THEN Append(onlineDev, dev)
                                                ELSE onlineDev
    /\ UNCHANGED <<started, cmdList, timerActive>>

\* slotAddDev
SlotAddDev ==
    /\ Handling("signalAddDev")
    /\ LET n   == Head(inbox).dev
           dev == NewDevice(n)
       IN  \/ /\ ~isvalid(n)
              /\ UNCHANGED <<onlineDev, outbox>>
           \/ /\ isvalid(n)
              /\ allow2Create(dev)
              /\ outbox' = Append(outbox, Reply(n, TRUE))
              /\ onlineDev' = Append(onlineDev, dev)
           \/ /\ isvalid(n)
              /\ ~allow2Create(dev)
              /\ outbox' = Append(outbox, Reply(n, FALSE))
              /\ UNCHANGED onlineDev
    /\ UNCHANGED <<started, cmdList, timerActive>>

(* The loop of slotDelDev over m_onlineDev.  Pass i looks at the i-th       *)
(* device of what the earlier passes left; a removal moves the next device  *)
(* into the place the loop has just left, so that device is not looked at.  *)
RemoveDevices(list, n) ==
    LET pass[i \in 0..Len(list)] ==
            IF i = 0 THEN list
            ELSE IF i <= Len(pass[i-1]) /\ pass[i-1][i].devTypeStr = n
                 THEN RemoveAt(pass[i-1], i)
                 ELSE pass[i-1]
    IN  pass[Len(list)]

\* Mutant: slotDelDev removes the device without emitting signalAddDevResult.
SlotDelDev_Silent ==
    /\ Handling("signalDelDev")
    /\ onlineDev' = RemoveDevices(onlineDev, Head(inbox).dev)
    /\ UNCHANGED <<started, cmdList, timerActive, outbox>>

\* slotDelDev: one result for each device the loop removes.
SlotDelDev ==
    /\ Handling("signalDelDev")
    /\ LET n == Head(inbox).dev
       IN  \/ /\ ~isvalid(n)
              /\ UNCHANGED <<onlineDev, outbox>>
           \/ /\ isvalid(n)
              /\ onlineDev' = RemoveDevices(onlineDev, n)
              /\ outbox' = outbox \o
                     [i \in 1..(Len(onlineDev) - Len(onlineDev')) |-> Reply(n, FALSE)]
    /\ UNCHANGED <<started, cmdList, timerActive>>

\* getLatestData, for the devices of the list, in order.
ReadCommands == [i \in 1..Len(onlineDev) |-> onlineDev[i].cmd]

\* Mutant: getLatestData does not ask whether the timer is active.
SlotGetLatestData_NoCheck ==
    /\ Handling("signalGetLatestData")
    /\ cmdList' = cmdList \o ReadCommands
    /\ timerActive' = TRUE
    /\ UNCHANGED <<started, onlineDev, outbox>>

\* slotGetLatestData, getLatestData: dropped while the previous poll is sent.
SlotGetLatestData ==
    /\ Handling("signalGetLatestData")
    /\ \/ /\ timerActive
          /\ UNCHANGED <<cmdList, timerActive>>
       \/ /\ ~timerActive
          /\ cmdList' = cmdList \o ReadCommands
          /\ timerActive' = TRUE
    /\ UNCHANGED <<started, onlineDev, outbox>>

\* The timeout of m_timer: send the next command, ...
SendCommand ==
    /\ timerActive
    /\ started /\ cmdList # <<>>
    /\ cmdList' = Tail(cmdList)
    /\ UNCHANGED <<running, inbox, started, onlineDev, timerActive, outbox>>

\* Mutant: the timer stops one command early.
LatestDataReady_Early ==
    /\ timerActive
    /\ ~(started /\ Len(cmdList) > 1)
    /\ timerActive' = FALSE
    /\ UNCHANGED <<running, inbox, started, onlineDev, cmdList, outbox>>

\* Mutant: the timer is not stopped when the commands are sent.
LatestDataReady_KeepsTimer ==
    /\ timerActive
    /\ ~(started /\ cmdList # <<>>)
    /\ UNCHANGED workerVars

\* ... or, when none is left, stop and emit signalLatestDataReady.
LatestDataReady ==
    /\ timerActive
    /\ ~(started /\ cmdList # <<>>)
    /\ timerActive' = FALSE
    /\ UNCHANGED <<running, inbox, started, onlineDev, cmdList, outbox>>

-----------------------------------------------------------------------------
WorkerInit ==
    /\ running = FALSE
    /\ inbox = <<>>
    /\ started = FALSE
    /\ onlineDev = <<>>
    /\ cmdList = <<>>
    /\ timerActive = FALSE
    /\ outbox = <<>>

Slot == SlotStart \/ SlotAddDev \/ SlotDelDev \/ SlotGetLatestData

TimerTimeout == SendCommand \/ LatestDataReady

Client ==
    \/ FacadeStart
    \/ \E n \in DevNames : EmitRequest("signalAddDev", n)
    \/ \E n \in DevNames : EmitRequest("signalDelDev", n)
    \/ EmitPoll
    \/ TakeResult

WorkerNext == Client \/ Slot \/ TimerTimeout

WorkerSpec == WorkerInit /\ [][WorkerNext]_workerVars

-----------------------------------------------------------------------------
(* Safety.                                                                 *)

\* Every variable has its type; the list holds objects of valid names only,
\* each with the type, category and command the constructor computes.
TypeOK ==
    /\ running \in BOOLEAN
    /\ inbox \in Seq(Event)
    /\ started \in BOOLEAN
    /\ onlineDev \in Seq(Device)
    /\ cmdList \in Seq(Commands)
    /\ timerActive \in BOOLEAN
    /\ outbox \in Seq(Result)

\* No two online devices exclude each other (AShuErDevive::isExclusion), for
\* any sequence of slotAddDev and slotDelDev: the check of allow2Create is
\* made against every device that is online when it is made.
NoExclusiveDevices ==
    \A i, j \in 1..Len(onlineDev) :
        i # j => ~isExclusion(onlineDev[i], onlineDev[j])

\* m_timer and m_udpClient, uninitialised until slotStart, are used after it:
\* no poll request can be the next event of a worker that is not started,
\* whatever clients emit right after start().
StartedBeforeUse ==
    \/ timerActive
    \/ inbox # <<>> /\ IsPoll(Head(inbox))
    => started

\* When the timer is stopped no command is left behind in m_cmdList, and a
\* running poll never holds more commands than there are categories.
NoCommandLeftBehind ==
    /\ ~timerActive => cmdList = <<>>
    /\ Len(cmdList) <= 3

\* A poll asks exactly the devices online when it starts, once each, in list
\* order: m_cmdList goes from empty to all their commands and then only loses
\* its head, so the polls of two requests never mix.
PollIsASnapshot ==
    [][cmdList' # cmdList =>
          \/ cmdList = <<>> /\ cmdList' = ReadCommands
          \/ cmdList # <<>> /\ cmdList' = Tail(cmdList)]_workerVars

\* The command that ashuerdevive.h:27-32 lists for each type.
ListedCommand(devType) ==
    CASE devType = MWS600              -> ":014400BB"
      [] devType \in {RD3000B, RD3000C} -> "SCAN 02"
      [] devType \in {VD920G, VD930A}   -> "DRAW 03"

\* Every online device is asked with the command listed for its type: the
\* comments of e_AShuErDevType give each type its device number and command.
AskedWithListedCommand ==
    \A i \in 1..Len(onlineDev) :
        onlineDev[i].cmd = ListedCommand(onlineDev[i].devType)

\* After slotDelDev no device of that name is online, although its loop skips
\* the device that follows the one it removes.
CloseIsComplete ==
    [][Handling("signalDelDev") =>
          \A i \in 1..Len(onlineDev') :
              onlineDev'[i].devTypeStr # Head(inbox).dev]_workerVars

-----------------------------------------------------------------------------
(* The device list implements one slot per category.                       *)

SlotOf(list, c) ==
    IF \E i \in 1..Len(list) : list[i].devCategory = c
    THEN list[CHOOSE i \in 1..Len(list) : list[i].devCategory = c].devTypeStr
    ELSE "free"

Registry == INSTANCE DeviceRegistry
                WITH slot    <- [c \in Categories |-> SlotOf(onlineDev, c)],
                     answers <- outbox

\* Each step of the facade and of the worker opens, refuses or closes one
\* slot and queues its answer, or leaves slots and answers alone.
ImplementsRegistry == Registry!RegistrySpec

=============================================================================

-------------------------- MODULE UtisDeviceServer --------------------------
(***************************************************************************)
(* The GUI thread (Widget, its DeviceStateWidget panels and its poll timer)*)
(* together with the device thread of UtisDeviceWorker.  The two share no  *)
(* memory: requests travel in the worker's queue, results in the GUI's.    *)
(*                                                                         *)
(* A panel knows whether its device is open only from the results: each    *)
(* one is shown by every panel whose name it carries, and a click asks for *)
(* the opposite of what the panel shows.                                   *)
(***************************************************************************)
EXTENDS UtisDeviceWorker

CONSTANTS
    Configs,      \* the device lists cfg.ini may hold
    PatientUser   \* environment: the user never clicks a panel whose last
                  \* request is still in flight

ASSUME ConfigsAssumption ==
    /\ Configs \subseteq Seq(DevNames)
    /\ \A c \in Configs : Len(c) <= MaxRequests
ASSUME UserAssumption == PatientUser \in BOOLEAN

VARIABLES
    devList,      \* the names in m_HuaYunDevList
    online,       \* m_online of the panel of each device of the list
    added         \* how many devices initHuaYunDevice has asked for

guiVars == <<devList, online, added>>
vars == <<running, inbox, started, onlineDev, cmdList, timerActive, outbox,
          devList, online, added>>

Panels == 1..Len(devList)

-----------------------------------------------------------------------------
\* initHuaYunDevice: start the device thread, ...
StartDevice ==
    /\ FacadeStart
    /\ UNCHANGED guiVars

\* Mutant: the devices are asked for before start().
AddConfigured_BeforeStart ==
    /\ added < Len(devList)
    /\ Requests < MaxRequests
    /\ Emit("signalAddDev", devList[added + 1])
    /\ added' = added + 1
    /\ UNCHANGED <<running, started, deviceVars, outbox, devList, online>>

\* Mutant: the loop begins at the second device.
AddConfigured_SkipsFirst ==
    /\ added < Len(devList)
    /\ IF added = 0
       THEN running /\ UNCHANGED workerVars
       ELSE EmitRequest("signalAddDev", devList[added + 1])
    /\ added' = added + 1
    /\ UNCHANGED <<devList, online>>

\* ... then ask for the configured devices, one after the other.
AddConfigured ==
    /\ added < Len(devList)
    /\ EmitRequest("signalAddDev", devList[added + 1])
    /\ added' = added + 1
    /\ UNCHANGED <<devList, online>>

\* The GUI thread is in its event loop: the constructor of Widget is done.
EventLoop == running /\ added = Len(devList)

\* The timeout of Widget::m_timer, connected in initTimer.
PollTimeout ==
    /\ EventLoop
    /\ EmitPoll
    /\ UNCHANGED guiVars

\* A request for n that has not been handled, or whose result is not shown.
InFlight(n) ==
    \/ \E k \in 1..Len(inbox) : inbox[k].dev = n
    \/ \E k \in 1..Len(outbox) : outbox[k].devType = n

\* The button of panel i: signalOpenDevice(!m_online), handled by Widget.
Click(i) ==
    /\ EventLoop
    /\ PatientUser => ~InFlight(devList[i])
    /\ IF online[i] THEN EmitRequest("signalDelDev", devList[i])
                    ELSE EmitRequest("signalAddDev", devList[i])
    /\ UNCHANGED guiVars

\* Mutant: the result is passed to every panel, whatever its name.
AddDevResult_AnyName ==
    /\ EventLoop
    /\ TakeResult
    /\ online' = [i \in Panels |-> Head(outbox).success]
    /\ UNCHANGED <<devList, added>>

\* Mutant: only successes are passed on.
AddDevResult_SuccessOnly ==
    /\ EventLoop
    /\ TakeResult
    /\ online' = [i \in Panels |->
                     online[i] \/ Head(outbox) = Reply(devList[i], TRUE)]
    /\ UNCHANGED <<devList, added>>

\* signalAddDevResult: Widget passes it to every panel of that name.
AddDevResult ==
    /\ EventLoop
    /\ TakeResult
    /\ online' = [i \in Panels |-> IF devList[i] = Head(outbox).devType
                                   THEN Head(outbox).success
                                   ELSE online[i]]
    /\ UNCHANGED <<devList, added>>

WorkerSlot  == Slot /\ UNCHANGED guiVars
WorkerTimer == TimerTimeout /\ UNCHANGED guiVars

-----------------------------------------------------------------------------
Init ==
    /\ WorkerInit
    /\ devList \in Configs
    /\ online = [i \in Panels |-> FALSE]
    /\ added = 0

Gui ==
    \/ StartDevice
    \/ AddConfigured
    \/ PollTimeout
    \/ AddDevResult
    \/ \E i \in Panels : Click(i)

Next == Gui \/ WorkerSlot \/ WorkerTimer

(* Both threads run Qt event loops: a posted event is delivered in the end, *)
(* a timer that stays active fires.  The user need not click.               *)
Fairness ==
    /\ WF_vars(StartDevice) /\ WF_vars(AddConfigured)
    /\ WF_vars(PollTimeout) /\ WF_vars(AddDevResult)
    /\ WF_vars(WorkerSlot) /\ WF_vars(WorkerTimer)

Spec == Init /\ [][Next]_vars

FairSpec == Spec /\ Fairness

-----------------------------------------------------------------------------
(* Safety.                                                                 *)

GuiTypeOK ==
    /\ devList \in Configs
    /\ online \in [Panels -> BOOLEAN]
    /\ added \in 0..Len(devList)

IsOnline(n) == \E k \in 1..Len(onlineDev) : onlineDev[k].devTypeStr = n

\* What panel i will show once the results on their way have arrived.
WillShowOnline(i) ==
    \/ /\ online[i]
       /\ \A k \in 1..Len(outbox) : outbox[k].devType # devList[i]
    \/ \E k \in 1..Len(outbox) :
          /\ outbox[k] = Reply(devList[i], TRUE)
          /\ \A j \in k+1..Len(outbox) : outbox[j].devType # devList[i]

\* A panel that shows its device open, with no result on its way to it, shows
\* the truth: the device is in m_onlineDev and is polled.  It holds for any
\* user, and when two entries of cfg.ini have the same name.
NoGhostDevice == \A i \in Panels : WillShowOnline(i) => IsOnline(devList[i])

\* A panel without a request in flight shows whether its device is online.
PanelShowsDevice ==
    \A i \in Panels :
        ~InFlight(devList[i]) => (online[i] <=> IsOnline(devList[i]))

\* The device is online, its panel shows it closed, and nothing on its way
\* will close the device or make the panel show it open.
Wedged(i) ==
    /\ i \in Panels
    /\ IsOnline(devList[i])
    /\ ~online[i]
    /\ \A k \in 1..Len(inbox) :
          inbox[k].dev = devList[i] => inbox[k].sig = "signalAddDev"
    /\ \A k \in 1..Len(outbox) :
          outbox[k].devType = devList[i] => ~outbox[k].success

\* A wedged panel stays wedged: its button can only ask to open the device,
\* slotAddDev refuses a device that is online already, and the refusal is
\* shown as "closed".  Nothing short of a restart closes the device.
WedgedForever == [][\A i \in Panels : Wedged(i) => Wedged(i)']_vars

-----------------------------------------------------------------------------
\* Whatever Widget does, it is a client the device thread allows for: what
\* UtisDeviceWorker promises to any client holds in the whole program.
ImplementsWorker == WorkerSpec

-----------------------------------------------------------------------------
(* Liveness.                                                               *)

\* The device is the first of its category in cfg.ini.
FirstOfCategory(i) ==
    /\ isvalid(devList[i])
    /\ \A j \in 1..i-1 : ~isExclusion(NewDevice(devList[j]), NewDevice(devList[i]))

Rivals(m, n) == m # n /\ isExclusion(NewDevice(m), NewDevice(n))

NobodyCloses == \A k \in 1..Len(inbox) : inbox[k].sig # "signalDelDev"

\* The first device of each category, once asked for, is online or its request
\* still waits, and nothing it excludes is online.
FirstWins ==
    \A i \in 1..added : FirstOfCategory(i) =>
        /\ \/ IsOnline(devList[i])
           \/ \E k \in 1..Len(inbox) :
                 inbox[k].sig = "signalAddDev" /\ inbox[k].dev = devList[i]
        /\ \A n \in DevNames : IsOnline(n) => ~Rivals(n, devList[i])

\* cfg.ini decides which of two devices that exclude each other is opened: the one
\* listed first has the category as long as nobody closes a device, however early
\* and often the user asks for the other (widget.cpp:90-92, utisDeviceWorker.cpp:113).
StartupOrderWins == []NobodyCloses => []FirstWins

\* Every device of cfg.ini that no earlier one excludes is shown online after
\* startup, whatever the user clicks meanwhile.
StartupComesOnline ==
    \A i \in 1..MaxRequests :
        <>(i \in Panels /\ FirstOfCategory(i) => online[i])

\* A device that stays online is sent its read command again and again: a
\* poll request dropped during a poll is made up for by a later one.
KeepsPolling ==
    \A n \in DevNames :
        <>[]IsOnline(n) =>
            []<><<SendCommand /\ Head(cmdList) = NewDevice(n).cmd>>_vars

=============================================================================

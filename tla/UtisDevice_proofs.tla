------------------------- MODULE UtisDevice_proofs -------------------------
(***************************************************************************)
(* What the end of the device thread means for the rest of the program's   *)
(* life, that its socket is not silenced, and that the promises of         *)
(* UtisDeviceWorker are kept through stop() and start(), for every client, *)
(* network and bound.                                                      *)
(***************************************************************************)
EXTENDS UtisDevice, DeviceRegistry_proofs, TLAPS

\* The start event is posted once: it is the first event, and slotStart has not run.
StartedOnce ==
    /\ inbox \in Seq(Event)
    /\ work /\ ~running => inbox = <<>> /\ ~started
    /\ \A i \in 1..Len(inbox) : inbox[i].sig = "signalStart" => i = 1 /\ ~started

\* Whatever the datagrams are, they are a sequence.
Received(q) == \E S : q \in Seq(S)

\* A socket without a port has received nothing, and one that readyRead is not emitted
\* for holds a datagram that the loop of slotReadyRead is going to read.
SocketState ==
    /\ Received(pending)
    /\ ~started => port = "none"
    /\ port = "none" => pending = <<>> /\ ~reading
    /\ silent => reading /\ pending # <<>>

\* What is left of the worker after its thread has ended.
Dead ==
    /\ onlineDev = <<>> /\ cmdList = <<>> /\ inbox = <<>>
    /\ ~timerActive /\ ~started /\ port = "none"

LifeInv ==
    /\ running \in BOOLEAN /\ work \in BOOLEAN /\ started \in BOOLEAN
    /\ silent \in BOOLEAN /\ reading \in BOOLEAN /\ timerActive \in BOOLEAN
    /\ StartedOnce /\ SocketState
    /\ ~work => Dead

-----------------------------------------------------------------------------
LEMMA PostedEvent ==
    ASSUME NEW q \in Seq(Event), NEW e \in Event
    PROVE  /\ Append(q, e) \in Seq(Event)
           /\ Len(Append(q, e)) = Len(q) + 1
           /\ \A i \in 1..Len(q) : Append(q, e)[i] = q[i]
           /\ Append(q, e)[Len(q) + 1] = e
OBVIOUS

LEMMA TakenEvent ==
    ASSUME NEW q \in Seq(Event), q # <<>>
    PROVE  /\ Tail(q) \in Seq(Event)
           /\ Head(q) = q[1] /\ 1 \in 1..Len(q)
           /\ \A i \in 1..Len(Tail(q)) : i + 1 \in 1..Len(q) /\ Tail(q)[i] = q[i + 1]
OBVIOUS

LEMMA AppendedTo ==
    ASSUME NEW q, NEW e, Received(q)
    PROVE  Received(Append(q, e)) /\ Append(q, e) # <<>>
<1>1. PICK S : q \in Seq(S) BY DEF Received
<1> DEFINE T == S \cup {e}
<1>2. q \in Seq(T) /\ e \in T BY <1>1
<1> HIDE DEF T
<1>3. Append(q, e) \in Seq(T) BY <1>2
<1>4. Append(q, e) # <<>>
  <2>1. Len(Append(q, e)) = Len(q) + 1 /\ Len(q) \in Nat BY <1>2
  <2>2. Len(<<>>) = 0 OBVIOUS
  <2> QED BY <2>1, <2>2
<1> QED BY <1>3, <1>4 DEF Received

LEMMA TakenFrom ==
    ASSUME NEW q, Received(q), q # <<>>
    PROVE  Received(Tail(q))
<1>1. PICK S : q \in Seq(S) BY DEF Received
<1>2. Tail(q) \in Seq(S) BY <1>1
<1> QED BY <1>2 DEF Received

\* A slot takes the first event, and after it there is no start event.
LEMMA AfterFirst ==
    ASSUME LifeInv, inbox # <<>>, inbox' = Tail(inbox)
    PROVE  /\ inbox' \in Seq(Event)
           /\ \A i \in 1..Len(inbox') : inbox'[i].sig # "signalStart"
<1>1. inbox \in Seq(Event) BY DEF LifeInv, StartedOnce
<1>2. \A i \in 1..Len(inbox) : i # 1 => inbox[i].sig # "signalStart"
  BY DEF LifeInv, StartedOnce
<1>3. \A i \in 1..Len(inbox') : i + 1 # 1 /\ inbox'[i] = inbox[i + 1] /\ i + 1 \in 1..Len(inbox)
  BY <1>1, TakenEvent
<1> QED BY <1>1, <1>2, <1>3, TakenEvent

LEMMA NoEvents ==
    ASSUME NEW q, q = <<>>
    PROVE  q \in Seq(Event) /\ \A i \in 1..Len(q) : FALSE
OBVIOUS

LEMMA NothingReceived == Received(<<>>)
<1>1. <<>> \in Seq({}) OBVIOUS
<1> QED BY <1>1 DEF Received

LEMMA InitLife == Init => LifeInv
BY NoEvents, NothingReceived DEF Init, WorkerInit, LifeInv, StartedOnce, SocketState, Dead

\* A slot of a running worker that is alive.
LEMMA SlotLife ==
    ASSUME LifeInv, inbox # <<>>, inbox' = Tail(inbox), running' = running, running,
           started' = started, UNCHANGED <<work, port, silent, reading, pending>>,
           timerActive' \in BOOLEAN
    PROVE  LifeInv'
<1>1. work /\ work' BY DEF LifeInv, Dead
<1> QED BY <1>1, AfterFirst DEF LifeInv, StartedOnce, SocketState

\* A step that leaves the events and the socket alone.
LEMMA QuietLife ==
    ASSUME LifeInv, timerActive' \in BOOLEAN, work \/ Dead',
           UNCHANGED <<running, inbox, started, work, port, silent, reading, pending>>
    PROVE  LifeInv'
BY DEF LifeInv, StartedOnce, SocketState

LEMMA NextLife == LifeInv /\ [Next]_vars => LifeInv'
<1> SUFFICES ASSUME LifeInv, [Next]_vars PROVE LifeInv' OBVIOUS
<1> USE DEF workerVars, deviceVars, lifeVars, udpVars, sockVars
<1>1. CASE Start
  <2>1. CASE work /\ FacadeStart
    <3>1. inbox = <<>> /\ ~started BY <2>1 DEF LifeInv, StartedOnce, FacadeStart
    <3>2. [sig |-> "signalStart", dev |-> NoDev] \in Event BY DEF Event, Signals
    <3>3. /\ inbox' \in Seq(Event)
          /\ \A i \in 1..Len(inbox') : i = 1
      BY <2>1, <3>1, <3>2 DEF FacadeStart, Emit
    <3> QED BY <1>1, <2>1, <3>1, <3>3
        DEF Start, FacadeStart, LifeInv, StartedOnce, SocketState
  <2>2. CASE ~work /\ running' = TRUE /\ UNCHANGED <<inbox, started, deviceVars, outbox>>
    BY <1>1, <2>2 DEF Start, LifeInv, StartedOnce, SocketState, Dead
  <2> QED BY <1>1, <2>1, <2>2 DEF Start
<1>2. CASE Request
  <2>1. PICK e \in Event : e.sig # "signalStart" /\ inbox' = Append(inbox, e)
    <3>1. ASSUME NEW n \in DevNames, NEW s \in {"signalAddDev", "signalDelDev"}
          PROVE  [sig |-> s, dev |-> n] \in Event
      BY DEF Event, Signals
    <3>2. [sig |-> "signalGetLatestData", dev |-> NoDev] \in Event BY DEF Event, Signals
    <3> QED BY <1>2, <3>1, <3>2 DEF Request, EmitRequest, EmitPoll, Emit
  <2>2. running /\ UNCHANGED <<running, started, timerActive, work, port, silent, reading, pending>>
    BY <1>2 DEF Request, EmitRequest, EmitPoll
  <2>3. work BY <1>2 DEF Request
  <2>4. /\ inbox' \in Seq(Event)
        /\ \A i \in 1..Len(inbox') : inbox'[i].sig = "signalStart" => i = 1 /\ ~started
    <3>1. inbox \in Seq(Event) BY DEF LifeInv, StartedOnce
    <3>2. /\ inbox' \in Seq(Event) /\ Len(inbox') = Len(inbox) + 1
          /\ \A i \in 1..Len(inbox) : inbox'[i] = inbox[i]
          /\ inbox'[Len(inbox) + 1] = e
      BY <2>1, <3>1, PostedEvent
    <3>3. Len(inbox) \in Nat BY <3>1
    <3>4. ASSUME NEW i \in 1..Len(inbox'), inbox'[i].sig = "signalStart"
          PROVE  i = 1 /\ ~started
      <4>1. i \in 1..Len(inbox) BY <2>1, <3>2, <3>3, <3>4
      <4> QED BY <3>2, <3>4, <4>1 DEF LifeInv, StartedOnce
    <3> QED BY <3>2, <3>4
  <2> QED BY <2>2, <2>3, <2>4 DEF LifeInv, StartedOnce, SocketState
<1>3. CASE Answer BY <1>3 DEF Answer, TakeResult, LifeInv, StartedOnce, SocketState, Dead
<1>4. CASE StopCall BY <1>4 DEF StopCall, LifeInv, StartedOnce, SocketState, Dead
<1>5. CASE StopReturn BY <1>5 DEF StopReturn, LifeInv, StartedOnce, SocketState, Dead
<1>6. CASE OpenSocket
  <2>1. /\ running /\ inbox # <<>> /\ Head(inbox).sig = "signalStart"
        /\ inbox' = Tail(inbox) /\ running' = running /\ started' = TRUE
        /\ UNCHANGED <<work, silent, reading, pending>>
        /\ timerActive' = FALSE
    BY <1>6 DEF OpenSocket, SlotStart, Handling
  <2>2. ~started /\ work
    <3>1. inbox \in Seq(Event) BY DEF LifeInv, StartedOnce
    <3>2. 1 \in 1..Len(inbox) /\ inbox[1].sig = "signalStart" BY <2>1, <3>1, TakenEvent
    <3> QED BY <2>1, <3>2 DEF LifeInv, StartedOnce, Dead
  <2>3. pending = <<>> /\ ~reading /\ ~silent BY <2>2 DEF LifeInv, SocketState
  <2> QED BY <2>1, <2>2, <2>3, AfterFirst DEF LifeInv, StartedOnce, SocketState
<1>7. CASE DeviceSlot
  <2>1. /\ running /\ inbox # <<>> /\ inbox' = Tail(inbox)
        /\ UNCHANGED <<running, started, timerActive, work, port, silent, reading, pending>>
    BY <1>7 DEF DeviceSlot, SlotAddDev, SlotDelDev, Handling
  <2> QED BY <2>1, SlotLife DEF LifeInv
<1>8. CASE PollSlot
  <2>1. /\ running /\ inbox # <<>> /\ inbox' = Tail(inbox)
        /\ UNCHANGED <<running, started, work, port, silent, reading, pending>>
        /\ timerActive' \in BOOLEAN
    BY <1>8 DEF PollSlot, SlotGetLatestData, Handling, LifeInv
  <2> QED BY <2>1, SlotLife
<1>9. CASE Ask
  <2>1. /\ timerActive /\ timerActive' = timerActive /\ started
        /\ UNCHANGED <<running, inbox, started, work, silent, reading, pending>>
        /\ port # "none" => port' = port
    BY <1>9 DEF Ask, SendCommand
  <2>2. work BY <2>1 DEF LifeInv, Dead
  <2> QED BY <2>1, <2>2 DEF LifeInv, StartedOnce, SocketState
<1>10. CASE PollEnds
  <2>1. /\ timerActive /\ timerActive' = FALSE
        /\ UNCHANGED <<running, inbox, started, work, port, silent, reading, pending>>
    BY <1>10 DEF PollEnds, LatestDataReady
  <2>2. work BY <2>1 DEF LifeInv, Dead
  <2> QED BY <2>1, <2>2, QuietLife
<1>11. CASE Finish
  BY <1>11, NoEvents, NothingReceived DEF Finish, Closed, LifeInv, StartedOnce, SocketState, Dead
<1>12. CASE Read
  <2>1. work /\ work' /\ started /\ port # "none" /\ port' = port
        /\ UNCHANGED <<running, inbox, started, timerActive>>
    BY <1>12 DEF Read, SlotReadyRead, ReadDatagram, ReadEnd, LifeInv, SocketState, Dead
  <2>2. /\ silent' \in BOOLEAN /\ reading' \in BOOLEAN
        /\ silent' => reading' /\ pending' # <<>>
        /\ Received(pending')
    <3>1. CASE SlotReadyRead BY <3>1 DEF SlotReadyRead, LifeInv, SocketState
    <3>2. CASE ReadDatagram BY <3>2, TakenFrom DEF ReadDatagram, LifeInv, SocketState
    <3>3. CASE ReadEnd BY <3>3 DEF ReadEnd, LifeInv, SocketState
    <3> QED BY <1>12, <3>1, <3>2, <3>3 DEF Read
  <2> QED BY <2>1, <2>2 DEF LifeInv, StartedOnce, SocketState
<1>13. ASSUME NEW i \in 1..Len(net), Arrive(i) \/ Lose(i) PROVE LifeInv'
  <2>1. /\ UNCHANGED <<running, inbox, started, timerActive, onlineDev, cmdList, work>>
        /\ UNCHANGED <<port, silent, reading>>
    BY <1>13 DEF Arrive, Lose
  <2>2. pending' = pending \/ (port # "none" /\ pending' # <<>> /\ Received(pending'))
    <3>1. CASE pending' = Append(pending, net[i].answer) /\ port # "none"
      BY <3>1, AppendedTo DEF LifeInv, SocketState
    <3>2. CASE pending' = pending BY <3>2
    <3> QED BY <1>13, <3>1, <3>2 DEF Arrive, Lose
  <2> QED BY <2>1, <2>2 DEF LifeInv, StartedOnce, SocketState, Dead
<1>14. CASE UNCHANGED vars
  BY <1>14 DEF vars, LifeInv, StartedOnce, SocketState, Dead
<1> QED
  BY <1>1, <1>2, <1>3, <1>4, <1>5, <1>6, <1>7, <1>8, <1>9, <1>10, <1>11, <1>12, <1>13,
     <1>14 DEF Next, Facade, Thread, Network

LEMMA SpecLife == Spec => []LifeInv
BY InitLife, NextLife, PTL DEF Spec

-----------------------------------------------------------------------------
\* A deleted worker stays deleted: start() makes no other (utisDevice.cpp:4,25-29).
LEMMA NoSecondWorker ==
    ASSUME LifeInv, [Next]_vars, ~work
    PROVE  ~work'
BY DEF Next, Facade, Thread, Network, vars, workerVars, deviceVars, lifeVars, udpVars, sockVars, Start,
   Request, Answer, StopCall, StopReturn, OpenSocket, DeviceSlot, PollSlot, Ask, PollEnds,
   Finish, Read, SlotReadyRead, ReadDatagram, ReadEnd, Arrive, Lose

\* Once the thread has ended, no call of the facade brings a device online, opens the
\* socket or queues a request again (utisDevice.cpp:10).
THEOREM FacadeDeadAfterStop == Spec => DeadAfterStop
<1>1. LifeInv /\ ~work => /\ onlineDev = <<>> /\ inbox = <<>> /\ ~started
                          /\ port = "none" /\ pending = <<>>
  BY DEF LifeInv, Dead, SocketState
<1> QED BY <1>1, NoSecondWorker, SpecLife, PTL DEF Spec, DeadAfterStop

\* No order of arrivals, reads and polls leaves a datagram in a socket that Qt does not
\* announce any more (utisDeviceWorker.cpp:97-107).
THEOREM SocketIsAttended == Spec => []NotSilenced
<1>1. LifeInv => NotSilenced BY DEF LifeInv, SocketState, NotSilenced
<1> QED BY <1>1, SpecLife, PTL

-----------------------------------------------------------------------------
(* The promises of the worker through stop() and start().                  *)

\* The invariant of UtisDeviceWorker.  Only a thread that runs without a worker has
\* no start event to wait for.
WorkerInv ==
    /\ TypeOK /\ NoExclusiveDevices /\ NoCommandLeftBehind
    /\ work => StartComesFirst

LEMMA AliveInv == work => (WorkerInv <=> IndInv)
BY DEF WorkerInv, IndInv

LEMMA InitWorker == Init => WorkerInv
BY IndInvInit DEF Init, WorkerInv, IndInv

\* While there is a worker, every step but its end is one that UtisDeviceWorker
\* knows, or leaves the worker alone.
LEMMA StepOfWorker ==
    ASSUME LifeInv, [Next]_vars, work, ~Finish
    PROVE  [WorkerNext]_workerVars /\ work' = work
<1> USE DEF workerVars, deviceVars, lifeVars, udpVars, sockVars
<1>1. CASE Start BY <1>1 DEF Start, WorkerNext, Client
<1>2. CASE Request BY <1>2 DEF Request, WorkerNext, Client
<1>3. CASE Answer BY <1>3 DEF Answer, WorkerNext, Client
<1>4. CASE StopCall \/ StopReturn BY <1>4 DEF StopCall, StopReturn
<1>5. CASE OpenSocket BY <1>5 DEF OpenSocket, WorkerNext, Slot
<1>6. CASE DeviceSlot BY <1>6 DEF DeviceSlot, WorkerNext, Slot
<1>7. CASE PollSlot BY <1>7 DEF PollSlot, WorkerNext, Slot
<1>8. CASE Ask BY <1>8 DEF Ask, WorkerNext, TimerTimeout
<1>9. CASE PollEnds BY <1>9 DEF PollEnds, WorkerNext, TimerTimeout
<1>10. CASE Read \/ Network
  BY <1>10 DEF Read, SlotReadyRead, ReadDatagram, ReadEnd, Network, Arrive, Lose
<1>11. CASE UNCHANGED vars BY <1>11 DEF vars
<1> QED
  BY <1>1, <1>2, <1>3, <1>4, <1>5, <1>6, <1>7, <1>8, <1>9, <1>10, <1>11
     DEF Next, Facade, Thread

\* Without a worker the thread may be started, and answers are taken.
LEMMA StepOfTheDead ==
    ASSUME LifeInv, [Next]_vars, ~work
    PROVE  /\ ~work' /\ running' \in BOOLEAN
           /\ UNCHANGED <<inbox, started, onlineDev, cmdList, timerActive>>
           /\ outbox' = outbox \/ TakeResult
<1> USE DEF workerVars, deviceVars, lifeVars, udpVars, sockVars, LifeInv, Dead
<1>1. CASE Start BY <1>1 DEF Start
<1>2. CASE Answer BY <1>2 DEF Answer, TakeResult
<1>3. CASE StopCall \/ StopReturn BY <1>3 DEF StopCall, StopReturn
<1>4. CASE Finish BY <1>4 DEF Finish
<1>5. CASE Read \/ Network
  BY <1>5 DEF Read, SlotReadyRead, ReadDatagram, ReadEnd, Network, Arrive, Lose
<1>6. CASE UNCHANGED vars BY <1>6 DEF vars
<1>7. ~Request BY DEF Request
<1>8. ~(OpenSocket \/ DeviceSlot \/ PollSlot)
  BY DEF OpenSocket, DeviceSlot, PollSlot, SlotStart, SlotAddDev, SlotDelDev,
         SlotGetLatestData, Handling
<1>9. ~(Ask \/ PollEnds) BY DEF Ask, PollEnds, SendCommand, LatestDataReady
<1> QED
  BY <1>1, <1>2, <1>3, <1>4, <1>5, <1>6, <1>7, <1>8, <1>9 DEF Next, Facade, Thread

\* The end of the thread: everything the worker held is gone, the answers stay.
LEMMA EndOfWorker ==
    ASSUME WorkerInv, Finish
    PROVE  WorkerInv' /\ onlineDev' = <<>> /\ outbox' = outbox /\ ~work'
<1>1. /\ TypeOK' /\ onlineDev' = <<>> /\ outbox' = outbox /\ ~work'
  BY EmptySeq DEF Finish, WorkerInv, TypeOK
<1>2. NoExclusiveDevices' BY <1>1 DEF NoExclusiveDevices
<1>3. NoCommandLeftBehind' BY DEF Finish, NoCommandLeftBehind
<1> QED BY <1>1, <1>2, <1>3 DEF WorkerInv

LEMMA NextWorker == LifeInv /\ WorkerInv /\ [Next]_vars => WorkerInv'
<1> SUFFICES ASSUME LifeInv, WorkerInv, [Next]_vars PROVE WorkerInv'
  OBVIOUS
<1>1. CASE work /\ ~Finish
  <2>1. IndInv' /\ work'
    BY <1>1, AliveInv, StepOfWorker, IndInvNext
  <2> QED BY <2>1 DEF WorkerInv, IndInv
<1>2. CASE Finish BY <1>2, EndOfWorker
<1>3. CASE ~work
  <2>1. /\ ~work' /\ running' \in BOOLEAN
        /\ UNCHANGED <<inbox, started, onlineDev, cmdList, timerActive>>
        /\ outbox' = outbox \/ TakeResult
    BY <1>3, StepOfTheDead
  <2>2. outbox' \in Seq(Result)
    <3>1. outbox \in Seq(Result) BY DEF WorkerInv, TypeOK
    <3>2. CASE TakeResult
      <4>1. outbox # <<>> /\ outbox' = Tail(outbox) BY <3>2 DEF TakeResult
      <4> QED BY <3>1, <4>1
    <3> QED BY <2>1, <3>1, <3>2
  <2> QED BY <2>1, <2>2 DEF WorkerInv, TypeOK, NoExclusiveDevices, NoCommandLeftBehind
<1> QED BY <1>1, <1>2, <1>3

LEMMA SpecWorker == Spec => [](LifeInv /\ WorkerInv)
BY InitLife, InitWorker, NextLife, NextWorker, PTL DEF Spec

\* Whatever calls of start() and stop() come between the requests, no two devices
\* that exclude each other are online, no command is left behind, and nothing made
\* by slotStart is used before slotStart (utisDevice.cpp:25-35).
THEOREM PromisesOutliveStop ==
    Spec => [](NoExclusiveDevices /\ NoCommandLeftBehind /\ StartedBeforeUse)
<1>1. ASSUME LifeInv, WorkerInv PROVE StartedBeforeUse
  <2>1. CASE work
    <3>1. IndInv BY <1>1, <2>1, AliveInv
    <3>2. ASSUME inbox # <<>>, IsPoll(Head(inbox)) PROVE started
      <4>1. Head(inbox) = inbox[1] /\ Head(inbox).sig = "signalGetLatestData"
        BY <3>1, <3>2 DEF IndInv, TypeOK, IsPoll
      <4> QED BY <3>1, <3>2, <4>1 DEF IndInv, StartComesFirst
    <3> QED BY <3>1, <3>2 DEF IndInv, StartComesFirst, StartedBeforeUse
  <2>2. CASE ~work BY <1>1, <2>2 DEF LifeInv, Dead, StartedBeforeUse
  <2> QED BY <2>1, <2>2
<1> QED BY <1>1, SpecWorker, PTL DEF WorkerInv

\* The facade is a registry until its worker dies: then all slots are free, nobody
\* is told, and nothing but taking the old answers ever happens (utisDevice.cpp:10).
THEOREM FacadeIsARegistry == Spec => ImplementsRegistryLife
<1>1. Init => Registry!RegistryInit BY RegistryInitially DEF Init
<1>2. ASSUME LifeInv, WorkerInv, LifeInv', WorkerInv', [Next]_vars
      PROVE  [RegistryLife]_<<Registry!registryVars, work>>
  <2>1. CASE work /\ ~Finish
    <3>1. IndInv /\ [WorkerNext]_workerVars /\ work' = work
      BY <1>2, <2>1, AliveInv, StepOfWorker
    <3>2. IndInv' BY <3>1, IndInvNext
    <3>3. [Registry!RegistryNext]_Registry!registryVars BY <3>1, <3>2, RegistryStep
    <3> QED BY <2>1, <3>1, <3>3 DEF RegistryLife
  <2>2. CASE work /\ Finish
    <3>1. onlineDev' = <<>> /\ outbox' = outbox /\ ~work' BY <1>2, <2>2, EndOfWorker
    <3>2. \A c : SlotOf(onlineDev', c) = "free" BY <3>1, SlotFree
    <3>3. Registry!Shutdown BY <3>1, <3>2, RegistryTable DEF Registry!Shutdown
    <3> QED BY <2>2, <3>1, <3>3 DEF RegistryLife
  <2>3. CASE ~work
    <3>1. ~work' /\ onlineDev' = onlineDev /\ (outbox' = outbox \/ TakeResult)
      BY <1>2, <2>3, StepOfTheDead
    <3>2. CASE outbox' = outbox
      <4>1. work' = work BY <1>2, <2>3, <3>1 DEF LifeInv
      <4> QED BY <3>1, <3>2, <4>1 DEF Registry!registryVars
    <3>3. CASE TakeResult
      <4>1. Registry!Take BY <3>1, <3>3 DEF TakeResult, Registry!Take
      <4> QED BY <2>3, <3>1, <4>1 DEF RegistryLife
    <3> QED BY <3>1, <3>2, <3>3
  <2> QED BY <2>1, <2>2, <2>3
<1> QED
  BY <1>1, <1>2, SpecWorker, PTL DEF Spec, ImplementsRegistryLife

=============================================================================

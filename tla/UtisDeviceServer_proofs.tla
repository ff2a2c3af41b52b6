---------------------- MODULE UtisDeviceServer_proofs ----------------------
(***************************************************************************)
(* Proofs about the whole program, for every list of configured devices and *)
(* every user: the GUI is a client the device thread allows for, so that    *)
(* what is proved of the device thread holds here; and from that, that a    *)
(* panel that shows its device open is right, that a wedged panel never     *)
(* recovers, and that a patient user is never shown anything wrong.         *)
(***************************************************************************)
EXTENDS UtisDeviceServer, UtisDeviceWorker_proofs

-----------------------------------------------------------------------------
(* The GUI as a client.                                                    *)

LEMMA GuiTypeInit == Init => GuiTypeOK
<1> SUFFICES ASSUME Init PROVE GuiTypeOK
  OBVIOUS
<1>1. devList \in Configs /\ Len(devList) \in Nat
  BY ConfigsAssumption, LenProperties DEF Init
<1> QED BY <1>1 DEF Init, GuiTypeOK, Panels

LEMMA GuiTypeNext == TypeOK /\ GuiTypeOK /\ [Next]_vars => GuiTypeOK'
<1> SUFFICES ASSUME TypeOK, GuiTypeOK, [Next]_vars PROVE GuiTypeOK'
  OBVIOUS
<1>1. CASE AddConfigured
  <2>1. Len(devList) \in Nat
    BY ConfigsAssumption, LenProperties DEF GuiTypeOK
  <2> QED BY <1>1, <2>1 DEF AddConfigured, GuiTypeOK, Panels
<1>2. CASE AddDevResult
  <2>1. Head(outbox) \in Result
    BY <1>2, HeadTailProperties DEF AddDevResult, TakeResult, TypeOK
  <2>2. online' \in [Panels -> BOOLEAN]
    BY <1>2, <2>1 DEF AddDevResult, GuiTypeOK, Result
  <2> QED BY <1>2, <2>2 DEF AddDevResult, GuiTypeOK, Panels
<1>3. CASE UNCHANGED guiVars
  BY <1>3 DEF guiVars, GuiTypeOK, Panels
<1> QED
  BY <1>1, <1>2, <1>3
  DEF Next, Gui, StartDevice, PollTimeout, Click, WorkerSlot, WorkerTimer, vars, guiVars

\* Every step of the program is a step of the device thread and its client.
LEMMA ClientStep == GuiTypeOK /\ [Next]_vars => [WorkerNext]_workerVars
<1> SUFFICES ASSUME GuiTypeOK, [Next]_vars PROVE [WorkerNext]_workerVars
  OBVIOUS
<1>1. \A i \in Panels : devList[i] \in DevNames
  BY ConfigsAssumption, ElementOfSeq DEF GuiTypeOK, Panels
<1>2. CASE StartDevice
  BY <1>2 DEF StartDevice, WorkerNext, Client
<1>3. CASE AddConfigured
  <2>1. added + 1 \in Panels
    BY <1>3, ConfigsAssumption, LenProperties DEF AddConfigured, GuiTypeOK, Panels
  <2> QED BY <1>1, <1>3, <2>1 DEF AddConfigured, WorkerNext, Client
<1>4. CASE PollTimeout
  BY <1>4 DEF PollTimeout, WorkerNext, Client
<1>5. CASE AddDevResult
  BY <1>5 DEF AddDevResult, WorkerNext, Client
<1>6. ASSUME NEW i \in Panels, Click(i) PROVE WorkerNext
  BY <1>1, <1>6 DEF Click, WorkerNext, Client
<1>7. CASE WorkerSlot \/ WorkerTimer
  BY <1>7 DEF WorkerSlot, WorkerTimer, WorkerNext
<1>8. CASE UNCHANGED vars
  BY <1>8 DEF vars, workerVars
<1> QED BY <1>2, <1>3, <1>4, <1>5, <1>6, <1>7, <1>8 DEF Next, Gui

\* The GUI's state has its types and the device thread its invariant.
LEMMA ServerInvariant == Spec => [](GuiTypeOK /\ IndInv)
<1>1. Init => GuiTypeOK /\ IndInv
  BY GuiTypeInit, IndInvInit DEF Init
<1>2. GuiTypeOK /\ IndInv /\ [Next]_vars => GuiTypeOK' /\ IndInv'
  <2>1. IndInv => TypeOK
    BY DEF IndInv
  <2> QED BY <2>1, GuiTypeNext, ClientStep, IndInvNext
<1> QED BY <1>1, <1>2, PTL DEF Spec

\* The panels, the list of devices and the startup loop keep their types and
\* bounds.
THEOREM GuiTypeCorrect == Spec => []GuiTypeOK
BY ServerInvariant, PTL

\* The GUI starts the device thread before it emits anything, starts it once,
\* and passes only configured names: every theorem about the device thread
\* holds in the program.
THEOREM ServerImplementsWorker == Spec => ImplementsWorker
<1>1. Init => WorkerInit
  BY DEF Init
<1> QED BY <1>1, ClientStep, ServerInvariant, PTL DEF Spec, ImplementsWorker, WorkerSpec

-----------------------------------------------------------------------------
(* What a panel will show.                                                 *)

\* The state of the panels called n once they have shown the results out,
\* given that they show "shown" now.
WillShow(out, n, shown) ==
    \/ /\ shown
       /\ \A k \in 1..Len(out) : out[k].devType # n
    \/ \E k \in 1..Len(out) :
          /\ out[k] = Reply(n, TRUE)
          /\ \A j \in k+1..Len(out) : out[j].devType # n

LEMMA ResultIsReply == \A r \in Result : r = Reply(r.devType, r.success)
BY DEF Result, Reply

\* The last answer decides, ...
LEMMA LastAnswerShown ==
    ASSUME NEW out \in Seq(Result), NEW n \in DevNames, NEW b \in BOOLEAN, NEW shown
    PROVE  WillShow(Append(out, Reply(n, b)), n, shown) <=> b
<1> DEFINE new == Append(out, Reply(n, b))
<1>1. /\ Len(new) = Len(out) + 1 /\ Len(out) \in Nat
      /\ new[Len(out) + 1] = Reply(n, b)
      /\ Reply(n, b) \in Result /\ Reply(n, b).devType = n /\ Reply(n, b).success = b
      /\ Reply(n, TRUE).success = TRUE
  BY AppendProperties, LenProperties DEF Reply, Result
<1> HIDE DEF new
<1>2. Len(out) + 1 \in 1..Len(new)
  BY <1>1
<1>3. CASE b
  <2>1. new[Len(out) + 1] = Reply(n, TRUE)
    BY <1>1, <1>3
  <2>2. \A j \in (Len(out) + 1) + 1..Len(new) : FALSE
    BY <1>1
  <2>3. WillShow(new, n, shown)
    BY <1>2, <2>1, <2>2 DEF WillShow
  <2> QED BY <1>3, <2>3 DEF new
<1>4. CASE ~b
  <2>1. ASSUME NEW k \in 1..Len(new), new[k] = Reply(n, TRUE),
               \A j \in k+1..Len(new) : new[j].devType # n
        PROVE  FALSE
    <3>1. CASE k = Len(out) + 1
      BY <1>1, <1>4, <2>1, <3>1
    <3>2. CASE k # Len(out) + 1
      <4>1. Len(out) + 1 \in k+1..Len(new)
        BY <1>1, <3>2
      <4> QED BY <1>1, <2>1, <4>1
    <3> QED BY <3>1, <3>2
  <2>2. ~WillShow(new, n, shown)
    BY <1>1, <1>2, <2>1 DEF WillShow
  <2> QED BY <1>4, <2>2 DEF new
<1> QED BY <1>3, <1>4

\* ... an answer for another name changes nothing, ...
LEMMA OtherAnswerShown ==
    ASSUME NEW out \in Seq(Result), NEW n, NEW m \in DevNames, n # m,
           NEW b \in BOOLEAN, NEW shown
    PROVE  WillShow(Append(out, Reply(m, b)), n, shown) <=> WillShow(out, n, shown)
<1> DEFINE new == Append(out, Reply(m, b))
<1>1. /\ Len(new) = Len(out) + 1 /\ Len(out) \in Nat
      /\ \A k \in 1..Len(out) : new[k] = out[k]
      /\ new[Len(out) + 1].devType # n
      /\ Reply(n, TRUE).devType = n
  BY AppendProperties, LenProperties DEF Reply, Result
<1> HIDE DEF new
<1>2. (\A k \in 1..Len(new) : new[k].devType # n) <=>
      (\A k \in 1..Len(out) : out[k].devType # n)
  BY <1>1
<1>3. ASSUME NEW k \in 1..Len(out)
      PROVE  (\A j \in k+1..Len(new) : new[j].devType # n) <=>
             (\A j \in k+1..Len(out) : out[j].devType # n)
  BY <1>1
<1>4. ASSUME NEW k \in 1..Len(new), new[k] = Reply(n, TRUE)
      PROVE  k \in 1..Len(out) /\ out[k] = Reply(n, TRUE)
  <2>1. k # Len(out) + 1
    BY <1>1, <1>4
  <2>2. k \in 1..Len(out)
    BY <1>1, <2>1
  <2> QED BY <1>1, <1>4, <2>2
<1> DEFINE LastNew(k) == /\ new[k] = Reply(n, TRUE)
                         /\ \A j \in k+1..Len(new) : new[j].devType # n
           LastOld(k) == /\ out[k] = Reply(n, TRUE)
                         /\ \A j \in k+1..Len(out) : out[j].devType # n
<1>5. (\E k \in 1..Len(new) : LastNew(k)) <=> (\E k \in 1..Len(out) : LastOld(k))
  <2>1. \A k \in 1..Len(new) : LastNew(k) => k \in 1..Len(out)
    BY <1>4
  <2>2. ASSUME NEW k \in 1..Len(out)
        PROVE  k \in 1..Len(new) /\ (LastNew(k) <=> LastOld(k))
    <3>1. k \in 1..Len(new) /\ new[k] = out[k]
      BY <1>1
    <3> QED BY <1>3, <3>1
  <2> HIDE DEF LastNew, LastOld
  <2> QED BY <2>1, <2>2
<1> QED BY <1>2, <1>5 DEF WillShow, new

\* ... and showing the first answer changes nothing.
LEMMA FirstAnswerShown ==
    ASSUME NEW out \in Seq(Result), out # <<>>, NEW n \in DevNames, NEW shown \in BOOLEAN
    PROVE  WillShow(Tail(out), n, IF n = Head(out).devType THEN Head(out).success ELSE shown)
              <=> WillShow(out, n, shown)
<1> DEFINE rest == Tail(out)
           now  == IF n = Head(out).devType THEN Head(out).success ELSE shown
<1>1. /\ Head(out) = out[1] /\ Head(out) \in Result /\ Len(out) \in Nat \ {0}
      /\ Len(rest) = Len(out) - 1
      /\ \A k \in 1..Len(rest) : rest[k] = out[k+1]
  BY HeadTailProperties, EmptySeq, LenProperties
<1>2. Reply(n, TRUE).devType = n
  BY DEF Reply
<1>3. Head(out).devType = n /\ Head(out).success = TRUE <=> out[1] = Reply(n, TRUE)
  <2>1. out[1] = Reply(n, TRUE) => out[1].devType = n /\ out[1].success = TRUE
    BY DEF Reply
  <2>2. out[1].devType = n /\ out[1].success = TRUE => out[1] = Reply(n, TRUE)
    BY <1>1, ResultIsReply, Zenon
  <2> QED BY <1>1, <2>1, <2>2, Zenon
<1> HIDE DEF rest
<1>4. (\A k \in 1..Len(out) : out[k].devType # n) <=>
      (out[1].devType # n /\ \A k \in 1..Len(rest) : rest[k].devType # n)
  <2>1. ASSUME out[1].devType # n, \A k \in 1..Len(rest) : rest[k].devType # n,
               NEW k \in 1..Len(out)
        PROVE  out[k].devType # n
    <3>1. CASE k = 1
      BY <2>1, <3>1
    <3>2. CASE k # 1
      <4>1. k-1 \in 1..Len(rest) /\ rest[k-1] = out[k]
        BY <1>1, <3>2
      <4> QED BY <2>1, <4>1
    <3> QED BY <3>1, <3>2
  <2>2. ASSUME \A k \in 1..Len(out) : out[k].devType # n
        PROVE  out[1].devType # n /\ \A k \in 1..Len(rest) : rest[k].devType # n
    <3>1. 1 \in 1..Len(out) /\ \A k \in 1..Len(rest) : k+1 \in 1..Len(out)
      BY <1>1
    <3> QED BY <1>1, <2>2, <3>1
  <2> QED BY <2>1, <2>2
<1>5. ASSUME NEW k \in 1..Len(rest)
      PROVE  (\A j \in k+1..Len(rest) : rest[j].devType # n) <=>
             (\A j \in (k+1)+1..Len(out) : out[j].devType # n)
  <2>1. ASSUME \A j \in k+1..Len(rest) : rest[j].devType # n,
               NEW j \in (k+1)+1..Len(out)
        PROVE  out[j].devType # n
    <3>1. j-1 \in k+1..Len(rest) /\ rest[j-1] = out[j]
      BY <1>1
    <3> QED BY <2>1, <3>1
  <2>2. ASSUME \A j \in (k+1)+1..Len(out) : out[j].devType # n,
               NEW j \in k+1..Len(rest)
        PROVE  rest[j].devType # n
    <3>1. j+1 \in (k+1)+1..Len(out) /\ rest[j] = out[j+1]
      BY <1>1
    <3> QED BY <2>2, <3>1
  <2> QED BY <2>1, <2>2
<1>6. (\A j \in 1+1..Len(out) : out[j].devType # n) <=>
      (\A j \in 1..Len(rest) : rest[j].devType # n)
  <2>1. ASSUME \A j \in 1+1..Len(out) : out[j].devType # n, NEW j \in 1..Len(rest)
        PROVE  rest[j].devType # n
    <3>1. j+1 \in 1+1..Len(out) /\ rest[j] = out[j+1]
      BY <1>1
    <3> QED BY <2>1, <3>1
  <2>2. ASSUME \A j \in 1..Len(rest) : rest[j].devType # n, NEW j \in 1+1..Len(out)
        PROVE  out[j].devType # n
    <3>1. j-1 \in 1..Len(rest) /\ rest[j-1] = out[j]
      BY <1>1
    <3> QED BY <2>2, <3>1
  <2> QED BY <2>1, <2>2
<1> DEFINE LastOut(k)  == /\ out[k] = Reply(n, TRUE)
                          /\ \A j \in k+1..Len(out) : out[j].devType # n
           LastRest(k) == /\ rest[k] = Reply(n, TRUE)
                          /\ \A j \in k+1..Len(rest) : rest[j].devType # n
<1>7. \A k \in 1..Len(rest) : LastRest(k) <=> LastOut(k+1)
  BY <1>1, <1>5
<1>8. LastOut(1) <=> Head(out).devType = n /\ Head(out).success = TRUE
                  /\ \A j \in 1..Len(rest) : rest[j].devType # n
  BY <1>3, <1>6
<1>9. (\E k \in 1..Len(out) : LastOut(k)) <=> LastOut(1) \/ \E k \in 1..Len(rest) : LastRest(k)
  <2> HIDE DEF LastOut, LastRest
  <2>1. ASSUME NEW k \in 1..Len(out), LastOut(k), k # 1
        PROVE  \E i \in 1..Len(rest) : LastRest(i)
    <3>1. k-1 \in 1..Len(rest) /\ (k-1)+1 = k
      BY <1>1, <2>1
    <3> QED BY <1>7, <2>1, <3>1
  <2>2. ASSUME NEW k \in 1..Len(rest), LastRest(k)
        PROVE  \E i \in 1..Len(out) : LastOut(i)
    <3>1. k+1 \in 1..Len(out)
      BY <1>1
    <3> QED BY <1>7, <2>2, <3>1
  <2>3. 1 \in 1..Len(out)
    BY <1>1
  <2> QED BY <2>1, <2>2, <2>3
<1>10. WillShow(out, n, shown) <=>
          \/ shown /\ \A k \in 1..Len(out) : out[k].devType # n
          \/ \E k \in 1..Len(out) : LastOut(k)
  BY DEF WillShow
<1>11. WillShow(rest, n, now) <=>
          \/ now /\ \A k \in 1..Len(rest) : rest[k].devType # n
          \/ \E k \in 1..Len(rest) : LastRest(k)
  BY DEF WillShow
<1>12. Head(out).devType = out[1].devType /\ Head(out).success \in BOOLEAN
  BY <1>1 DEF Result
<1> HIDE DEF LastOut, LastRest
<1>13. CASE n = Head(out).devType
  <2>1. now = Head(out).success
    BY <1>13
  <2> HIDE DEF now
  <2>2. WillShow(rest, n, now) <=> WillShow(out, n, shown)
    BY <1>4, <1>8, <1>9, <1>10, <1>11, <1>12, <1>13, <2>1
  <2> QED BY <2>2 DEF now, rest
<1>14. CASE n # Head(out).devType
  <2>1. now = shown
    BY <1>14
  <2> HIDE DEF now
  <2>2. WillShow(rest, n, now) <=> WillShow(out, n, shown)
    BY <1>4, <1>8, <1>9, <1>10, <1>11, <1>12, <1>14, <2>1
  <2> QED BY <2>2 DEF now, rest
<1> QED BY <1>13, <1>14

-----------------------------------------------------------------------------
(* What shows in the panels and what is online.                            *)

\* The three outcomes of slotAddDev.
LEMMA AddDevEffect ==
    ASSUME IndInv, SlotAddDev, NEW n, n = Head(inbox).dev
    PROVE  \/ UNCHANGED <<onlineDev, outbox>>
           \/ /\ n \in DevNames /\ isvalid(n)
              /\ onlineDev' = Append(onlineDev, NewDevice(n))
              /\ outbox' = Append(outbox, Reply(n, TRUE))
              /\ allow2Create(NewDevice(n))
           \/ /\ n \in DevNames /\ isvalid(n)
              /\ UNCHANGED onlineDev
              /\ outbox' = Append(outbox, Reply(n, FALSE))
<1>1. inbox \in Seq(Event) /\ Handling("signalAddDev")
  BY DEF IndInv, TypeOK, SlotAddDev
<1>2. isvalid(n) => n \in DevNames
  BY <1>1, ValidEventName
<1> QED BY <1>2 DEF SlotAddDev

\* The list has a device called n.
OnlineIn(list, n) == \E k \in 1..Len(list) : list[k].devTypeStr = n

\* Opening a device leaves the others online.
LEMMA OnlineAfterAdd ==
    ASSUME onlineDev \in Seq(Device), NEW d \in Device,
           onlineDev' = Append(onlineDev, d), NEW n
    PROVE  /\ OnlineIn(onlineDev, n) => OnlineIn(onlineDev', n)
           /\ n = d.devTypeStr => OnlineIn(onlineDev', n)
<1>1. /\ Len(onlineDev') = Len(onlineDev) + 1 /\ Len(onlineDev) \in Nat
      /\ \A k \in 1..Len(onlineDev) : onlineDev'[k] = onlineDev[k]
      /\ onlineDev'[Len(onlineDev) + 1] = d
  BY AppendProperties, LenProperties
<1> QED BY <1>1 DEF OnlineIn

\* So does closing one.
LEMMA OnlineAfterClose ==
    ASSUME onlineDev \in Seq(Device), NEW m, NEW p \in 1..Len(onlineDev), CloseOf(m, p),
           NEW n, n # m, OnlineIn(onlineDev, n)
    PROVE  OnlineIn(onlineDev', n)
<1>1. /\ Len(onlineDev) \in Nat
      /\ onlineDev' = RemoveAt(onlineDev, p)
      /\ onlineDev[p].devTypeStr = m
  BY LenProperties DEF CloseOf
<1>2. /\ Len(onlineDev') = Len(onlineDev) - 1
      /\ \A i \in 1..Len(onlineDev)-1 :
            onlineDev'[i] = IF i < p THEN onlineDev[i] ELSE onlineDev[i+1]
  BY <1>1, RemoveAtProperties
<1>3. PICK k \in 1..Len(onlineDev) : onlineDev[k].devTypeStr = n
  BY DEF OnlineIn
<1>4. k # p
  BY <1>1, <1>3
<1>5. CASE k < p
  <2>1. k \in 1..Len(onlineDev)-1 /\ onlineDev'[k] = onlineDev[k]
    BY <1>1, <1>2, <1>5
  <2> QED BY <1>2, <1>3, <2>1 DEF OnlineIn
<1>6. CASE k > p
  <2>1. k-1 \in 1..Len(onlineDev)-1 /\ onlineDev'[k-1] = onlineDev[k]
    BY <1>1, <1>2, <1>6
  <2> QED BY <1>2, <1>3, <2>1 DEF OnlineIn
<1> QED BY <1>4, <1>5, <1>6

\* A device that is online was made from a valid configured name.
LEMMA OnlineIsValid ==
    ASSUME onlineDev \in Seq(Device), NEW n, OnlineIn(onlineDev, n)
    PROVE  n \in DevNames /\ isvalid(n) /\ n # NoDev
<1>1. n \in DevNames /\ isvalid(n)
  BY ElementOfSeq, DeviceIsNewDevice DEF OnlineIn
<1>2. ~isvalid(NoDev)
  BY DEF NoDev, isvalid, Str2e_AShuErDevType, isvalidType, DevTypes,
         e_AShuErDevTypeError, MWS600, VD930A
<1> QED BY <1>1, <1>2

\* The steps that change neither the list, the results nor the panels.
LEMMA OtherSteps ==
    ASSUME [Next]_vars, ~AddDevResult, ~(SlotAddDev /\ UNCHANGED guiVars),
           ~(SlotDelDev /\ UNCHANGED guiVars)
    PROVE  UNCHANGED <<onlineDev, outbox, devList, online>>
BY DEF Next, Gui, StartDevice, AddConfigured, PollTimeout, Click, WorkerSlot, WorkerTimer,
       Slot, TimerTimeout, FacadeStart, EmitRequest, EmitPoll, SlotStart,
       SlotGetLatestData, SendCommand, LatestDataReady, vars, guiVars, deviceVars

-----------------------------------------------------------------------------
(* No panel shows a device open that is not online.                        *)

LEMMA NoGhostDeviceNext ==
    ASSUME GuiTypeOK, IndInv, NoGhostDevice, [Next]_vars
    PROVE  NoGhostDevice'
<1>1. /\ onlineDev \in Seq(Device) /\ outbox \in Seq(Result)
      /\ online \in [Panels -> BOOLEAN] /\ \A i \in Panels : online[i] \in BOOLEAN
      /\ \A i \in Panels : devList[i] \in DevNames
  BY ConfigsAssumption, ElementOfSeq DEF IndInv, TypeOK, GuiTypeOK, Panels
<1>2. \A i \in Panels : WillShowOnline(i) <=> WillShow(outbox, devList[i], online[i])
  BY DEF WillShowOnline, WillShow
<1>3. \A i \in Panels' : WillShowOnline(i)' <=> WillShow(outbox', devList'[i], online'[i])
  BY DEF WillShowOnline, WillShow
<1> DEFINE n == Head(inbox).dev
<1>4. CASE SlotAddDev /\ UNCHANGED guiVars
  <2>1. UNCHANGED <<devList, online>> /\ Panels' = Panels
    BY <1>4 DEF guiVars, Panels
  <2> SUFFICES ASSUME NEW i \in Panels, WillShow(outbox', devList[i], online[i])
               PROVE  OnlineIn(onlineDev', devList[i])
    BY <1>3, <2>1 DEF NoGhostDevice, IsOnline, OnlineIn
  <2>2. WillShow(outbox, devList[i], online[i]) => OnlineIn(onlineDev, devList[i])
    BY <1>2 DEF NoGhostDevice, IsOnline, OnlineIn
  <2>3. devList[i] \in DevNames /\ online[i] \in BOOLEAN
    BY <1>1
  <2>4. CASE UNCHANGED <<onlineDev, outbox>>
    BY <2>2, <2>4
  <2>5. CASE /\ n \in DevNames /\ isvalid(n)
             /\ onlineDev' = Append(onlineDev, NewDevice(n))
             /\ outbox' = Append(outbox, Reply(n, TRUE))
    <3>1. NewDevice(n) \in Device /\ NewDevice(n).devTypeStr = n
      BY <2>5, NewDeviceType
    <3>2. CASE devList[i] = n
      BY <1>1, <2>5, <3>1, <3>2, OnlineAfterAdd
    <3>3. CASE devList[i] # n
      <4>1. WillShow(outbox, devList[i], online[i])
        BY <1>1, <2>3, <2>5, <3>3, OtherAnswerShown
      <4>2. OnlineIn(onlineDev, devList[i])
        BY <2>2, <4>1
      <4> QED BY <1>1, <2>5, <3>1, <4>2, OnlineAfterAdd
    <3> QED BY <3>2, <3>3
  <2>6. CASE /\ n \in DevNames
             /\ UNCHANGED onlineDev
             /\ outbox' = Append(outbox, Reply(n, FALSE))
    <3>1. WillShow(Append(outbox, Reply(n, FALSE)), devList[i], online[i])
      BY <2>6
    <3>2. devList[i] # n
      BY <1>1, <2>6, <3>1, LastAnswerShown
    <3>3. WillShow(outbox, devList[i], online[i])
      BY <1>1, <2>3, <2>6, <3>1, <3>2, OtherAnswerShown
    <3> QED BY <2>2, <2>6, <3>3
  <2> QED BY <1>4, <2>4, <2>5, <2>6, AddDevEffect
<1>5. CASE SlotDelDev /\ UNCHANGED guiVars
  <2>1. UNCHANGED <<devList, online>> /\ Panels' = Panels
    BY <1>5 DEF guiVars, Panels
  <2> SUFFICES ASSUME NEW i \in Panels, WillShow(outbox', devList[i], online[i])
               PROVE  OnlineIn(onlineDev', devList[i])
    BY <1>3, <2>1 DEF NoGhostDevice, IsOnline, OnlineIn
  <2>2. WillShow(outbox, devList[i], online[i]) => OnlineIn(onlineDev, devList[i])
    BY <1>2 DEF NoGhostDevice, IsOnline, OnlineIn
  <2>3. devList[i] \in DevNames /\ online[i] \in BOOLEAN
    BY <1>1
  <2>4. CASE UNCHANGED <<onlineDev, outbox>>
    BY <2>2, <2>4
  <2>5. ASSUME NEW p \in 1..Len(onlineDev), CloseOf(n, p)
        PROVE  OnlineIn(onlineDev', devList[i])
    <3>1. n \in DevNames /\ outbox' = Append(outbox, Reply(n, FALSE))
      BY <2>5 DEF CloseOf
    <3>2. WillShow(Append(outbox, Reply(n, FALSE)), devList[i], online[i])
      BY <3>1
    <3>3. devList[i] # n
      BY <1>1, <3>1, <3>2, LastAnswerShown
    <3>4. WillShow(outbox, devList[i], online[i])
      BY <1>1, <2>3, <3>1, <3>2, <3>3, OtherAnswerShown
    <3>5. OnlineIn(onlineDev, devList[i])
      BY <2>2, <3>4
    <3> QED BY <1>1, <2>5, <3>3, <3>5, OnlineAfterClose
  <2> QED BY <1>5, <2>4, <2>5, DelDevEffect
<1>6. CASE AddDevResult
  <2>1. /\ outbox # <<>> /\ outbox' = Tail(outbox)
        /\ UNCHANGED <<onlineDev, devList>> /\ Panels' = Panels
    BY <1>6 DEF AddDevResult, TakeResult, deviceVars, Panels
  <2> SUFFICES ASSUME NEW i \in Panels, WillShow(outbox', devList[i], online'[i])
               PROVE  OnlineIn(onlineDev', devList[i])
    BY <1>3, <2>1 DEF NoGhostDevice, IsOnline, OnlineIn
  <2>2. online'[i] = IF devList[i] = Head(outbox).devType THEN Head(outbox).success
                                                          ELSE online[i]
    BY <1>6 DEF AddDevResult
  <2>3. WillShow(outbox, devList[i], online[i])
    BY <1>1, <2>1, <2>2, FirstAnswerShown
  <2> QED BY <1>2, <2>1, <2>3 DEF NoGhostDevice, IsOnline, OnlineIn
<1>7. CASE UNCHANGED <<onlineDev, outbox, devList, online>>
  BY <1>7 DEF NoGhostDevice, WillShowOnline, IsOnline, Panels
<1> QED BY <1>4, <1>5, <1>6, <1>7, OtherSteps

\* A panel that shows its device open, and will once the results on their way
\* have been shown, is right: the device is in m_onlineDev.
THEOREM NoGhost == Spec => []NoGhostDevice
<1>1. Init => NoGhostDevice
  BY DEF Init, WorkerInit, NoGhostDevice, WillShowOnline
<1>2. GuiTypeOK /\ IndInv /\ NoGhostDevice /\ [Next]_vars => NoGhostDevice'
  BY NoGhostDeviceNext
<1> QED BY <1>1, <1>2, ServerInvariant, PTL DEF Spec

-----------------------------------------------------------------------------
(* A wedged panel stays wedged.                                            *)

\* The panels of one name show the same.
SameNameSameState ==
    \A i, j \in Panels : devList[i] = devList[j] => online[i] = online[j]

LEMMA SameNameNext ==
    ASSUME GuiTypeOK, SameNameSameState, [Next]_vars
    PROVE  SameNameSameState'
<1>1. CASE AddDevResult
  BY <1>1 DEF AddDevResult, SameNameSameState, Panels
<1>2. CASE UNCHANGED <<devList, online>>
  BY <1>2 DEF SameNameSameState, Panels
<1> QED
  BY <1>1, <1>2 DEF Next, Gui, StartDevice, AddConfigured, PollTimeout, Click, WorkerSlot,
                    WorkerTimer, vars, guiVars

\* Neither queue holds anything that would close n or show it open.
NothingFor(events, out, n) ==
    /\ \A k \in 1..Len(events) : events[k].dev = n => events[k].sig = "signalAddDev"
    /\ \A k \in 1..Len(out) : out[k].devType = n => ~out[k].success

LEMMA EventAppended ==
    ASSUME NEW events \in Seq(Event), NEW out, NEW n, NothingFor(events, out, n),
           NEW sig, NEW m, m = n => sig = "signalAddDev",
           [sig |-> sig, dev |-> m] \in Event
    PROVE  NothingFor(Append(events, [sig |-> sig, dev |-> m]), out, n)
<1> DEFINE e == [sig |-> sig, dev |-> m]
           new == Append(events, e)
<1>1. e \in Event /\ (e.dev = n => e.sig = "signalAddDev")
  OBVIOUS
<1> HIDE DEF e
<1>2. /\ Len(new) = Len(events) + 1 /\ Len(events) \in Nat
      /\ \A k \in 1..Len(events) : new[k] = events[k]
      /\ new[Len(events) + 1] = e
  BY <1>1, AppendProperties, LenProperties
<1> HIDE DEF new
<1>3. NothingFor(new, out, n)
  BY <1>1, <1>2 DEF NothingFor
<1> QED BY <1>3 DEF new, e

LEMMA ReplyAppended ==
    ASSUME NEW events, NEW out \in Seq(Result), NEW n, NothingFor(events, out, n),
           NEW m \in DevNames, NEW b \in BOOLEAN, m = n => ~b
    PROVE  NothingFor(events, Append(out, Reply(m, b)), n)
<1> DEFINE new == Append(out, Reply(m, b))
<1>1. /\ Len(new) = Len(out) + 1 /\ Len(out) \in Nat
      /\ \A k \in 1..Len(out) : new[k] = out[k]
      /\ new[Len(out) + 1].devType = m /\ new[Len(out) + 1].success = b
  BY AppendProperties, LenProperties DEF Reply, Result
<1> HIDE DEF new
<1>2. NothingFor(events, new, n)
  BY <1>1 DEF NothingFor
<1> QED BY <1>2 DEF new

LEMMA EventTaken ==
    ASSUME NEW events \in Seq(Event), events # <<>>, NEW out, NEW n,
           NothingFor(events, out, n)
    PROVE  /\ NothingFor(Tail(events), out, n)
           /\ Head(events).dev = n => Head(events).sig = "signalAddDev"
<1>1. /\ Len(events) \in Nat \ {0} /\ Head(events) = events[1]
      /\ Len(Tail(events)) = Len(events) - 1
      /\ \A k \in 1..Len(Tail(events)) : Tail(events)[k] = events[k+1]
  BY HeadTailProperties, EmptySeq, LenProperties
<1>2. 1 \in 1..Len(events) /\ \A k \in 1..Len(Tail(events)) : k+1 \in 1..Len(events)
  BY <1>1
<1> QED BY <1>1, <1>2 DEF NothingFor

LEMMA ReplyTaken ==
    ASSUME NEW events, NEW out \in Seq(Result), out # <<>>, NEW n,
           NothingFor(events, out, n)
    PROVE  /\ NothingFor(events, Tail(out), n)
           /\ Head(out).devType = n => ~Head(out).success
<1>1. /\ Len(out) \in Nat \ {0} /\ Head(out) = out[1]
      /\ Len(Tail(out)) = Len(out) - 1
      /\ \A k \in 1..Len(Tail(out)) : Tail(out)[k] = out[k+1]
  BY HeadTailProperties, EmptySeq, LenProperties
<1>2. 1 \in 1..Len(out) /\ \A k \in 1..Len(Tail(out)) : k+1 \in 1..Len(out)
  BY <1>1
<1> QED BY <1>1, <1>2 DEF NothingFor

LEMMA WedgedNext ==
    ASSUME GuiTypeOK, IndInv, SameNameSameState, [Next]_vars,
           NEW i \in Panels, NEW n, n = devList[i],
           OnlineIn(onlineDev, n), ~online[i], NothingFor(inbox, outbox, n)
    PROVE  OnlineIn(onlineDev', n) /\ ~online'[i] /\ NothingFor(inbox', outbox', n)
<1>1. /\ onlineDev \in Seq(Device) /\ outbox \in Seq(Result) /\ inbox \in Seq(Event)
      /\ \A j \in Panels : devList[j] \in DevNames
  BY ConfigsAssumption, ElementOfSeq DEF IndInv, TypeOK, GuiTypeOK, Panels
<1>2. n \in DevNames /\ isvalid(n) /\ n # NoDev
  BY <1>1, OnlineIsValid
<1>3. ASSUME NEW sig, NEW m, Emit(sig, m), [sig |-> sig, dev |-> m] \in Event,
             m = n => sig = "signalAddDev", UNCHANGED <<outbox, onlineDev, online>>
      PROVE  OnlineIn(onlineDev', n) /\ ~online'[i] /\ NothingFor(inbox', outbox', n)
  <2>1. inbox' = Append(inbox, [sig |-> sig, dev |-> m])
    BY <1>3 DEF Emit
  <2>2. NothingFor(inbox', outbox, n)
    BY <1>1, <1>3, <2>1, EventAppended
  <2> QED BY <1>3, <2>2
<1>4. CASE StartDevice
  BY <1>2, <1>3, <1>4 DEF StartDevice, FacadeStart, deviceVars, guiVars, Event, Signals
<1>5. CASE AddConfigured
  <2>1. added + 1 \in Panels
    BY <1>5, ConfigsAssumption, LenProperties DEF AddConfigured, GuiTypeOK, Panels
  <2>2. devList[added + 1] \in DevNames
    BY <1>1, <2>1
  <2> QED BY <1>3, <1>5, <2>2 DEF AddConfigured, EmitRequest, deviceVars, Event, Signals
<1>6. CASE PollTimeout
  BY <1>2, <1>3, <1>6 DEF PollTimeout, EmitPoll, deviceVars, guiVars, Event, Signals
<1>7. ASSUME NEW j \in Panels, Click(j)
      PROVE  OnlineIn(onlineDev', n) /\ ~online'[i] /\ NothingFor(inbox', outbox', n)
  <2>1. devList[j] \in DevNames
    BY <1>1
  <2>2. CASE online[j] /\ EmitRequest("signalDelDev", devList[j])
    <3>1. devList[j] # n
      BY <2>2 DEF SameNameSameState
    <3> QED BY <1>3, <1>7, <2>1, <2>2, <3>1
            DEF Click, EmitRequest, deviceVars, guiVars, Event, Signals
  <2>3. CASE EmitRequest("signalAddDev", devList[j])
    BY <1>3, <1>7, <2>1, <2>3 DEF Click, EmitRequest, deviceVars, guiVars, Event, Signals
  <2> QED BY <1>7, <2>2, <2>3 DEF Click
<1>8. CASE AddDevResult
  <2>1. /\ outbox # <<>> /\ outbox' = Tail(outbox) /\ UNCHANGED <<inbox, onlineDev>>
        /\ online'[i] = IF n = Head(outbox).devType THEN Head(outbox).success ELSE online[i]
    BY <1>8 DEF AddDevResult, TakeResult, deviceVars
  <2>2. /\ NothingFor(inbox, Tail(outbox), n)
        /\ Head(outbox).devType = n => ~Head(outbox).success
    BY <1>1, <2>1, ReplyTaken
  <2> QED BY <2>1, <2>2
<1>9. ASSUME NEW sig, Handling(sig)
      PROVE  NothingFor(inbox', outbox, n) /\ (Head(inbox).dev = n => sig = "signalAddDev")
  BY <1>1, <1>9, EventTaken DEF Handling
<1>10. CASE SlotStart /\ UNCHANGED guiVars
  BY <1>9, <1>10 DEF SlotStart, guiVars
<1>11. CASE SlotAddDev /\ UNCHANGED guiVars
  <2>1. PICK m : m = Head(inbox).dev
    OBVIOUS
  <2>2. UNCHANGED online /\ NothingFor(inbox', outbox, n)
    BY <1>9, <1>11 DEF SlotAddDev, guiVars
  <2>3. CASE UNCHANGED <<onlineDev, outbox>>
    BY <2>2, <2>3
  <2>4. CASE /\ m \in DevNames /\ isvalid(m)
             /\ onlineDev' = Append(onlineDev, NewDevice(m))
             /\ outbox' = Append(outbox, Reply(m, TRUE))
             /\ allow2Create(NewDevice(m))
    <3>1. m # n
      <4>1. PICK k \in 1..Len(onlineDev) : onlineDev[k].devTypeStr = n
        BY DEF OnlineIn
      <4>2. onlineDev[k] = NewDevice(n)
        BY <1>1, <4>1, ElementOfSeq, DeviceIsNewDevice
      <4>3. ~allow2Create(NewDevice(n))
        BY <4>2 DEF allow2Create
      <4> QED BY <2>4, <4>3
    <3>2. NothingFor(inbox', outbox', n)
      BY <1>1, <2>2, <2>4, <3>1, ReplyAppended
    <3>3. NewDevice(m) \in Device
      BY <2>4, NewDeviceType
    <3>4. OnlineIn(onlineDev', n)
      BY <1>1, <2>4, <3>3, OnlineAfterAdd
    <3> QED BY <2>2, <3>2, <3>4
  <2>5. CASE /\ m \in DevNames
             /\ UNCHANGED onlineDev
             /\ outbox' = Append(outbox, Reply(m, FALSE))
    <3>1. NothingFor(inbox', outbox', n)
      BY <1>1, <2>2, <2>5, ReplyAppended
    <3> QED BY <2>2, <2>5, <3>1
  <2> QED BY <1>11, <2>1, <2>3, <2>4, <2>5, AddDevEffect
<1>12. CASE SlotDelDev /\ UNCHANGED guiVars
  <2>1. PICK m : m = Head(inbox).dev
    OBVIOUS
  <2>2. UNCHANGED online /\ NothingFor(inbox', outbox, n) /\ m # n
    BY <1>9, <1>12, <2>1 DEF SlotDelDev, guiVars
  <2>3. CASE UNCHANGED <<onlineDev, outbox>>
    BY <2>2, <2>3
  <2>4. ASSUME NEW p \in 1..Len(onlineDev), CloseOf(m, p)
        PROVE  OnlineIn(onlineDev', n) /\ ~online'[i] /\ NothingFor(inbox', outbox', n)
    <3>1. m \in DevNames /\ outbox' = Append(outbox, Reply(m, FALSE))
      BY <2>4 DEF CloseOf
    <3>2. NothingFor(inbox', outbox', n)
      BY <1>1, <2>2, <3>1, ReplyAppended
    <3>3. OnlineIn(onlineDev', n)
      BY <1>1, <2>2, <2>4, OnlineAfterClose
    <3> QED BY <2>2, <3>2, <3>3
  <2> QED BY <1>12, <2>1, <2>3, <2>4, DelDevEffect
<1>13. CASE SlotGetLatestData /\ UNCHANGED guiVars
  BY <1>9, <1>13 DEF SlotGetLatestData, guiVars
<1>14. CASE UNCHANGED <<inbox, outbox, onlineDev, online>>
  BY <1>14
<1>15. CASE WorkerTimer
  BY <1>14, <1>15 DEF WorkerTimer, TimerTimeout, SendCommand, LatestDataReady, guiVars
<1>16. CASE UNCHANGED vars
  BY <1>14, <1>16 DEF vars
<1> QED
  BY <1>4, <1>5, <1>6, <1>7, <1>8, <1>10, <1>11, <1>12, <1>13, <1>15, <1>16
  DEF Next, Gui, WorkerSlot, Slot

\* Once a device is online while its panel shows it closed, and nothing on its
\* way changes that, no click, poll or startup request ever does.
THEOREM WedgedPanelStays == Spec => WedgedForever
<1> DEFINE Step == \A i \in Panels : Wedged(i) => Wedged(i)'
<1>1. Init => SameNameSameState
  BY DEF Init, SameNameSameState
<1>2. Spec => [](GuiTypeOK /\ IndInv /\ SameNameSameState)
  <2>1. GuiTypeOK /\ SameNameSameState /\ [Next]_vars => SameNameSameState'
    BY SameNameNext
  <2> QED BY <1>1, <2>1, ServerInvariant, PTL DEF Spec
<1>3. ASSUME GuiTypeOK, IndInv, SameNameSameState, [Next]_vars PROVE [Step]_vars
  <2> SUFFICES ASSUME NEW i \in Panels, Wedged(i) PROVE Wedged(i)'
    OBVIOUS
  <2>1. UNCHANGED devList
    BY <1>3 DEF Next, Gui, StartDevice, AddConfigured, PollTimeout, AddDevResult, Click,
                WorkerSlot, WorkerTimer, vars, guiVars
  <2>2. PICK n : n = devList[i]
    OBVIOUS
  <2>3. OnlineIn(onlineDev, n) /\ ~online[i] /\ NothingFor(inbox, outbox, n)
    BY <2>2 DEF Wedged, IsOnline, OnlineIn, NothingFor
  <2>4. OnlineIn(onlineDev', n) /\ ~online'[i] /\ NothingFor(inbox', outbox', n)
    BY <1>3, <2>2, <2>3, WedgedNext
  <2> QED BY <2>1, <2>2, <2>4 DEF Wedged, IsOnline, OnlineIn, NothingFor, Panels
<1>4. Spec => [][Step]_vars
  BY <1>2, <1>3, PTL DEF Spec
<1> QED BY <1>4 DEF WedgedForever

-----------------------------------------------------------------------------
(* With a patient user and no name twice, every panel shows the truth.      *)

\* At most one request or answer for n is under way.
Alone(events, out, n) ==
    /\ \A j, k \in 1..Len(events) : events[j].dev = n /\ events[k].dev = n => j = k
    /\ \A j, k \in 1..Len(out) : out[j].devType = n /\ out[k].devType = n => j = k
    /\ \A j \in 1..Len(events), k \in 1..Len(out) : events[j].dev # n \/ out[k].devType # n

NoneFor(events, out, n) ==
    /\ \A k \in 1..Len(events) : events[k].dev # n
    /\ \A k \in 1..Len(out) : out[k].devType # n

\* The panel of n shows "shown", the device is online or not ("on"), and Widget has
\* or has not asked for it yet.  A request on its way asks for the opposite of what
\* is shown, an answer on its way tells what is so, and without an answer the panel
\* is right.
Tidy(events, out, on, n, shown, asked) ==
    /\ Alone(events, out, n)
    /\ \A k \in 1..Len(events) : events[k].dev = n =>
          events[k].sig = IF shown THEN "signalDelDev" ELSE "signalAddDev"
    /\ \A k \in 1..Len(out) : out[k].devType = n => (out[k].success <=> on)
    /\ (\A k \in 1..Len(out) : out[k].devType # n) => (shown <=> on)
    /\ ~asked => NoneFor(events, out, n) /\ ~shown

\* A sequence with one element more, or without its first.
LEMMA Appended ==
    ASSUME NEW S, NEW s \in Seq(S), NEW x \in S
    PROVE  /\ Len(Append(s, x)) = Len(s) + 1 /\ Len(s) \in Nat
           /\ \A k \in 1..Len(s) : Append(s, x)[k] = s[k]
           /\ Append(s, x)[Len(s) + 1] = x
BY AppendProperties, LenProperties

LEMMA Shortened ==
    ASSUME NEW S, NEW s \in Seq(S), s # <<>>
    PROVE  /\ Len(s) \in Nat \ {0} /\ Head(s) = s[1] /\ 1 \in 1..Len(s)
           /\ Len(Tail(s)) = Len(s) - 1
           /\ \A k \in 1..Len(Tail(s)) : Tail(s)[k] = s[k+1] /\ k+1 \in 1..Len(s)
<1>1. /\ Len(s) \in Nat \ {0} /\ Head(s) = s[1] /\ Len(Tail(s)) = Len(s) - 1
      /\ \A k \in 1..Len(Tail(s)) : Tail(s)[k] = s[k+1]
  BY HeadTailProperties, EmptySeq, LenProperties
<1> QED BY <1>1

\* An event for another device, or the request of a panel with nothing under way.
LEMMA TidyEmit ==
    ASSUME NEW events \in Seq(Event), NEW out, NEW on \in BOOLEAN, NEW n,
           NEW shown \in BOOLEAN, NEW asked \in BOOLEAN,
           Tidy(events, out, on, n, shown, asked), NEW e \in Event,
           e.dev = n => /\ NoneFor(events, out, n)
                        /\ e.sig = IF shown THEN "signalDelDev" ELSE "signalAddDev",
           NEW asks \in BOOLEAN, asked => asks, e.dev = n => asks
    PROVE  Tidy(Append(events, e), out, on, n, shown, asks)
<1> DEFINE new == Append(events, e)
<1>1. /\ Len(new) = Len(events) + 1 /\ Len(events) \in Nat
      /\ \A k \in 1..Len(events) : new[k] = events[k]
      /\ new[Len(events) + 1] = e
  BY Appended
<1> HIDE DEF new
<1>2. \A k \in 1..Len(new) : k \in 1..Len(events) \/ k = Len(events) + 1 BY <1>1
<1>3. Alone(new, out, n) BY <1>1, <1>2 DEF Tidy, Alone, NoneFor
<1>4. \A k \in 1..Len(new) : new[k].dev = n =>
          new[k].sig = IF shown THEN "signalDelDev" ELSE "signalAddDev"
  BY <1>1, <1>2 DEF Tidy
<1>5. ~asks => NoneFor(new, out, n) /\ ~shown BY <1>1, <1>2 DEF Tidy, NoneFor
<1>6. Tidy(new, out, on, n, shown, asks) BY <1>3, <1>4, <1>5 DEF Tidy
<1> QED BY <1>6 DEF new

\* A slot takes an event: without one for n nothing else changes for n.
LEMMA TidyTaken ==
    ASSUME NEW events \in Seq(Event), events # <<>>, NEW out, NEW on, NEW n, NEW shown,
           NEW asked, Tidy(events, out, on, n, shown, asked)
    PROVE  /\ Tidy(Tail(events), out, on, n, shown, asked)
           /\ Head(events).dev = n =>
                 /\ NoneFor(Tail(events), out, n) /\ asked
                 /\ Head(events).sig = IF shown THEN "signalDelDev" ELSE "signalAddDev"
<1> DEFINE rest == Tail(events)
<1>1. /\ Len(events) \in Nat \ {0} /\ Head(events) = events[1] /\ 1 \in 1..Len(events)
      /\ Len(rest) = Len(events) - 1
      /\ \A k \in 1..Len(rest) : rest[k] = events[k+1] /\ k+1 \in 1..Len(events)
  BY Shortened
<1> HIDE DEF rest
<1>2. Alone(rest, out, n)
  <2>1. ASSUME NEW j \in 1..Len(rest), NEW k \in 1..Len(rest),
               rest[j].dev = n, rest[k].dev = n
        PROVE  j = k
    <3>1. j+1 \in 1..Len(events) /\ k+1 \in 1..Len(events) BY <1>1
    <3>2. events[j+1].dev = n /\ events[k+1].dev = n BY <1>1, <2>1
    <3>3. j + 1 = k + 1 BY <3>1, <3>2 DEF Tidy, Alone
    <3> QED BY <3>3
  <2>2. \A j \in 1..Len(rest), k \in 1..Len(out) : rest[j].dev # n \/ out[k].devType # n
    BY <1>1 DEF Tidy, Alone
  <2>3. \A j, k \in 1..Len(out) : out[j].devType = n /\ out[k].devType = n => j = k
    BY DEF Tidy, Alone
  <2> QED BY <2>1, <2>2, <2>3 DEF Alone
<1>3. ~asked => NoneFor(rest, out, n) /\ ~shown BY <1>1 DEF Tidy, NoneFor
<1>4. Tidy(rest, out, on, n, shown, asked) BY <1>1, <1>2, <1>3 DEF Tidy
<1>5. ASSUME Head(events).dev = n
      PROVE  /\ NoneFor(rest, out, n) /\ asked
             /\ Head(events).sig = IF shown THEN "signalDelDev" ELSE "signalAddDev"
  <2>1. \A k \in 1..Len(rest) : k + 1 # 1 BY <1>1
  <2>2. NoneFor(rest, out, n) BY <1>1, <1>5, <2>1 DEF Tidy, Alone, NoneFor
  <2> QED BY <1>1, <1>5, <2>2 DEF Tidy, NoneFor
<1> QED BY <1>4, <1>5 DEF rest

\* An answer for another device.
LEMMA TidyOther ==
    ASSUME NEW events, NEW out \in Seq(Result), NEW on, NEW n, NEW shown, NEW asked,
           Tidy(events, out, on, n, shown, asked),
           NEW m \in DevNames, m # n, NEW b \in BOOLEAN
    PROVE  Tidy(events, Append(out, Reply(m, b)), on, n, shown, asked)
<1> DEFINE new == Append(out, Reply(m, b))
<1>0. Reply(m, b) \in Result /\ Reply(m, b).devType = m BY DEF Reply, Result
<1>1. /\ Len(new) = Len(out) + 1 /\ Len(out) \in Nat
      /\ \A k \in 1..Len(out) : new[k] = out[k]
      /\ new[Len(out) + 1].devType = m
  BY <1>0, Appended
<1> HIDE DEF new
<1>2. \A k \in 1..Len(new) : new[k].devType = n => k \in 1..Len(out) BY <1>1
<1>3. \A k \in 1..Len(out) : k \in 1..Len(new) BY <1>1
<1>4. Alone(events, new, n) BY <1>1, <1>2 DEF Tidy, Alone
<1>5. ~asked => NoneFor(events, new, n) /\ ~shown BY <1>1, <1>2 DEF Tidy, NoneFor
<1>6. Tidy(events, new, on, n, shown, asked) BY <1>1, <1>2, <1>3, <1>4, <1>5 DEF Tidy
<1> QED BY <1>6 DEF new

\* The answer for n, with nothing else under way.
LEMMA TidyAnswer ==
    ASSUME NEW events, NEW out \in Seq(Result), NEW n \in DevNames, NEW b \in BOOLEAN,
           NEW shown, NoneFor(events, out, n)
    PROVE  Tidy(events, Append(out, Reply(n, b)), b, n, shown, TRUE)
<1> DEFINE new == Append(out, Reply(n, b))
<1>0. Reply(n, b) \in Result /\ Reply(n, b).devType = n /\ Reply(n, b).success = b
  BY DEF Reply, Result
<1>1. /\ Len(new) = Len(out) + 1 /\ Len(out) \in Nat
      /\ \A k \in 1..Len(out) : new[k] = out[k]
      /\ new[Len(out) + 1].devType = n /\ new[Len(out) + 1].success = b
  BY <1>0, Appended
<1> HIDE DEF new
<1>2. \A k \in 1..Len(new) : new[k].devType = n => k = Len(out) + 1
  BY <1>1 DEF NoneFor
<1>3. Len(out) + 1 \in 1..Len(new) BY <1>1
<1>4. Alone(events, new, n) BY <1>2 DEF Alone, NoneFor
<1>5. Tidy(events, new, b, n, shown, TRUE) BY <1>1, <1>2, <1>3, <1>4 DEF Tidy, NoneFor
<1> QED BY <1>5 DEF new

\* A result is shown.
LEMMA TidyShown ==
    ASSUME NEW events, NEW out \in Seq(Result), out # <<>>, NEW on \in BOOLEAN, NEW n,
           NEW shown \in BOOLEAN, NEW asked \in BOOLEAN,
           Tidy(events, out, on, n, shown, asked), NEW now,
           now = IF n = Head(out).devType THEN Head(out).success ELSE shown
    PROVE  Tidy(events, Tail(out), on, n, now, asked)
<1> DEFINE rest == Tail(out)
<1>1. /\ Len(out) \in Nat \ {0} /\ Head(out) = out[1] /\ 1 \in 1..Len(out)
      /\ Len(rest) = Len(out) - 1
      /\ \A k \in 1..Len(rest) : rest[k] = out[k+1] /\ k+1 \in 1..Len(out)
  BY Shortened
<1> HIDE DEF rest
<1>2. Alone(events, rest, n)
  <2>1. ASSUME NEW j \in 1..Len(rest), NEW k \in 1..Len(rest),
               rest[j].devType = n, rest[k].devType = n
        PROVE  j = k
    <3>1. j+1 \in 1..Len(out) /\ k+1 \in 1..Len(out) BY <1>1
    <3>2. out[j+1].devType = n /\ out[k+1].devType = n BY <1>1, <2>1
    <3>3. j + 1 = k + 1 BY <3>1, <3>2 DEF Tidy, Alone
    <3> QED BY <3>3
  <2>2. \A j \in 1..Len(events), k \in 1..Len(rest) : events[j].dev # n \/ rest[k].devType # n
    BY <1>1 DEF Tidy, Alone
  <2>3. \A j, k \in 1..Len(events) : events[j].dev = n /\ events[k].dev = n => j = k
    BY DEF Tidy, Alone
  <2> QED BY <2>1, <2>2, <2>3 DEF Alone
<1>3. CASE n = Head(out).devType
  <2>1. \A k \in 1..Len(rest) : k + 1 # 1 BY <1>1
  <2>2. NoneFor(events, rest, n) BY <1>1, <1>3, <2>1 DEF Tidy, Alone, NoneFor
  <2>3. asked BY <1>1, <1>3 DEF Tidy, NoneFor
  <2>4. now <=> on BY <1>1, <1>3 DEF Tidy
  <2>5. Tidy(events, rest, on, n, now, asked) BY <1>2, <2>2, <2>3, <2>4 DEF Tidy, NoneFor
  <2> QED BY <2>5 DEF rest
<1>4. CASE n # Head(out).devType
  <2>1. now = shown BY <1>4
  <2>3. ASSUME \A k \in 1..Len(rest) : rest[k].devType # n,
               NEW k \in 1..Len(out), out[k].devType = n
        PROVE  FALSE
    <3>1. k # 1 BY <1>1, <1>4, <2>3
    <3>2. k - 1 \in 1..Len(rest) /\ (k - 1) + 1 = k BY <1>1, <3>1
    <3>3. rest[k-1] = out[k] BY <1>1, <3>2
    <3> QED BY <2>3, <3>2, <3>3
  <2>4. ~asked => NoneFor(events, rest, n) /\ ~shown BY <1>1 DEF Tidy, NoneFor
  <2>5. Tidy(events, rest, on, n, shown, asked) BY <1>1, <1>2, <2>3, <2>4 DEF Tidy
  <2> QED BY <2>1, <2>5 DEF rest
<1> QED BY <1>3, <1>4

-----------------------------------------------------------------------------
\* Opening or closing a device changes nothing for the others.
LEMMA OthersAfterAdd ==
    ASSUME onlineDev \in Seq(Device), NEW d \in Device,
           onlineDev' = Append(onlineDev, d), NEW n, n # d.devTypeStr
    PROVE  OnlineIn(onlineDev', n) <=> OnlineIn(onlineDev, n)
<1>1. /\ Len(onlineDev') = Len(onlineDev) + 1 /\ Len(onlineDev) \in Nat
      /\ \A k \in 1..Len(onlineDev) : onlineDev'[k] = onlineDev[k]
      /\ onlineDev'[Len(onlineDev) + 1] = d
  BY AppendProperties, LenProperties
<1>2. \A k \in 1..Len(onlineDev') : k \in 1..Len(onlineDev) \/ k = Len(onlineDev) + 1 BY <1>1
<1> QED BY <1>1, <1>2, OnlineAfterAdd DEF OnlineIn

LEMMA OthersAfterClose ==
    ASSUME onlineDev \in Seq(Device), NEW m, NEW p \in 1..Len(onlineDev), CloseOf(m, p),
           NEW n, n # m
    PROVE  OnlineIn(onlineDev', n) <=> OnlineIn(onlineDev, n)
<1>1. /\ Len(onlineDev) \in Nat /\ onlineDev' = RemoveAt(onlineDev, p)
  BY LenProperties DEF CloseOf
<1>2. /\ Len(onlineDev') = Len(onlineDev) - 1
      /\ \A i \in 1..Len(onlineDev)-1 :
            onlineDev'[i] = IF i < p THEN onlineDev[i] ELSE onlineDev[i+1]
  BY <1>1, RemoveAtProperties
<1>3. ASSUME NEW k \in 1..Len(onlineDev'), onlineDev'[k].devTypeStr = n
      PROVE  OnlineIn(onlineDev, n)
  <2>1. k \in 1..Len(onlineDev) /\ k + 1 \in 1..Len(onlineDev) BY <1>1, <1>2
  <2> QED BY <1>1, <1>2, <1>3, <2>1 DEF OnlineIn
<1>4. OnlineIn(onlineDev', n) => OnlineIn(onlineDev, n) BY <1>3 DEF OnlineIn
<1>5. OnlineIn(onlineDev, n) => OnlineIn(onlineDev', n) BY OnlineAfterClose
<1> QED BY <1>4, <1>5

\* No two panels have the same name.
NamesDiffer == \A i, j \in Panels : devList[i] = devList[j] => i = j

TidyPanel(i) == Tidy(inbox, outbox, OnlineIn(onlineDev, devList[i]), devList[i],
                     online[i], i <= added)

LEMMA TidyNext ==
    ASSUME GuiTypeOK, IndInv, PatientUser, NamesDiffer, [Next]_vars,
           NEW i \in Panels, isvalid(devList[i]), TidyPanel(i)
    PROVE  TidyPanel(i)'
<1> DEFINE n   == devList[i]
           on  == OnlineIn(onlineDev, n)
           Goal == Tidy(inbox', outbox', OnlineIn(onlineDev', n), n, online'[i], i <= added')
<1>1. /\ onlineDev \in Seq(Device) /\ outbox \in Seq(Result) /\ inbox \in Seq(Event)
      /\ \A j \in Panels : devList[j] \in DevNames
      /\ Len(devList) \in Nat /\ added \in Nat /\ added <= Len(devList) /\ i \in Nat
      /\ i <= Len(devList) /\ online[i] \in BOOLEAN
  <2>1. devList \in Seq(DevNames) /\ added \in 0..Len(devList) /\ i \in 1..Len(devList)
    BY ConfigsAssumption DEF GuiTypeOK, Panels
  <2>2. Len(devList) \in Nat BY <2>1, LenProperties
  <2>3. \A j \in Panels : devList[j] \in DevNames BY <2>1, ElementOfSeq DEF Panels
  <2>4. online[i] \in BOOLEAN BY DEF GuiTypeOK
  <2> QED BY <2>1, <2>2, <2>3, <2>4 DEF IndInv, TypeOK
<1>2. n \in DevNames /\ n # NoDev
  <2>1. ~isvalid(NoDev)
    BY DEF NoDev, isvalid, Str2e_AShuErDevType, isvalidType, DevTypes,
           e_AShuErDevTypeError, MWS600, VD930A
  <2> QED BY <1>1, <2>1
<1>3. on \in BOOLEAN /\ (i <= added) \in BOOLEAN BY DEF OnlineIn
<1>4. Tidy(inbox, outbox, on, n, online[i], i <= added) BY DEF TidyPanel
<1>5. UNCHANGED devList
  BY DEF Next, Gui, StartDevice, AddConfigured, PollTimeout, AddDevResult, Click,
         WorkerSlot, WorkerTimer, vars, guiVars
<1> SUFFICES Goal
  BY <1>5 DEF TidyPanel
<1> HIDE DEF n, on
<1>6. ASSUME NEW sig, NEW m, Emit(sig, m), [sig |-> sig, dev |-> m] \in Event,
             UNCHANGED <<outbox, onlineDev, online>>,
             (i <= added') \in BOOLEAN, i <= added => i <= added',
             m = n => /\ NoneFor(inbox, outbox, n) /\ i <= added'
                      /\ sig = IF online[i] THEN "signalDelDev" ELSE "signalAddDev"
      PROVE  Goal
  <2> DEFINE e == [sig |-> sig, dev |-> m]
  <2>1. e \in Event /\ e.dev = m /\ e.sig = sig /\ inbox' = Append(inbox, e)
    BY <1>6 DEF Emit
  <2> HIDE DEF e
  <2>2. Tidy(Append(inbox, e), outbox, on, n, online[i], i <= added')
    <3>1. e.dev = n => /\ NoneFor(inbox, outbox, n)
                       /\ e.sig = IF online[i] THEN "signalDelDev" ELSE "signalAddDev"
      BY <1>6, <2>1
    <3>2. e.dev = n => i <= added' BY <1>6, <2>1
    <3>3. i <= added => i <= added' BY <1>6
    <3>4. PICK asked \in BOOLEAN : asked = (i <= added) BY <1>3
    <3>5. PICK asks \in BOOLEAN : asks = (i <= added') BY <1>6
    <3>6. PICK shown \in BOOLEAN : shown = online[i] BY <1>1
    <3>7. Tidy(inbox, outbox, on, n, shown, asked) BY <1>4, <3>4, <3>6
    <3>8. /\ e.dev = n => /\ NoneFor(inbox, outbox, n)
                          /\ e.sig = IF shown THEN "signalDelDev" ELSE "signalAddDev"
          /\ asked => asks
          /\ e.dev = n => asks
      BY <3>1, <3>2, <3>3, <3>4, <3>5, <3>6
    <3>9. Tidy(Append(inbox, e), outbox, on, n, shown, asks)
      BY <1>1, <1>3, <2>1, <3>7, <3>8, TidyEmit
    <3> QED BY <3>5, <3>6, <3>9
  <2> QED BY <1>6, <2>1, <2>2 DEF on
<1>7. CASE StartDevice
  <2>1. /\ Emit("signalStart", NoDev) /\ UNCHANGED <<outbox, onlineDev, online, added>>
        /\ [sig |-> "signalStart", dev |-> NoDev] \in Event
    BY <1>7 DEF StartDevice, FacadeStart, deviceVars, guiVars, Event, Signals
  <2> QED BY <1>2, <1>3, <1>6, <2>1
<1>8. CASE AddConfigured
  <2>1. added + 1 \in Panels
    BY <1>8, ConfigsAssumption, LenProperties DEF AddConfigured, GuiTypeOK, Panels
  <2>2. /\ Emit("signalAddDev", devList[added + 1]) /\ added' = added + 1
        /\ UNCHANGED <<outbox, onlineDev, online>>
        /\ [sig |-> "signalAddDev", dev |-> devList[added + 1]] \in Event
    BY <1>1, <1>8, <2>1 DEF AddConfigured, EmitRequest, deviceVars, Event, Signals
  <2>3. devList[added + 1] = n => i = added + 1
    BY <2>1 DEF NamesDiffer, n
  <2>4. i = added + 1 => NoneFor(inbox, outbox, n) /\ ~online[i]
    BY <1>1, <1>4 DEF Tidy
  <2>5. (i <= added') \in BOOLEAN /\ (i <= added => i <= added') /\ (i = added + 1 => i <= added')
    BY <1>1, <2>2
  <2> QED BY <1>6, <2>2, <2>3, <2>4, <2>5
<1>9. CASE PollTimeout
  <2>1. /\ Emit("signalGetLatestData", NoDev) /\ UNCHANGED <<outbox, onlineDev, online, added>>
        /\ [sig |-> "signalGetLatestData", dev |-> NoDev] \in Event
    BY <1>9 DEF PollTimeout, EmitPoll, deviceVars, guiVars, Event, Signals
  <2> QED BY <1>2, <1>3, <1>6, <2>1
<1>10. ASSUME NEW j \in Panels, Click(j)
       PROVE  Goal
  <2>1. devList[j] \in DevNames BY <1>1
  <2>2. /\ UNCHANGED <<outbox, onlineDev, online, added>> /\ i <= added
        /\ \/ online[j] /\ Emit("signalDelDev", devList[j])
           \/ ~online[j] /\ Emit("signalAddDev", devList[j])
    BY <1>1, <1>10 DEF Click, EventLoop, EmitRequest, deviceVars, guiVars
  <2>3. devList[j] = n => j = i BY DEF NamesDiffer, n
  <2>4. devList[j] = n => NoneFor(inbox, outbox, n)
    BY <1>10 DEF Click, InFlight, NoneFor
  <2>5. CASE online[j] /\ Emit("signalDelDev", devList[j])
    <3>1. [sig |-> "signalDelDev", dev |-> devList[j]] \in Event
      BY <2>1 DEF Event, Signals
    <3> QED BY <1>3, <1>6, <2>2, <2>3, <2>4, <2>5, <3>1
  <2>6. CASE ~online[j] /\ Emit("signalAddDev", devList[j])
    <3>1. [sig |-> "signalAddDev", dev |-> devList[j]] \in Event
      BY <2>1 DEF Event, Signals
    <3> QED BY <1>3, <1>6, <2>2, <2>3, <2>4, <2>6, <3>1
  <2> QED BY <2>2, <2>5, <2>6
<1>11. CASE AddDevResult
  <2>1. /\ outbox # <<>> /\ outbox' = Tail(outbox) /\ UNCHANGED <<inbox, onlineDev, added>>
        /\ online'[i] = IF n = Head(outbox).devType THEN Head(outbox).success ELSE online[i]
    BY <1>11 DEF AddDevResult, TakeResult, deviceVars, n
  <2>2. Tidy(inbox, Tail(outbox), on, n, online'[i], i <= added)
    BY <1>1, <1>3, <1>4, <2>1, TidyShown
  <2> QED BY <2>1, <2>2 DEF on
<1>12. ASSUME NEW sig, Handling(sig)
       PROVE  /\ Tidy(inbox', outbox, on, n, online[i], i <= added)
              /\ Head(inbox).dev = n =>
                    /\ NoneFor(inbox', outbox, n) /\ i <= added
                    /\ sig = IF online[i] THEN "signalDelDev" ELSE "signalAddDev"
              /\ Head(inbox).dev = n => (online[i] <=> on)
  <2>1. /\ inbox # <<>> /\ inbox' = Tail(inbox) /\ Head(inbox).sig = sig
    BY <1>12 DEF Handling
  <2>2. /\ Tidy(Tail(inbox), outbox, on, n, online[i], i <= added)
        /\ Head(inbox).dev = n =>
              /\ NoneFor(Tail(inbox), outbox, n) /\ i <= added
              /\ Head(inbox).sig = IF online[i] THEN "signalDelDev" ELSE "signalAddDev"
    <3>1. PICK asked \in BOOLEAN : asked = (i <= added) BY <1>3
    <3>2. Tidy(inbox, outbox, on, n, online[i], asked) BY <1>4, <3>1
    <3>3. /\ Tidy(Tail(inbox), outbox, on, n, online[i], asked)
          /\ Head(inbox).dev = n =>
                /\ NoneFor(Tail(inbox), outbox, n) /\ asked
                /\ Head(inbox).sig = IF online[i] THEN "signalDelDev" ELSE "signalAddDev"
      BY <1>1, <2>1, <3>2, TidyTaken
    <3> QED BY <3>1, <3>3
  <2>3. Head(inbox).dev = n => (online[i] <=> on)
    BY <1>4, <2>2 DEF Tidy, NoneFor
  <2> QED BY <2>1, <2>2, <2>3
<1>13. CASE (SlotStart \/ SlotGetLatestData) /\ UNCHANGED guiVars
  <2>1. PICK sig : Handling(sig)
    BY <1>13 DEF SlotStart, SlotGetLatestData
  <2>2. UNCHANGED <<outbox, onlineDev, online, added>>
    BY <1>13 DEF SlotStart, SlotGetLatestData, guiVars
  <2> QED BY <1>12, <2>1, <2>2 DEF on
<1>14. CASE SlotAddDev /\ UNCHANGED guiVars
  <2>0. PICK m : m = Head(inbox).dev OBVIOUS
  <2>1. UNCHANGED <<online, added>> /\ Handling("signalAddDev")
    BY <1>14 DEF SlotAddDev, guiVars
  <2>2. CASE m # n
    <3>1. CASE UNCHANGED <<onlineDev, outbox>>
      BY <1>12, <2>1, <3>1 DEF on
    <3>2. CASE /\ m \in DevNames /\ isvalid(m)
               /\ onlineDev' = Append(onlineDev, NewDevice(m))
               /\ outbox' = Append(outbox, Reply(m, TRUE))
      <4>1. NewDevice(m) \in Device /\ NewDevice(m).devTypeStr = m BY <3>2, NewDeviceType
      <4>2. OnlineIn(onlineDev', n) <=> on BY <1>1, <2>2, <3>2, <4>1, OthersAfterAdd DEF on
      <4>3. OnlineIn(onlineDev', n) = on BY <1>3, <4>2 DEF OnlineIn
      <4>4. Tidy(inbox', outbox, on, n, online[i], i <= added) BY <1>12, <2>1
      <4>5. Tidy(inbox', outbox', on, n, online[i], i <= added)
        BY <1>1, <2>2, <3>2, <4>4, TidyOther
      <4> QED BY <2>1, <4>3, <4>5
    <3>3. CASE m \in DevNames /\ UNCHANGED onlineDev /\ outbox' = Append(outbox, Reply(m, FALSE))
      <4>4. Tidy(inbox', outbox, on, n, online[i], i <= added) BY <1>12, <2>1
      <4>5. Tidy(inbox', outbox', on, n, online[i], i <= added)
        BY <1>1, <2>2, <3>3, <4>4, TidyOther
      <4> QED BY <2>1, <3>3, <4>5 DEF on
    <3> QED BY <1>14, <2>0, <3>1, <3>2, <3>3, AddDevEffect
  <2>3. CASE m = n
    <3>1. NoneFor(inbox', outbox, n) /\ i <= added /\ ~online[i] /\ ~on
      BY <1>12, <2>0, <2>1, <2>3
    <3>2. \/ /\ onlineDev' = Append(onlineDev, NewDevice(n))
             /\ outbox' = Append(outbox, Reply(n, TRUE))
          \/ /\ UNCHANGED onlineDev
             /\ outbox' = Append(outbox, Reply(n, FALSE))
      BY <1>14, <2>0, <2>3 DEF SlotAddDev, n
    <3>3. ASSUME NEW b \in BOOLEAN, outbox' = Append(outbox, Reply(n, b)),
                 OnlineIn(onlineDev', n) <=> b
          PROVE  Goal
      <4>1. Tidy(inbox', outbox', b, n, online[i], TRUE)
        BY <1>1, <1>2, <3>1, <3>3, TidyAnswer
      <4>2. OnlineIn(onlineDev', n) = b BY <3>3 DEF OnlineIn
      <4>3. (i <= added') = TRUE BY <1>1, <2>1, <3>1
      <4> QED BY <2>1, <4>1, <4>2, <4>3
    <3>4. CASE onlineDev' = Append(onlineDev, NewDevice(n)) /\ outbox' = Append(outbox, Reply(n, TRUE))
      <4>1. isvalid(n) BY DEF n
      <4>2. NewDevice(n) \in Device /\ NewDevice(n).devTypeStr = n BY <1>2, <4>1, NewDeviceType
      <4>3. OnlineIn(onlineDev', n) BY <1>1, <3>4, <4>2, OnlineAfterAdd
      <4> QED BY <3>3, <3>4, <4>3
    <3>5. CASE UNCHANGED onlineDev /\ outbox' = Append(outbox, Reply(n, FALSE))
      BY <3>1, <3>3, <3>5 DEF on
    <3> QED BY <3>2, <3>4, <3>5
  <2> QED BY <2>2, <2>3
<1>15. CASE SlotDelDev /\ UNCHANGED guiVars
  <2>0. PICK m : m = Head(inbox).dev OBVIOUS
  <2>1. UNCHANGED <<online, added>> /\ Handling("signalDelDev")
    BY <1>15 DEF SlotDelDev, guiVars
  <2>2. CASE UNCHANGED <<onlineDev, outbox>> /\ m # n
    BY <1>12, <2>1, <2>2 DEF on
  <2>3. ASSUME NEW p \in 1..Len(onlineDev), CloseOf(m, p), m # n
        PROVE  Goal
    <3>1. m \in DevNames /\ outbox' = Append(outbox, Reply(m, FALSE))
      BY <2>3 DEF CloseOf
    <3>2. OnlineIn(onlineDev', n) <=> on BY <1>1, <2>3, OthersAfterClose DEF on
    <3>3. OnlineIn(onlineDev', n) = on BY <1>3, <3>2 DEF OnlineIn
    <3>4. Tidy(inbox', outbox, on, n, online[i], i <= added) BY <1>12, <2>1
    <3>5. Tidy(inbox', outbox', on, n, online[i], i <= added)
      BY <1>1, <2>3, <3>1, <3>4, TidyOther
    <3> QED BY <2>1, <3>3, <3>5
  <2>4. CASE m = n
    <3>1. NoneFor(inbox', outbox, n) /\ i <= added /\ on
      BY <1>12, <2>0, <2>1, <2>4
    <3>2. onlineDev' = RemoveDevices(onlineDev, n)
      BY <1>15, <2>0, <2>4 DEF SlotDelDev, n
    <3>3. ~OnlineIn(onlineDev', n)
      BY <1>1, <3>2, RemoveDevice DEF OnlineIn, IndInv
    <3>4. PICK p \in 1..Len(onlineDev) : CloseOf(n, p)
      BY <1>15, <2>0, <2>4, <3>1, <3>3, DelDevEffect DEF on
    <3>5. outbox' = Append(outbox, Reply(n, FALSE)) BY <3>4 DEF CloseOf
    <3>6. Tidy(inbox', outbox', FALSE, n, online[i], TRUE)
      BY <1>1, <1>2, <3>1, <3>5, TidyAnswer
    <3>7. OnlineIn(onlineDev', n) = FALSE BY <3>3 DEF OnlineIn
    <3>8. (i <= added') = TRUE BY <1>1, <2>1, <3>1
    <3> QED BY <2>1, <3>6, <3>7, <3>8
  <2> QED BY <1>15, <2>0, <2>2, <2>3, <2>4, DelDevEffect
<1>16. CASE UNCHANGED <<inbox, outbox, onlineDev, online, added>>
  BY <1>4, <1>16 DEF on
<1>17. CASE WorkerTimer
  BY <1>16, <1>17 DEF WorkerTimer, TimerTimeout, SendCommand, LatestDataReady, guiVars
<1>18. CASE UNCHANGED vars
  BY <1>16, <1>18 DEF vars
<1> QED
  BY <1>7, <1>8, <1>9, <1>10, <1>11, <1>13, <1>14, <1>15, <1>17, <1>18
  DEF Next, Gui, WorkerSlot, Slot

\* An invalid name is never answered, and its panel never shows it open.
InvalidIsQuiet ==
    /\ \A k \in 1..Len(outbox) : isvalid(outbox[k].devType)
    /\ \A i \in Panels : ~isvalid(devList[i]) => ~online[i]

LEMMA QuietNext ==
    ASSUME GuiTypeOK, IndInv, InvalidIsQuiet, [Next]_vars
    PROVE  InvalidIsQuiet'
<1>1. outbox \in Seq(Result) BY DEF IndInv, TypeOK
<1>2. ASSUME NEW m \in DevNames, isvalid(m), NEW b \in BOOLEAN,
             outbox' = Append(outbox, Reply(m, b)), UNCHANGED <<devList, online>>
      PROVE  InvalidIsQuiet'
  <2>1. Reply(m, b) \in Result /\ Reply(m, b).devType = m BY DEF Reply, Result
  <2>2. /\ Len(outbox') = Len(outbox) + 1 /\ Len(outbox) \in Nat
        /\ \A k \in 1..Len(outbox) : outbox'[k] = outbox[k]
        /\ outbox'[Len(outbox) + 1].devType = m
    BY <1>1, <1>2, <2>1, Appended
  <2>3. \A k \in 1..Len(outbox') : k \in 1..Len(outbox) \/ k = Len(outbox) + 1 BY <2>2
  <2>4. \A k \in 1..Len(outbox') : isvalid(outbox'[k].devType)
    BY <1>2, <2>2, <2>3 DEF InvalidIsQuiet
  <2> QED BY <1>2, <2>4 DEF InvalidIsQuiet, Panels
<1>3. CASE SlotAddDev /\ UNCHANGED guiVars
  <2>1. UNCHANGED <<devList, online>> BY <1>3 DEF guiVars
  <2>2. CASE UNCHANGED outbox BY <2>1, <2>2 DEF InvalidIsQuiet, Panels
  <2>3. PICK m : m = Head(inbox).dev OBVIOUS
  <2> QED BY <1>2, <1>3, <2>1, <2>2, <2>3, AddDevEffect
<1>4. CASE SlotDelDev /\ UNCHANGED guiVars
  <2>1. UNCHANGED <<devList, online>> BY <1>4 DEF guiVars
  <2>2. CASE UNCHANGED outbox BY <2>1, <2>2 DEF InvalidIsQuiet, Panels
  <2>3. PICK m : m = Head(inbox).dev OBVIOUS
  <2>4. ASSUME NEW p \in 1..Len(onlineDev), CloseOf(m, p) PROVE InvalidIsQuiet'
    <3>1. m \in DevNames /\ isvalid(m) /\ outbox' = Append(outbox, Reply(m, FALSE))
      BY <2>4 DEF CloseOf
    <3> QED BY <1>2, <2>1, <3>1
  <2> QED BY <1>4, <2>2, <2>3, <2>4, DelDevEffect
<1>5. CASE AddDevResult
  <2>1. /\ outbox # <<>> /\ outbox' = Tail(outbox) /\ UNCHANGED devList
        /\ online' = [i \in Panels |-> IF devList[i] = Head(outbox).devType
                                       THEN Head(outbox).success ELSE online[i]]
    BY <1>5 DEF AddDevResult, TakeResult
  <2>2. /\ Head(outbox) = outbox[1] /\ 1 \in 1..Len(outbox)
        /\ \A k \in 1..Len(outbox') : outbox'[k] = outbox[k+1] /\ k+1 \in 1..Len(outbox)
    BY <1>1, <2>1, Shortened
  <2>3. isvalid(Head(outbox).devType) BY <2>2 DEF InvalidIsQuiet
  <2>4. \A k \in 1..Len(outbox') : isvalid(outbox'[k].devType) BY <2>2 DEF InvalidIsQuiet
  <2>5. \A i \in Panels : ~isvalid(devList[i]) => ~online'[i]
    BY <2>1, <2>3 DEF InvalidIsQuiet
  <2> QED BY <2>1, <2>4, <2>5 DEF InvalidIsQuiet, Panels
<1>6. CASE UNCHANGED <<outbox, devList, online>>
  BY <1>6 DEF InvalidIsQuiet, Panels
<1> QED BY <1>3, <1>4, <1>5, <1>6, OtherSteps

\* With a patient user and no name twice in cfg.ini, a panel without a request
\* or an answer under way shows whether its device is online.
THEOREM PanelsTellTheTruth ==
    ASSUME PatientUser,
           \A c \in Configs : \A i, j \in 1..Len(c) : c[i] = c[j] => i = j
    PROVE  Spec => []PanelShowsDevice
<1> DEFINE Tidied == \A i \in Panels : isvalid(devList[i]) => TidyPanel(i)
           Inv    == NamesDiffer /\ InvalidIsQuiet /\ Tidied
<1>1. Init => Inv
  <2> SUFFICES ASSUME Init PROVE Inv
    OBVIOUS
  <2>1. NamesDiffer BY DEF Init, NamesDiffer, Panels
  <2>2. InvalidIsQuiet BY DEF Init, WorkerInit, InvalidIsQuiet
  <2>3. ASSUME NEW i \in Panels PROVE TidyPanel(i)
    <3>1. inbox = <<>> /\ outbox = <<>> /\ onlineDev = <<>> /\ ~online[i]
      BY DEF Init, WorkerInit
    <3>2. ~OnlineIn(onlineDev, devList[i]) BY <3>1 DEF OnlineIn
    <3> QED BY <3>1, <3>2 DEF TidyPanel, Tidy, Alone, NoneFor
  <2> QED BY <2>1, <2>2, <2>3
<1>2. GuiTypeOK /\ IndInv /\ Inv /\ [Next]_vars => Inv'
  <2> SUFFICES ASSUME GuiTypeOK, IndInv, Inv, [Next]_vars PROVE Inv'
    OBVIOUS
  <2>1. UNCHANGED devList
    BY DEF Next, Gui, StartDevice, AddConfigured, PollTimeout, AddDevResult, Click,
           WorkerSlot, WorkerTimer, vars, guiVars
  <2>2. NamesDiffer' BY <2>1 DEF NamesDiffer, Panels
  <2>3. InvalidIsQuiet' BY QuietNext
  <2>4. ASSUME NEW i \in Panels', isvalid(devList'[i]) PROVE TidyPanel(i)'
    <3>1. i \in Panels /\ isvalid(devList[i]) BY <2>1, <2>4 DEF Panels
    <3> QED BY <3>1, TidyNext
  <2> QED BY <2>2, <2>3, <2>4
<1>3. GuiTypeOK /\ IndInv /\ Inv => PanelShowsDevice
  <2> SUFFICES ASSUME GuiTypeOK, IndInv, Inv, NEW i \in Panels, ~InFlight(devList[i])
               PROVE  online[i] <=> OnlineIn(onlineDev, devList[i])
    BY DEF PanelShowsDevice, IsOnline, OnlineIn
  <2>1. CASE isvalid(devList[i])
    <3>1. \A k \in 1..Len(outbox) : outbox[k].devType # devList[i] BY DEF InFlight
    <3> QED BY <2>1, <3>1 DEF TidyPanel, Tidy
  <2>2. CASE ~isvalid(devList[i])
    <3>1. ~online[i] BY <2>2 DEF InvalidIsQuiet
    <3>2. ~OnlineIn(onlineDev, devList[i])
      BY <2>2, OnlineIsValid DEF IndInv, TypeOK
    <3> QED BY <3>1, <3>2
  <2> QED BY <2>1, <2>2
<1> HIDE DEF Inv
<1> QED BY <1>1, <1>2, <1>3, ServerInvariant, PTL DEF Spec

-----------------------------------------------------------------------------
(* The order of cfg.ini decides.                                           *)

Asks(e, n) == e.sig = "signalAddDev" /\ e.dev = n

\* A request for n waits in the queue, and no request for a rival is before it.
Waits(events, n) ==
    \E k \in 1..Len(events) :
        /\ Asks(events[k], n)
        /\ \A j \in 1..k-1 :
              events[j].sig = "signalAddDev" => ~Rivals(events[j].dev, n)

LEMMA WaitsOn ==
    ASSUME NEW events \in Seq(Event), NEW e \in Event, NEW n, Waits(events, n)
    PROVE  Waits(Append(events, e), n)
<1> DEFINE new == Append(events, e)
<1>1. /\ Len(new) = Len(events) + 1 /\ Len(events) \in Nat
      /\ \A k \in 1..Len(events) : new[k] = events[k]
  BY AppendProperties, LenProperties
<1> HIDE DEF new
<1>2. PICK k \in 1..Len(events) :
         /\ Asks(events[k], n)
         /\ \A j \in 1..k-1 : events[j].sig = "signalAddDev" => ~Rivals(events[j].dev, n)
  BY DEF Waits
<1>3. k \in 1..Len(new) /\ Asks(new[k], n) BY <1>1, <1>2
<1>4. \A j \in 1..k-1 : new[j] = events[j] BY <1>1
<1>5. Waits(new, n) BY <1>2, <1>3, <1>4 DEF Waits
<1> QED BY <1>5 DEF new

LEMMA WaitsLast ==
    ASSUME NEW events \in Seq(Event), NEW e \in Event, NEW n, Asks(e, n),
           \A j \in 1..Len(events) :
              events[j].sig = "signalAddDev" => ~Rivals(events[j].dev, n)
    PROVE  Waits(Append(events, e), n)
<1> DEFINE new == Append(events, e)
           k   == Len(events) + 1
<1>1. /\ Len(new) = k /\ Len(events) \in Nat
      /\ \A j \in 1..Len(events) : new[j] = events[j]
      /\ new[k] = e
  BY AppendProperties, LenProperties
<1> HIDE DEF new
<1>2. k \in 1..Len(new) /\ \A j \in 1..k-1 : j \in 1..Len(events) BY <1>1
<1>3. Waits(new, n) BY <1>1, <1>2 DEF Waits
<1> QED BY <1>3 DEF new

\* The first event is no rival's request; if it is another's, n still waits.
LEMMA WaitsFirst ==
    ASSUME NEW events \in Seq(Event), events # <<>>, NEW n, Waits(events, n)
    PROVE  /\ Asks(Head(events), n) \/ Waits(Tail(events), n)
           /\ Head(events).sig = "signalAddDev" => ~Rivals(Head(events).dev, n)
<1> DEFINE rest == Tail(events)
<1>1. /\ Len(events) \in Nat \ {0} /\ Head(events) = events[1]
      /\ Len(rest) = Len(events) - 1
      /\ \A k \in 1..Len(rest) : rest[k] = events[k+1]
  BY HeadTailProperties, EmptySeq, LenProperties
<1> HIDE DEF rest
<1>2. PICK k \in 1..Len(events) :
         /\ Asks(events[k], n)
         /\ \A j \in 1..k-1 : events[j].sig = "signalAddDev" => ~Rivals(events[j].dev, n)
  BY DEF Waits
<1>3. CASE k = 1
  BY <1>1, <1>2, <1>3 DEF Asks, Rivals
<1>4. CASE k # 1
  <2>1. 1 \in 1..k-1 /\ k-1 \in 1..Len(rest) BY <1>1, <1>4
  <2>2. Asks(rest[k-1], n) BY <1>1, <1>2, <2>1
  <2>3. \A j \in 1..(k-1)-1 : j+1 \in 1..k-1 /\ rest[j] = events[j+1] BY <1>1
  <2>4. Waits(rest, n) BY <1>2, <2>1, <2>2, <2>3 DEF Waits
  <2> QED BY <1>1, <1>2, <2>1, <2>4 DEF rest
<1> QED BY <1>3, <1>4

\* What is asked for or online was listed among the first `added` entries.
Listed(n) == \E j \in 1..added : n = devList[j]

StartupInv ==
    /\ \A k \in 1..Len(inbox) : inbox[k].sig = "signalAddDev" => Listed(inbox[k].dev)
    /\ \A n : OnlineIn(onlineDev, n) => Listed(n)
    /\ \A i \in 1..added : FirstOfCategory(i) =>
          /\ OnlineIn(onlineDev, devList[i]) \/ Waits(inbox, devList[i])
          /\ \A n : OnlineIn(onlineDev, n) => ~Rivals(n, devList[i])

\* The entry after those asked for, if it is the first of its category, has no
\* rival yet.
LEMMA NextHasNoRival ==
    ASSUME GuiTypeOK, added < Len(devList), FirstOfCategory(added + 1), NEW n, Listed(n)
    PROVE  ~Rivals(n, devList[added + 1])
<1>1. added \in Nat BY ConfigsAssumption, LenProperties DEF GuiTypeOK
<1>2. PICK j \in 1..added : n = devList[j] BY DEF Listed
<1>3. j \in 1..(added + 1)-1 BY <1>1
<1> QED BY <1>2, <1>3 DEF FirstOfCategory, Rivals

\* A device that is online keeps its own kind out: what allow2Create refuses is a
\* rival's or its own.
LEMMA AcceptedIsNoRival ==
    ASSUME onlineDev \in Seq(Device), NEW n, NEW m, OnlineIn(onlineDev, m),
           allow2Create(NewDevice(n))
    PROVE  n # m /\ ~isExclusion(NewDevice(n), NewDevice(m))
<1>1. PICK k \in 1..Len(onlineDev) : onlineDev[k].devTypeStr = m BY DEF OnlineIn
<1>2. onlineDev[k] = NewDevice(m) BY <1>1, ElementOfSeq, DeviceIsNewDevice
<1> QED BY <1>1, <1>2 DEF allow2Create, isExclusion

LEMMA RefusedHasRival ==
    ASSUME onlineDev \in Seq(Device), NEW n, ~allow2Create(NewDevice(n))
    PROVE  \E m : OnlineIn(onlineDev, m) /\ isExclusion(NewDevice(m), NewDevice(n))
<1>1. PICK k \in 1..Len(onlineDev) :
         \/ onlineDev[k].devType = NewDevice(n).devType
         \/ onlineDev[k].devCategory = NewDevice(n).devCategory
  BY DEF allow2Create
<1>2. onlineDev[k] = NewDevice(onlineDev[k].devTypeStr)
  BY ElementOfSeq, DeviceIsNewDevice
<1>3. isExclusion(NewDevice(onlineDev[k].devTypeStr), NewDevice(n))
  BY <1>1, <1>2 DEF isExclusion
<1> QED BY <1>3 DEF OnlineIn

\* A step that only posts an event.
LEMMA PostKeepsOrder ==
    ASSUME inbox \in Seq(Event), StartupInv, NEW e \in Event, inbox' = Append(inbox, e),
           UNCHANGED <<onlineDev, devList, added>>,
           e.sig = "signalAddDev" => Listed(e.dev)
    PROVE  StartupInv'
<1>1. /\ Len(inbox') = Len(inbox) + 1 /\ Len(inbox) \in Nat
      /\ \A k \in 1..Len(inbox) : inbox'[k] = inbox[k]
      /\ inbox'[Len(inbox) + 1] = e
  BY AppendProperties, LenProperties
<1>2. \A n : Listed(n)' <=> Listed(n) BY DEF Listed
<1>3. \A i : FirstOfCategory(i)' <=> FirstOfCategory(i) BY DEF FirstOfCategory
<1>4. \A k \in 1..Len(inbox') : inbox'[k].sig = "signalAddDev" => Listed(inbox'[k].dev)
  BY <1>1 DEF StartupInv
<1>5. \A n : Waits(inbox, n) => Waits(inbox', n) BY WaitsOn
<1> QED BY <1>2, <1>3, <1>4, <1>5 DEF StartupInv

\* A slot that changes no device, and does not drop a request that still counts.
LEMMA TakeKeepsOrder ==
    ASSUME inbox \in Seq(Event), inbox # <<>>, inbox' = Tail(inbox), StartupInv,
           UNCHANGED <<onlineDev, devList, added>>,
           \A i \in 1..added : FirstOfCategory(i) /\ Asks(Head(inbox), devList[i]) =>
              OnlineIn(onlineDev, devList[i])
    PROVE  StartupInv'
<1>1. /\ Len(inbox) \in Nat \ {0} /\ Len(inbox') = Len(inbox) - 1
      /\ \A k \in 1..Len(inbox') : inbox'[k] = inbox[k+1]
  BY HeadTailProperties, EmptySeq, LenProperties
<1>2. \A n : Listed(n)' <=> Listed(n) BY DEF Listed
<1>3. \A i : FirstOfCategory(i)' <=> FirstOfCategory(i) BY DEF FirstOfCategory
<1>4. \A k \in 1..Len(inbox') : inbox'[k].sig = "signalAddDev" => Listed(inbox'[k].dev)
  <2>1. \A k \in 1..Len(inbox') : k+1 \in 1..Len(inbox) BY <1>1
  <2> QED BY <1>1, <2>1 DEF StartupInv
<1>5. \A n : Waits(inbox, n) => Asks(Head(inbox), n) \/ Waits(inbox', n)
  BY WaitsFirst
<1> QED BY <1>2, <1>3, <1>4, <1>5 DEF StartupInv

\* slotAddDev: the first of a category is accepted, its rivals are not.
LEMMA AddKeepsOrder ==
    ASSUME IndInv, StartupInv, SlotAddDev, UNCHANGED <<devList, added>>
    PROVE  StartupInv'
<1> DEFINE n == Head(inbox).dev
<1>1. /\ inbox \in Seq(Event) /\ inbox # <<>> /\ inbox' = Tail(inbox)
      /\ Head(inbox).sig = "signalAddDev" /\ onlineDev \in Seq(Device)
  BY DEF SlotAddDev, Handling, IndInv, TypeOK
<1>2. /\ Len(inbox) \in Nat \ {0} /\ Head(inbox) = inbox[1] /\ 1 \in 1..Len(inbox)
      /\ Len(inbox') = Len(inbox) - 1
      /\ \A k \in 1..Len(inbox') : inbox'[k] = inbox[k+1] /\ k+1 \in 1..Len(inbox)
  BY <1>1, HeadTailProperties, EmptySeq, LenProperties
<1>3. Listed(n) BY <1>1, <1>2 DEF StartupInv
<1>4. CASE isvalid(n) /\ allow2Create(NewDevice(n))
  <2>1. n \in DevNames /\ onlineDev' = Append(onlineDev, NewDevice(n))
    BY <1>1, <1>4, ValidEventName DEF SlotAddDev
  <2>2. NewDevice(n) \in Device /\ NewDevice(n).devTypeStr = n
    BY <1>4, <2>1, NewDeviceType
  <2>3. \A m : OnlineIn(onlineDev', m) <=> OnlineIn(onlineDev, m) \/ m = n
    <3>1. /\ Len(onlineDev') = Len(onlineDev) + 1 /\ Len(onlineDev) \in Nat
          /\ \A k \in 1..Len(onlineDev) : onlineDev'[k] = onlineDev[k]
          /\ onlineDev'[Len(onlineDev) + 1] = NewDevice(n)
      BY <1>1, <2>1, <2>2, AppendProperties, LenProperties
    <3> QED BY <2>2, <3>1 DEF OnlineIn
  <2>4. \A m : Listed(m)' <=> Listed(m) BY DEF Listed
  <2>5. \A i : FirstOfCategory(i)' <=> FirstOfCategory(i) BY DEF FirstOfCategory
  <2>6. \A k \in 1..Len(inbox') : inbox'[k].sig = "signalAddDev" => Listed(inbox'[k].dev)
    BY <1>2 DEF StartupInv
  <2>7. ASSUME NEW i \in 1..added, FirstOfCategory(i)
        PROVE  /\ OnlineIn(onlineDev', devList[i]) \/ Waits(inbox', devList[i])
               /\ ~Rivals(n, devList[i])
    <3>1. CASE OnlineIn(onlineDev, devList[i])
      <4>1. ~isExclusion(NewDevice(n), NewDevice(devList[i]))
        BY <1>1, <1>4, <3>1, AcceptedIsNoRival
      <4> QED BY <2>3, <3>1, <4>1 DEF Rivals
    <3>2. CASE Waits(inbox, devList[i])
      <4>1. /\ Asks(Head(inbox), devList[i]) \/ Waits(inbox', devList[i])
            /\ ~Rivals(n, devList[i])
        BY <1>1, <3>2, WaitsFirst
      <4> QED BY <2>3, <4>1 DEF Asks
    <3> QED BY <2>7, <3>1, <3>2 DEF StartupInv
  <2> QED BY <1>3, <2>3, <2>4, <2>5, <2>6, <2>7 DEF StartupInv
<1>5. CASE ~(isvalid(n) /\ allow2Create(NewDevice(n)))
  <2>1. UNCHANGED onlineDev BY <1>5 DEF SlotAddDev
  <2>2. ASSUME NEW i \in 1..added, FirstOfCategory(i), Asks(Head(inbox), devList[i])
        PROVE  OnlineIn(onlineDev, devList[i])
    <3>1. n = devList[i] /\ isvalid(n) BY <2>2 DEF Asks, FirstOfCategory
    <3>2. PICK m : OnlineIn(onlineDev, m) /\ isExclusion(NewDevice(m), NewDevice(n))
      BY <1>1, <1>5, <3>1, RefusedHasRival
    <3>3. ~Rivals(m, devList[i]) BY <2>2, <3>2 DEF StartupInv
    <3> QED BY <3>1, <3>2, <3>3 DEF Rivals
  <2> QED BY <1>1, <2>1, <2>2, TakeKeepsOrder
<1> QED BY <1>4, <1>5

\* One more device of cfg.ini is asked for.
LEMMA ConfiguredKeepsOrder ==
    ASSUME IndInv, GuiTypeOK, StartupInv, AddConfigured
    PROVE  StartupInv'
<1> DEFINE N == devList[added + 1]
           e == [sig |-> "signalAddDev", dev |-> N]
<1>1. /\ added < Len(devList) /\ inbox' = Append(inbox, e) /\ added' = added + 1
      /\ UNCHANGED <<onlineDev, devList>>
  BY DEF AddConfigured, EmitRequest, Emit, deviceVars
<1>2. added \in Nat /\ N \in DevNames
  BY <1>1, ConfigsAssumption, LenProperties, ElementOfSeq DEF GuiTypeOK
<1>3. inbox \in Seq(Event) /\ e \in Event
  BY <1>2 DEF IndInv, TypeOK, Event, Signals
<1>4. Asks(e, N) /\ e.dev = N BY DEF Asks
<1> HIDE DEF e
<1>5. /\ Len(inbox') = Len(inbox) + 1 /\ Len(inbox) \in Nat
      /\ \A k \in 1..Len(inbox) : inbox'[k] = inbox[k]
      /\ inbox'[Len(inbox) + 1] = e
  BY <1>1, <1>3, AppendProperties, LenProperties
<1> DEFINE listed(n) == \E j \in 1..added' : n = devList[j]
<1>6. /\ \A n : Listed(n) => listed(n)
      /\ listed(N)
  BY <1>1, <1>2 DEF Listed
<1>7. \A i : FirstOfCategory(i)' <=> FirstOfCategory(i) BY <1>1 DEF FirstOfCategory
<1>8. \A k \in 1..Len(inbox') : inbox'[k].sig = "signalAddDev" => listed(inbox'[k].dev)
  <2> HIDE DEF listed
  <2>1. ASSUME NEW k \in 1..Len(inbox'), inbox'[k].sig = "signalAddDev"
        PROVE  inbox'[k].dev = N \/ Listed(inbox'[k].dev)
    <3>1. CASE k \in 1..Len(inbox) BY <1>5, <2>1, <3>1 DEF StartupInv
    <3>2. CASE k = Len(inbox) + 1 BY <1>4, <1>5, <3>2
    <3> QED BY <1>5, <3>1, <3>2
  <2> QED BY <1>6, <2>1
<1>9. ASSUME NEW i \in 1..added', FirstOfCategory(i)
      PROVE  /\ OnlineIn(onlineDev, devList[i]) \/ Waits(inbox', devList[i])
             /\ \A n : OnlineIn(onlineDev, n) => ~Rivals(n, devList[i])
  <2>1. CASE i \in 1..added
    <3>1. Waits(inbox, devList[i]) => Waits(inbox', devList[i]) BY <1>1, <1>3, WaitsOn
    <3> QED BY <1>9, <2>1, <3>1 DEF StartupInv
  <2>2. CASE i = added + 1
    <3>1. \A n : Listed(n) => ~Rivals(n, N) BY <1>1, <1>9, <2>2, NextHasNoRival
    <3>2. Waits(inbox', N)
      <4>1. \A j \in 1..Len(inbox) :
               inbox[j].sig = "signalAddDev" => ~Rivals(inbox[j].dev, N)
        BY <3>1 DEF StartupInv
      <4> QED BY <1>1, <1>3, <1>4, <4>1, WaitsLast
    <3> QED BY <2>2, <3>1, <3>2 DEF StartupInv
  <2> QED BY <1>1, <1>2, <2>1, <2>2
<1>10. \A n : OnlineIn(onlineDev, n) => listed(n)
  BY <1>6 DEF StartupInv
<1>11. \A n : Listed(n)' <=> listed(n) BY <1>1 DEF Listed
<1> HIDE DEF listed
<1> QED BY <1>1, <1>7, <1>8, <1>9, <1>10, <1>11 DEF StartupInv

LEMMA StartupNext ==
    ASSUME GuiTypeOK, IndInv, StartupInv, NobodyCloses, NobodyCloses', [Next]_vars
    PROVE  StartupInv'
<1>0. inbox \in Seq(Event) BY DEF IndInv, TypeOK
<1>1. ASSUME UNCHANGED <<inbox, onlineDev, devList, added>> PROVE StartupInv'
  BY <1>1 DEF StartupInv, Listed, FirstOfCategory
<1>2. CASE AddDevResult \/ WorkerTimer \/ UNCHANGED vars
  BY <1>1, <1>2 DEF AddDevResult, TakeResult, WorkerTimer, TimerTimeout, SendCommand,
                    LatestDataReady, vars, guiVars, deviceVars
<1>3. CASE AddConfigured BY <1>3, ConfiguredKeepsOrder
<1>4. CASE StartDevice
  <2>1. [sig |-> "signalStart", dev |-> NoDev] \in Event BY DEF Event, Signals
  <2> QED BY <1>0, <1>4, <2>1, PostKeepsOrder
      DEF StartDevice, FacadeStart, Emit, guiVars, deviceVars
<1>5. CASE PollTimeout
  <2>1. [sig |-> "signalGetLatestData", dev |-> NoDev] \in Event BY DEF Event, Signals
  <2> QED BY <1>0, <1>5, <2>1, PostKeepsOrder
      DEF PollTimeout, EmitPoll, Emit, guiVars, deviceVars
<1>6. ASSUME NEW i \in Panels, Click(i) PROVE StartupInv'
  <2>1. devList[i] \in DevNames /\ added = Len(devList) /\ i \in 1..added
    BY <1>6, ConfigsAssumption, ElementOfSeq DEF GuiTypeOK, Panels, Click, EventLoop
  <2>2. Listed(devList[i]) BY <2>1 DEF Listed
  <2>3. PICK s \in {"signalAddDev", "signalDelDev"} : EmitRequest(s, devList[i])
    BY <1>6 DEF Click
  <2> DEFINE e == [sig |-> s, dev |-> devList[i]]
  <2>4. e \in Event BY <2>1 DEF Event, Signals
  <2>5. e.dev = devList[i] /\ inbox' = Append(inbox, e)
    BY <2>3 DEF EmitRequest, Emit
  <2>6. UNCHANGED <<onlineDev, devList, added>>
    BY <1>6, <2>3 DEF Click, EmitRequest, guiVars, deviceVars
  <2> HIDE DEF e
  <2> QED BY <1>0, <2>2, <2>4, <2>5, <2>6, PostKeepsOrder
<1>7. CASE WorkerSlot
  <2>1. UNCHANGED <<devList, added>> BY <1>7 DEF WorkerSlot, guiVars
  <2>2. CASE SlotAddDev BY <2>1, <2>2, AddKeepsOrder
  <2>3. CASE SlotDelDev
    <3>1. inbox # <<>> /\ Head(inbox).sig = "signalDelDev" BY <2>3 DEF SlotDelDev, Handling
    <3>2. 1 \in 1..Len(inbox) /\ Head(inbox) = inbox[1]
      BY <1>0, <3>1, HeadTailProperties, EmptySeq, LenProperties
    <3> QED BY <3>1, <3>2 DEF NobodyCloses
  <2>4. CASE SlotStart \/ SlotGetLatestData
    <3>1. /\ inbox # <<>> /\ inbox' = Tail(inbox) /\ UNCHANGED onlineDev
          /\ Head(inbox).sig # "signalAddDev"
      BY <2>4 DEF SlotStart, SlotGetLatestData, Handling
    <3> QED BY <1>0, <2>1, <3>1, TakeKeepsOrder DEF Asks
  <2> QED BY <1>7, <2>2, <2>3, <2>4 DEF WorkerSlot, Slot
<1> QED BY <1>2, <1>3, <1>4, <1>5, <1>6, <1>7 DEF Next, Gui

\* The first device of each category in cfg.ini gets the category, and no device it
\* excludes is ever online, until somebody closes one (widget.cpp:90-92,
\* utisDeviceWorker.cpp:113).
THEOREM FirstListedWins == Spec => StartupOrderWins
<1>1. Init => StartupInv
  <2> SUFFICES ASSUME Init PROVE StartupInv OBVIOUS
  <2>1. inbox = <<>> /\ onlineDev = <<>> /\ added = 0 BY DEF Init, WorkerInit
  <2> QED BY <2>1 DEF StartupInv, OnlineIn
<1>2. ASSUME StartupInv PROVE FirstWins
  <2>1. ASSUME NEW i \in 1..added, FirstOfCategory(i), Waits(inbox, devList[i])
        PROVE  \E k \in 1..Len(inbox) :
                  inbox[k].sig = "signalAddDev" /\ inbox[k].dev = devList[i]
    BY <2>1 DEF Waits, Asks
  <2> QED BY <1>2, <2>1 DEF StartupInv, FirstWins, IsOnline, OnlineIn
<1>3. GuiTypeOK /\ IndInv /\ StartupInv /\ NobodyCloses /\ NobodyCloses' /\ [Next]_vars
        => StartupInv'
  BY StartupNext
<1> QED BY <1>1, <1>2, <1>3, ServerInvariant, PTL DEF Spec, StartupOrderWins

=============================================================================

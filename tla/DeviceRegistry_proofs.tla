----------------------- MODULE DeviceRegistry_proofs -----------------------
(***************************************************************************)
(* The device thread implements DeviceRegistry, for any set of names: each *)
(* of its steps takes, refuses or frees one slot and queues the answer, or *)
(* changes neither slots nor answers.                                      *)
(***************************************************************************)
EXTENDS UtisDeviceWorker_proofs

ExclusiveFree(list) ==
    \A i, j \in 1..Len(list) : i # j => list[i].devCategory # list[j].devCategory

\* The registry's view of the list at an occupied and at a free category.
LEMMA SlotTaken ==
    ASSUME NEW list \in Seq(Device), ExclusiveFree(list), NEW i \in 1..Len(list)
    PROVE  SlotOf(list, list[i].devCategory) = list[i].devTypeStr
<1> DEFINE c == list[i].devCategory
           j == CHOOSE k \in 1..Len(list) : list[k].devCategory = c
<1>1. j \in 1..Len(list) /\ list[j].devCategory = c
  OBVIOUS
<1>2. j = i
  BY <1>1 DEF ExclusiveFree
<1> QED BY <1>2 DEF SlotOf

LEMMA SlotFree ==
    ASSUME NEW list, NEW c, \A i \in 1..Len(list) : list[i].devCategory # c
    PROVE  SlotOf(list, c) = "free"
BY DEF SlotOf

\* No device is called "free".
LEMMA NameIsNotFree == \A d \in Device : d.devTypeStr # "free"
<1>1. ~isvalid("free")
  BY DEF isvalid, Str2e_AShuErDevType, isvalidType, DevTypes, e_AShuErDevTypeError,
         MWS600, VD930A
<1> QED BY <1>1, DeviceIsNewDevice

\* Equal types have equal categories, so excluding means sharing a category.
LEMMA ExclusionIsCategory ==
    ASSUME NEW d \in Device, NEW e \in Device
    PROVE  isExclusion(d, e) <=> d.devCategory = e.devCategory
<1>1. /\ d.devCategory = getDeviceCategory(d.devType)
      /\ e.devCategory = getDeviceCategory(e.devType)
  BY DEF Device, NewDevice
<1> QED BY <1>1 DEF isExclusion

LEMMA ListIsExclusiveFree ==
    ASSUME onlineDev \in Seq(Device), NoExclusiveDevices
    PROVE  ExclusiveFree(onlineDev)
BY DEF NoExclusiveDevices, isExclusion, ExclusiveFree

-----------------------------------------------------------------------------
\* Two lists that hold the same devices of category c have the same slot c.
LEMMA SameSlot ==
    ASSUME NEW list \in Seq(Device), ExclusiveFree(list),
           NEW list2 \in Seq(Device), ExclusiveFree(list2), NEW c,
           \A i \in 1..Len(list) : list[i].devCategory = c =>
               \E j \in 1..Len(list2) : list2[j] = list[i],
           \A j \in 1..Len(list2) : list2[j].devCategory = c =>
               \E i \in 1..Len(list) : list[i] = list2[j]
    PROVE  SlotOf(list2, c) = SlotOf(list, c)
<1>1. CASE \A i \in 1..Len(list) : list[i].devCategory # c
  <2>1. \A j \in 1..Len(list2) : list2[j].devCategory # c
    BY <1>1
  <2> QED BY <1>1, <2>1, SlotFree
<1>2. ASSUME NEW i \in 1..Len(list), list[i].devCategory = c
      PROVE  SlotOf(list2, c) = SlotOf(list, c)
  <2>1. PICK j \in 1..Len(list2) : list2[j] = list[i]
    BY <1>2
  <2>2. SlotOf(list, c) = list[i].devTypeStr
    BY <1>2, SlotTaken
  <2>3. SlotOf(list2, c) = list2[j].devTypeStr
    BY <1>2, <2>1, SlotTaken
  <2> QED BY <2>1, <2>2, <2>3
<1> QED BY <1>1, <1>2

\* slotAddDev, device accepted: the slot of its category was free and is taken.
LEMMA AddTakesSlot ==
    ASSUME NEW list \in Seq(Device), ExclusiveFree(list), NEW d \in Device,
           \A i \in 1..Len(list) : list[i].devCategory # d.devCategory,
           ExclusiveFree(Append(list, d))
    PROVE  /\ SlotOf(list, d.devCategory) = "free"
           /\ [c \in Categories |-> SlotOf(Append(list, d), c)] =
              [[c \in Categories |-> SlotOf(list, c)]
                  EXCEPT ![d.devCategory] = d.devTypeStr]
<1> DEFINE new == Append(list, d)
<1>1. /\ new \in Seq(Device) /\ Len(new) = Len(list) + 1 /\ Len(list) \in Nat
      /\ \A i \in 1..Len(list) : new[i] = list[i]
      /\ new[Len(list) + 1] = d
  BY AppendProperties, LenProperties
<1> HIDE DEF new
<1>2. SlotOf(new, d.devCategory) = d.devTypeStr
  <2>1. Len(list) + 1 \in 1..Len(new)
    BY <1>1
  <2> QED BY <1>1, <2>1, SlotTaken DEF new
<1>3. ASSUME NEW c \in Categories, c # d.devCategory
      PROVE  SlotOf(new, c) = SlotOf(list, c)
  <2>1. \A i \in 1..Len(list) : i \in 1..Len(new)
    BY <1>1
  <2>2. \A i \in 1..Len(list) : \E j \in 1..Len(new) : new[j] = list[i]
    BY <1>1, <2>1
  <2>3. \A j \in 1..Len(new) : new[j].devCategory = c =>
           \E i \in 1..Len(list) : list[i] = new[j]
    <3>1. ASSUME NEW j \in 1..Len(new), new[j].devCategory = c
          PROVE  j \in 1..Len(list)
      BY <1>1, <1>3, <3>1
    <3> QED BY <1>1, <3>1
  <2> QED BY <1>1, <2>2, <2>3, SameSlot DEF new
<1>4. SlotOf(list, d.devCategory) = "free"
  BY SlotFree
<1> QED BY <1>2, <1>3, <1>4 DEF new

\* slotDelDev, device online: its slot was taken by it and is freed.
LEMMA RemoveFreesSlot ==
    ASSUME NEW list \in Seq(Device), ExclusiveFree(list), NEW p \in 1..Len(list),
           ExclusiveFree(RemoveAt(list, p))
    PROVE  /\ SlotOf(list, list[p].devCategory) = list[p].devTypeStr
           /\ [c \in Categories |-> SlotOf(RemoveAt(list, p), c)] =
              [[c \in Categories |-> SlotOf(list, c)]
                  EXCEPT ![list[p].devCategory] = "free"]
<1> DEFINE new == RemoveAt(list, p)
<1>1. /\ new \in Seq(Device) /\ Len(new) = Len(list) - 1 /\ Len(list) \in Nat
      /\ \A i \in 1..Len(list)-1 : new[i] = IF i < p THEN list[i] ELSE list[i+1]
  BY RemoveAtProperties, LenProperties
<1> HIDE DEF new
<1>2. \A j \in 1..Len(new) : \E i \in 1..Len(list) : i # p /\ list[i] = new[j]
  <2> SUFFICES ASSUME NEW j \in 1..Len(new)
               PROVE  \E i \in 1..Len(list) : i # p /\ list[i] = new[j]
    OBVIOUS
  <2>1. CASE j < p
    <3>1. j \in 1..Len(list) /\ j # p /\ new[j] = list[j]
      BY <1>1, <2>1
    <3> QED BY <3>1
  <2>2. CASE ~(j < p)
    <3>1. j+1 \in 1..Len(list) /\ j+1 # p /\ new[j] = list[j+1]
      BY <1>1, <2>2
    <3> QED BY <3>1
  <2> QED BY <2>1, <2>2
<1>3. \A i \in 1..Len(list) : i # p => \E j \in 1..Len(new) : new[j] = list[i]
  <2> SUFFICES ASSUME NEW i \in 1..Len(list), i # p
               PROVE  \E j \in 1..Len(new) : new[j] = list[i]
    OBVIOUS
  <2>1. CASE i < p
    <3>1. i \in 1..Len(new) /\ new[i] = list[i]
      BY <1>1, <2>1
    <3> QED BY <3>1
  <2>2. CASE ~(i < p)
    <3>1. i-1 \in 1..Len(new) /\ new[i-1] = list[i]
      BY <1>1, <2>2
    <3> QED BY <3>1
  <2> QED BY <2>1, <2>2
<1>4. SlotOf(new, list[p].devCategory) = "free"
  <2>1. ASSUME NEW j \in 1..Len(new) PROVE new[j].devCategory # list[p].devCategory
    <3>1. PICK i \in 1..Len(list) : i # p /\ list[i] = new[j]
      BY <1>2
    <3> QED BY <3>1 DEF ExclusiveFree
  <2> QED BY <2>1, SlotFree
<1>5. ASSUME NEW c \in Categories, c # list[p].devCategory
      PROVE  SlotOf(new, c) = SlotOf(list, c)
  <2>1. \A i \in 1..Len(list) : list[i].devCategory = c =>
           \E j \in 1..Len(new) : new[j] = list[i]
    BY <1>3, <1>5
  <2> QED BY <1>1, <1>2, <2>1, SameSlot DEF new
<1> QED BY <1>4, <1>5, SlotTaken DEF new

-----------------------------------------------------------------------------
(* The refinement.                                                         *)

\* The copies of the device table inside the instance are the table itself.
LEMMA RegistryTable ==
    /\ Registry!Categories = Categories
    /\ Registry!Free = "free"
    /\ \A n : Registry!isvalid(n) = isvalid(n)
    /\ \A n : Registry!CategoryOf(n) = NewDevice(n).devCategory
<1>1. /\ Registry!MWS600 = MWS600 /\ Registry!RD3000B = RD3000B
      /\ Registry!RD3000C = RD3000C /\ Registry!VD920G = VD920G
      /\ Registry!VD930A = VD930A
      /\ Registry!e_AShuErDevTypeError = e_AShuErDevTypeError
  BY DEF Registry!MWS600, MWS600, Registry!RD3000B, RD3000B, Registry!RD3000C, RD3000C,
         Registry!VD920G, VD920G, Registry!VD930A, VD930A,
         Registry!e_AShuErDevTypeError, e_AShuErDevTypeError
<1>2. /\ Registry!qiXiangZhan = qiXiangZhan /\ Registry!luMian = luMian
      /\ Registry!nengJianDu = nengJianDu
      /\ Registry!e_deviceCategoryError = e_deviceCategoryError
  BY DEF Registry!qiXiangZhan, qiXiangZhan, Registry!luMian, luMian,
         Registry!nengJianDu, nengJianDu, Registry!e_deviceCategoryError,
         e_deviceCategoryError
<1>3. \A n : Registry!Str2e_AShuErDevType(n) = Str2e_AShuErDevType(n)
  BY <1>1, Zenon DEF Registry!Str2e_AShuErDevType, Str2e_AShuErDevType
<1>4. \A t : Registry!getDeviceCategory(t) = getDeviceCategory(t)
  BY <1>1, <1>2, Zenon DEF Registry!getDeviceCategory, getDeviceCategory
<1>5. \A n : Registry!isvalid(n) = isvalid(n)
  BY <1>1, <1>3, Zenon DEF Registry!isvalid, isvalid, Registry!isvalidType, isvalidType,
                           Registry!DevTypes, DevTypes
<1>6. \A n : Registry!CategoryOf(n) = NewDevice(n).devCategory
  BY <1>3, <1>4 DEF Registry!CategoryOf, Registry!NewDevice, NewDevice
<1> QED
  BY <1>2, <1>5, <1>6, Zenon DEF Registry!Categories, Categories, Registry!Free

\* The initial list is empty: every slot is free.
LEMMA RegistryInitially == WorkerInit => Registry!RegistryInit
<1> SUFFICES ASSUME WorkerInit PROVE Registry!RegistryInit
  OBVIOUS
<1>1. onlineDev = <<>> /\ outbox = <<>>
  BY DEF WorkerInit
<1>2. \A c : SlotOf(onlineDev, c) = "free"
  BY <1>1, SlotFree
<1> QED BY <1>1, <1>2, RegistryTable DEF Registry!RegistryInit

LEMMA RegistryStep ==
    IndInv /\ IndInv' /\ [WorkerNext]_workerVars =>
        [Registry!RegistryNext]_Registry!registryVars
<1> SUFFICES ASSUME IndInv, IndInv', [WorkerNext]_workerVars
             PROVE  [Registry!RegistryNext]_Registry!registryVars
  OBVIOUS
<1> DEFINE slots(list) == [c \in Categories |-> SlotOf(list, c)]
<1>1. /\ onlineDev \in Seq(Device) /\ ExclusiveFree(onlineDev)
      /\ onlineDev' \in Seq(Device) /\ ExclusiveFree(onlineDev')
      /\ inbox \in Seq(Event) /\ outbox \in Seq(Result)
  BY ListIsExclusiveFree
  DEF IndInv, TypeOK, NoExclusiveDevices, isExclusion, ExclusiveFree
<1>2. CASE UNCHANGED <<onlineDev, outbox>>
  BY <1>2 DEF Registry!registryVars
<1>3. CASE TakeResult
  <2>1. Registry!Take
    BY <1>3, RegistryTable DEF TakeResult, Registry!Take, deviceVars
  <2> QED BY <2>1 DEF Registry!RegistryNext
<1>4. CASE SlotAddDev
  <2> DEFINE n == Head(inbox).dev
             d == NewDevice(n)
  <2>1. CASE ~isvalid(n)
    BY <1>2, <1>4, <2>1 DEF SlotAddDev
  <2>2. CASE isvalid(n)
    <3>1. /\ n \in DevNames /\ d \in Device /\ d.devTypeStr = n
          /\ d.devCategory \in Categories
      BY <1>1, <1>4, <2>2, ValidEventName, NewDeviceType DEF SlotAddDev
    <3>2. \A i \in 1..Len(onlineDev) : onlineDev[i] \in Device
      BY <1>1, ElementOfSeq
    <3>3. allow2Create(d) <=>
             \A i \in 1..Len(onlineDev) : onlineDev[i].devCategory # d.devCategory
      BY <3>1, <3>2, ExclusionIsCategory DEF allow2Create, isExclusion
    <3>4. CASE allow2Create(d)
      <4>1. onlineDev' = Append(onlineDev, d) /\ outbox' = Append(outbox, Reply(n, TRUE))
        BY <1>4, <2>2, <3>4 DEF SlotAddDev
      <4>2. /\ slots(onlineDev)[d.devCategory] = "free"
            /\ slots(onlineDev)' = [slots(onlineDev) EXCEPT ![d.devCategory] = n]
        <5>1. ExclusiveFree(Append(onlineDev, d))
          BY <1>1, <4>1
        <5>2. /\ SlotOf(onlineDev, d.devCategory) = "free"
              /\ slots(Append(onlineDev, d)) =
                    [slots(onlineDev) EXCEPT ![d.devCategory] = d.devTypeStr]
          BY <1>1, <3>1, <3>3, <3>4, <5>1, AddTakesSlot
        <5> QED BY <3>1, <4>1, <5>2
      <4>3. Registry!Open(n)
        BY <4>1, <4>2, RegistryTable DEF Registry!Open, Registry!Answer, Reply
      <4> QED BY <2>2, <3>1, <4>3, RegistryTable DEF Registry!RegistryNext
    <3>5. CASE ~allow2Create(d)
      <4>1. onlineDev' = onlineDev /\ outbox' = Append(outbox, Reply(n, FALSE))
        BY <1>4, <2>2, <3>5 DEF SlotAddDev
      <4>2. PICK i \in 1..Len(onlineDev) : onlineDev[i].devCategory = d.devCategory
        BY <3>3, <3>5
      <4>3. SlotOf(onlineDev, d.devCategory) # "free"
        BY <1>1, <3>2, <4>2, SlotTaken, NameIsNotFree
      <4>4. Registry!Refuse(n)
        BY <3>1, <4>1, <4>3, RegistryTable DEF Registry!Refuse, Registry!Answer, Reply
      <4> QED BY <2>2, <3>1, <4>4, RegistryTable DEF Registry!RegistryNext
    <3> QED BY <3>4, <3>5
  <2> QED BY <2>1, <2>2
<1>5. CASE SlotDelDev
  <2> DEFINE n == Head(inbox).dev
  <2>1. CASE UNCHANGED <<onlineDev, outbox>>
    BY <1>2, <2>1
  <2>2. ASSUME NEW p \in 1..Len(onlineDev), CloseOf(n, p)
        PROVE  Registry!RegistryNext
    <3>1. /\ n \in DevNames /\ isvalid(n) /\ onlineDev[p] = NewDevice(n)
          /\ NewDevice(n).devTypeStr = n /\ NewDevice(n).devCategory \in Categories
          /\ onlineDev' = RemoveAt(onlineDev, p)
          /\ outbox' = Append(outbox, Reply(n, FALSE))
      BY <2>2, NewDeviceType DEF CloseOf
    <3>2. ExclusiveFree(RemoveAt(onlineDev, p))
      BY <1>1, <3>1
    <3>3. /\ SlotOf(onlineDev, onlineDev[p].devCategory) = onlineDev[p].devTypeStr
          /\ slots(RemoveAt(onlineDev, p)) =
                [slots(onlineDev) EXCEPT ![onlineDev[p].devCategory] = "free"]
      BY <1>1, <3>2, RemoveFreesSlot
    <3>4. /\ slots(onlineDev)[NewDevice(n).devCategory] = n
          /\ slots(onlineDev)' = [slots(onlineDev) EXCEPT ![NewDevice(n).devCategory] = "free"]
      BY <3>1, <3>3
    <3>5. Registry!Close(n)
      BY <3>1, <3>4, RegistryTable DEF Registry!Close, Registry!Answer, Reply
    <3> QED BY <3>1, <3>5, RegistryTable DEF Registry!RegistryNext
  <2> QED BY <1>5, <2>1, <2>2, DelDevEffect
<1> QED
  BY <1>2, <1>3, <1>4, <1>5
  DEF workerVars, deviceVars, WorkerNext, Client, Slot, TimerTimeout, FacadeStart,
      EmitRequest, EmitPoll, SlotStart, SlotGetLatestData, SendCommand, LatestDataReady

\* The device thread implements the registry: one slot per category, and each
\* answered open or close answered in the order in which it took effect.
THEOREM WorkerImplementsRegistry == WorkerSpec => ImplementsRegistry
BY RegistryInitially, RegistryStep, IndInvHolds, PTL
DEF WorkerSpec, ImplementsRegistry, Registry!RegistrySpec

=============================================================================

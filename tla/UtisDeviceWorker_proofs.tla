---------------------- MODULE UtisDeviceWorker_proofs ----------------------
(***************************************************************************)
(* Proofs about the device thread, for any set of device names and any     *)
(* bounds.  First, what the loop of slotDelDev leaves of a list: it removes *)
(* a device that is listed once, and nothing from a list without it.       *)
(* RemoveDevices is a recursive function: a witness of its equation shows   *)
(* that it has a value, and the least index at which two solutions would    *)
(* differ shows that the value is the witness's.  Then the inductive        *)
(* invariant IndInv, which adds to the checked invariants the place of the  *)
(* start event in the queue.                                               *)
(***************************************************************************)
EXTENDS UtisDeviceWorker, SequenceTheorems, WellFoundedInduction, TLAPS

Below == {p \in Nat \X Nat : p[1] < p[2]}

\* A nonempty set of naturals has a least element.
LEMMA LeastNat ==
    ASSUME NEW T \in SUBSET Nat, T # {}
    PROVE  \E x \in T : \A y \in T : x <= y
<1>1. IsWellFoundedOn(Below, Nat)
  BY NatLessThanWellFounded DEF OpToRel, Below
<1>2. PICK x \in T : \A y \in T : <<y, x>> \notin Below
  BY <1>1, WFMin, Zenon
<1>3. ASSUME NEW y \in T PROVE x <= y
  <2>1. x \in Nat /\ y \in Nat
    OBVIOUS
  <2>2. <<y, x>> \in Nat \X Nat /\ <<y, x>>[1] = y /\ <<y, x>>[2] = x
    BY <2>1
  <2>3. ~(y < x)
    BY <2>2, <1>2, Zenon DEF Below
  <2> QED BY <2>1, <2>3
<1> QED BY <1>3

\* RemoveAt (QList::removeAt) drops one element and moves the later ones up.
LEMMA RemoveAtProperties ==
    ASSUME NEW S, NEW s \in Seq(S), NEW p \in 1..Len(s)
    PROVE  /\ RemoveAt(s, p) \in Seq(S)
           /\ Len(RemoveAt(s, p)) = Len(s) - 1
           /\ \A i \in 1..Len(s)-1 :
                 RemoveAt(s, p)[i] = IF i < p THEN s[i] ELSE s[i+1]
<1> DEFINE a == SubSeq(s, 1, p-1)
           b == SubSeq(s, p+1, Len(s))
<1>1. Len(s) \in Nat /\ \A i \in 1..Len(s) : s[i] \in S
  BY LenProperties, ElementOfSeq
<1>2. /\ a \in Seq(S) /\ Len(a) = p-1
      /\ \A i \in 1..p-1 : a[i] = s[i]
  BY <1>1
<1>3. /\ b \in Seq(S) /\ Len(b) = Len(s) - p
      /\ \A i \in 1..Len(s)-p : b[i] = s[p+i]
  BY <1>1
<1>4. RemoveAt(s, p) = a \o b
  BY DEF RemoveAt
<1> HIDE DEF a, b
<1>5. /\ a \o b \in Seq(S)
      /\ Len(a \o b) = Len(a) + Len(b)
      /\ \A i \in 1..Len(a)+Len(b) :
            (a \o b)[i] = IF i <= Len(a) THEN a[i] ELSE b[i - Len(a)]
  BY <1>2, <1>3, ConcatProperties
<1> QED BY <1>1, <1>2, <1>3, <1>4, <1>5

-----------------------------------------------------------------------------
\* Pass i of the loop, given the lists f[0], ..., f[i-1] of the passes before.
Pass(f, list, n, i) ==
    IF i = 0 THEN list
    ELSE IF i <= Len(f[i-1]) /\ f[i-1][i].devTypeStr = n
         THEN RemoveAt(f[i-1], i)
         ELSE f[i-1]

\* The lists of the passes are determined: a function that satisfies the
\* equation of the loop has the loop's result at its end.
LEMMA RemoveDevicesByWitness ==
    ASSUME NEW list, Len(list) \in Nat, NEW n, NEW w,
           w = [i \in 0..Len(list) |-> Pass(w, list, n, i)]
    PROVE  RemoveDevices(list, n) = w[Len(list)]
<1> DEFINE pass == CHOOSE f : f = [i \in 0..Len(list) |-> Pass(f, list, n, i)]
           Diff == {i \in 0..Len(list) : pass[i] # w[i]}
<1>1. RemoveDevices(list, n) = pass[Len(list)]
  BY DEF RemoveDevices, Pass
<1>2. pass = [i \in 0..Len(list) |-> Pass(pass, list, n, i)]
  OBVIOUS
<1> HIDE DEF pass
<1>3. ASSUME Diff # {} PROVE FALSE
  <2>1. PICK k \in Diff : \A j \in Diff : k <= j
    <3>1. Diff \in SUBSET Nat
      OBVIOUS
    <3> QED BY <1>3, <3>1, LeastNat, Zenon
  <2>2. k \in 0..Len(list) /\ pass[k] # w[k]
    OBVIOUS
  <2>3. pass[k] = Pass(pass, list, n, k) /\ w[k] = Pass(w, list, n, k)
    BY <1>2, <2>2, Zenon
  <2>4. CASE k = 0
    BY <2>2, <2>3, <2>4 DEF Pass
  <2>5. CASE k # 0
    <3>1. k-1 \in 0..Len(list) /\ ~(k <= k-1)
      BY <2>2, <2>5
    <3>2. pass[k-1] = w[k-1]
      BY <3>1, <2>1
    <3>3. Pass(pass, list, n, k) = Pass(w, list, n, k)
      BY <2>5, <3>2, Zenon DEF Pass
    <3> QED BY <2>2, <2>3, <3>3
  <2> QED BY <2>4, <2>5
<1>4. pass[Len(list)] = w[Len(list)]
  BY <1>3
<1> QED BY <1>1, <1>4

\* A list without the device: the loop removes nothing.
LEMMA RemoveDevicesNone ==
    ASSUME NEW S, NEW list \in Seq(S), NEW n,
           \A i \in 1..Len(list) : list[i].devTypeStr # n
    PROVE  RemoveDevices(list, n) = list
<1> DEFINE w == [i \in 0..Len(list) |-> list]
<1>1. Len(list) \in Nat
  BY LenProperties
<1>2. ASSUME NEW i \in 0..Len(list) PROVE Pass(w, list, n, i) = list
  BY <1>1 DEF Pass
<1>3. w = [i \in 0..Len(list) |-> Pass(w, list, n, i)]
  BY <1>2, Zenon
<1>4. w[Len(list)] = list
  BY <1>1
<1> HIDE DEF w
<1> QED BY <1>1, <1>3, <1>4, RemoveDevicesByWitness

\* A list with the device at p and nowhere else: the loop removes it, and
\* the device it then skips is not one it was looking for.
LEMMA RemoveDevicesOne ==
    ASSUME NEW S, NEW list \in Seq(S), NEW n, NEW p \in 1..Len(list),
           \A i \in 1..Len(list) : list[i].devTypeStr = n <=> i = p
    PROVE  RemoveDevices(list, n) = RemoveAt(list, p)
<1> DEFINE rest == RemoveAt(list, p)
           w == [i \in 0..Len(list) |-> IF i < p THEN list ELSE rest]
<1>1. Len(list) \in Nat /\ p \in Nat /\ p # 0
  BY LenProperties
<1>2. /\ Len(rest) = Len(list) - 1
      /\ \A i \in 1..Len(list)-1 : rest[i] = IF i < p THEN list[i] ELSE list[i+1]
  BY RemoveAtProperties
<1> HIDE DEF rest
<1>3. ASSUME NEW i \in 0..Len(list) PROVE Pass(w, list, n, i) = w[i]
  <2>1. CASE i = 0
    BY <1>1, <2>1 DEF Pass
  <2>2. CASE i # 0 /\ i < p
    BY <1>1, <2>2 DEF Pass
  <2>3. CASE i # 0 /\ i = p
    <3>1. w[i-1] = list /\ w[i] = rest
      BY <1>1, <2>3
    <3> QED BY <1>1, <2>3, <3>1 DEF Pass, rest
  <2>4. CASE i # 0 /\ i > p
    <3>1. w[i-1] = rest /\ w[i] = rest
      BY <1>1, <2>4
    <3>2. i <= Len(rest) => rest[i].devTypeStr # n
      BY <1>1, <1>2, <2>4
    <3> QED BY <2>4, <3>1, <3>2 DEF Pass
  <2> QED BY <1>1, <2>1, <2>2, <2>3, <2>4
<1>4. w = [i \in 0..Len(list) |-> Pass(w, list, n, i)]
  BY <1>3
<1>5. w[Len(list)] = rest
  BY <1>1
<1> HIDE DEF w
<1> QED BY <1>1, <1>4, <1>5, RemoveDevicesByWitness DEF rest

-----------------------------------------------------------------------------
(* The invariant.                                                          *)

\* From start() until slotStart has run, the start event heads the queue; no
\* second one is ever posted, and no timer runs before it.
StartComesFirst ==
    /\ started => running
    /\ ~running => inbox = <<>>
    /\ running /\ ~started => inbox # <<>> /\ inbox[1].sig = "signalStart"
    /\ \A k \in 1..Len(inbox) : inbox[k].sig = "signalStart" => k = 1 /\ ~started
    /\ timerActive => started

IndInv ==
    /\ TypeOK
    /\ NoExclusiveDevices
    /\ StartComesFirst
    /\ NoCommandLeftBehind

-----------------------------------------------------------------------------
(* Devices.                                                                *)

\* A valid name gives an object of that name with a type, a category and a
\* command of the table.
LEMMA NewDeviceType ==
    ASSUME NEW n \in DevNames, isvalid(n)
    PROVE  /\ NewDevice(n) \in Device
           /\ NewDevice(n).devTypeStr = n
           /\ NewDevice(n).devCategory \in Categories
           /\ NewDevice(n).cmd \in Commands
<1>1. Str2e_AShuErDevType(n) \in DevTypes
  BY DEF isvalid, isvalidType
<1> DEFINE t == Str2e_AShuErDevType(n)
<1>2. t \in {0, 1, 2, 3, 4}
  BY <1>1 DEF DevTypes, MWS600, VD930A
<1> HIDE DEF t
<1>3. getDeviceCategory(t) \in Categories
  BY <1>2 DEF getDeviceCategory, Categories, qiXiangZhan, luMian, nengJianDu,
              MWS600, RD3000B, RD3000C, VD920G, VD930A
<1>4. getCmd(t) \in Commands
  BY <1>2 DEF getCmd, Commands, MWS600, RD3000B, RD3000C, VD920G, VD930A
<1>5. NewDevice(n) \in Device
  BY DEF Device
<1> QED BY <1>3, <1>4, <1>5 DEF NewDevice, t

\* A device of the list is the one the constructor makes from its name.
LEMMA DeviceIsNewDevice ==
    ASSUME NEW d \in Device
    PROVE  /\ d.devTypeStr \in DevNames
           /\ isvalid(d.devTypeStr)
           /\ d = NewDevice(d.devTypeStr)
           /\ d.devCategory \in Categories
           /\ d.cmd \in Commands
<1>1. PICK n \in DevNames : isvalid(n) /\ d = NewDevice(n)
  BY DEF Device
<1> QED BY <1>1, NewDeviceType

\* In a list without two exclusive devices, a name occurs at most once.
LEMMA NameOccursOnce ==
    ASSUME onlineDev \in Seq(Device), NoExclusiveDevices,
           NEW i \in 1..Len(onlineDev), NEW j \in 1..Len(onlineDev),
           onlineDev[i].devTypeStr = onlineDev[j].devTypeStr
    PROVE  i = j
<1>1. onlineDev[i] \in Device /\ onlineDev[j] \in Device
  BY ElementOfSeq
<1>2. onlineDev[i] = onlineDev[j]
  BY <1>1, DeviceIsNewDevice
<1> QED BY <1>2 DEF NoExclusiveDevices, isExclusion

\* What slotDelDev does to the list, under the invariant: it removes the one
\* device of that name, or nothing when there is none.
LEMMA RemovedDevice ==
    ASSUME onlineDev \in Seq(Device), NoExclusiveDevices, NEW n
    PROVE  \/ /\ \A i \in 1..Len(onlineDev) : onlineDev[i].devTypeStr # n
              /\ RemoveDevices(onlineDev, n) = onlineDev
           \/ \E p \in 1..Len(onlineDev) :
                 /\ \A i \in 1..Len(onlineDev) : onlineDev[i].devTypeStr = n <=> i = p
                 /\ RemoveDevices(onlineDev, n) = RemoveAt(onlineDev, p)
<1>1. CASE \A i \in 1..Len(onlineDev) : onlineDev[i].devTypeStr # n
  BY <1>1, RemoveDevicesNone
<1>2. CASE \E i \in 1..Len(onlineDev) : onlineDev[i].devTypeStr = n
  <2>1. PICK p \in 1..Len(onlineDev) : onlineDev[p].devTypeStr = n
    BY <1>2
  <2>2. \A i \in 1..Len(onlineDev) : onlineDev[i].devTypeStr = n <=> i = p
    BY <2>1, NameOccursOnce
  <2> QED BY <2>2, RemoveDevicesOne
<1> QED BY <1>1, <1>2

\* There is one online device per category at most, so at most three.
LEMMA AtMostThreeDevices ==
    ASSUME onlineDev \in Seq(Device), NoExclusiveDevices
    PROVE  Len(onlineDev) <= 3
<1>1. Len(onlineDev) \in Nat
  BY LenProperties
<1>2. \A i \in 1..Len(onlineDev) : onlineDev[i].devCategory \in {0, 1, 2}
  BY ElementOfSeq, DeviceIsNewDevice DEF Categories, qiXiangZhan, nengJianDu
<1>3. \A i, j \in 1..Len(onlineDev) :
         i # j => onlineDev[i].devCategory # onlineDev[j].devCategory
  BY DEF NoExclusiveDevices, isExclusion
<1>4. ASSUME Len(onlineDev) > 3 PROVE FALSE
  <2>1. {1, 2, 3, 4} \subseteq 1..Len(onlineDev)
    BY <1>1, <1>4
  <2> DEFINE c(i) == onlineDev[i].devCategory
  <2>2. \A i, j \in {1, 2, 3, 4} : c(i) \in {0, 1, 2} /\ (i # j => c(i) # c(j))
    BY <1>2, <1>3, <2>1
  <2> HIDE DEF c
  <2> QED BY <2>2
<1> QED BY <1>1, <1>4

-----------------------------------------------------------------------------
(* The worker's queue.                                                     *)

\* A request posted to a running worker goes behind the start event.
LEMMA PostedBehindStart ==
    ASSUME TypeOK, StartComesFirst, running, NEW sig \in Signals \ {"signalStart"},
           NEW n \in DevNames \cup {NoDev}, Emit(sig, n),
           UNCHANGED <<running, started, timerActive>>
    PROVE  inbox' \in Seq(Event) /\ StartComesFirst'
<1> DEFINE e == [sig |-> sig, dev |-> n]
<1>1. inbox \in Seq(Event) /\ e \in Event /\ e.sig # "signalStart" /\ inbox' = Append(inbox, e)
  BY DEF TypeOK, Event, Emit
<1> HIDE DEF e
<1>2. /\ inbox' \in Seq(Event) /\ inbox' # <<>>
      /\ Len(inbox') = Len(inbox) + 1 /\ Len(inbox) \in Nat
      /\ \A k \in 1..Len(inbox) : inbox'[k] = inbox[k]
      /\ inbox'[Len(inbox) + 1].sig # "signalStart"
  BY <1>1, AppendProperties, LenProperties
<1>3. ~started => inbox'[1] = inbox[1]
  BY <1>1, <1>2, EmptySeq DEF StartComesFirst
<1>4. \A k \in 1..Len(inbox') : inbox'[k].sig = "signalStart" => k = 1 /\ ~started
  BY <1>2 DEF StartComesFirst
<1> QED BY <1>2, <1>3, <1>4 DEF StartComesFirst

\* Handling an event takes it from the queue.
LEMMA HandledEvent ==
    ASSUME TypeOK, NEW sig, Handling(sig)
    PROVE  /\ inbox[1] \in Event /\ inbox[1].sig = sig /\ Head(inbox) = inbox[1]
           /\ inbox' \in Seq(Event) /\ Len(inbox) \in Nat \ {0}
           /\ Len(inbox') = Len(inbox) - 1
           /\ \A k \in 1..Len(inbox') : inbox'[k] = inbox[k+1]
<1>1. inbox \in Seq(Event) /\ inbox # <<>> /\ inbox' = Tail(inbox) /\ Head(inbox).sig = sig
  BY DEF TypeOK, Handling
<1>2. Head(inbox) = inbox[1] /\ Len(inbox) \in Nat \ {0}
  BY <1>1, EmptySeq
<1> QED BY <1>1, <1>2, HeadTailProperties

\* A slot other than slotStart runs on a started worker and leaves no start
\* event behind it.
LEMMA HandledAfterStart ==
    ASSUME TypeOK, StartComesFirst, NEW sig, sig # "signalStart", Handling(sig),
           UNCHANGED started
    PROVE  started /\ StartComesFirst'
<1>1. running /\ running' = running
  BY DEF Handling
<1>2. started
  BY <1>1, HandledEvent DEF StartComesFirst
<1>3. \A k \in 1..Len(inbox') : inbox'[k].sig # "signalStart"
  BY <1>2, HandledEvent DEF StartComesFirst
<1> QED BY <1>1, <1>2, <1>3 DEF StartComesFirst

-----------------------------------------------------------------------------
(* The slots.                                                              *)

\* Appending a device that allow2Create accepts keeps the list exclusive-free.
LEMMA AddDevice ==
    ASSUME onlineDev \in Seq(Device), NoExclusiveDevices, NEW d \in Device,
           allow2Create(d), onlineDev' = Append(onlineDev, d)
    PROVE  onlineDev' \in Seq(Device) /\ NoExclusiveDevices'
<1>1. /\ onlineDev' \in Seq(Device)
      /\ Len(onlineDev') = Len(onlineDev) + 1 /\ Len(onlineDev) \in Nat
      /\ \A i \in 1..Len(onlineDev) : onlineDev'[i] = onlineDev[i]
      /\ onlineDev'[Len(onlineDev) + 1] = d
  BY AppendProperties, LenProperties
<1>2. \A i \in 1..Len(onlineDev) :
         ~isExclusion(onlineDev[i], d) /\ ~isExclusion(d, onlineDev[i])
  BY DEF allow2Create, isExclusion
<1>3. ASSUME NEW i \in 1..Len(onlineDev'), NEW j \in 1..Len(onlineDev'), i # j
      PROVE  ~isExclusion(onlineDev'[i], onlineDev'[j])
  <2>1. CASE i \in 1..Len(onlineDev) /\ j \in 1..Len(onlineDev)
    BY <1>1, <1>3, <2>1 DEF NoExclusiveDevices
  <2>2. CASE i = Len(onlineDev) + 1 /\ j \in 1..Len(onlineDev)
    BY <1>1, <1>2, <2>2
  <2>3. CASE j = Len(onlineDev) + 1 /\ i \in 1..Len(onlineDev)
    BY <1>1, <1>2, <2>3
  <2> QED BY <1>1, <1>3, <2>1, <2>2, <2>3
<1> QED BY <1>1, <1>3 DEF NoExclusiveDevices

\* The loop of slotDelDev leaves an exclusive-free list without the device,
\* shorter by at most one.
LEMMA RemoveDevice ==
    ASSUME onlineDev \in Seq(Device), NoExclusiveDevices, NEW n,
           onlineDev' = RemoveDevices(onlineDev, n)
    PROVE  /\ onlineDev' \in Seq(Device)
           /\ NoExclusiveDevices'
           /\ \A i \in 1..Len(onlineDev') : onlineDev'[i].devTypeStr # n
           /\ Len(onlineDev) - Len(onlineDev') \in {0, 1}
<1>1. Len(onlineDev) \in Nat
  BY LenProperties
<1>2. CASE /\ \A i \in 1..Len(onlineDev) : onlineDev[i].devTypeStr # n
           /\ onlineDev' = onlineDev
  BY <1>1, <1>2 DEF NoExclusiveDevices
<1>3. ASSUME NEW p \in 1..Len(onlineDev),
             \A i \in 1..Len(onlineDev) : onlineDev[i].devTypeStr = n <=> i = p,
             onlineDev' = RemoveAt(onlineDev, p)
      PROVE  /\ onlineDev' \in Seq(Device)
             /\ NoExclusiveDevices'
             /\ \A i \in 1..Len(onlineDev') : onlineDev'[i].devTypeStr # n
             /\ Len(onlineDev) - Len(onlineDev') \in {0, 1}
  <2> DEFINE old(i) == IF i < p THEN i ELSE i+1
  <2>1. /\ onlineDev' \in Seq(Device)
        /\ Len(onlineDev') = Len(onlineDev) - 1
        /\ \A i \in 1..Len(onlineDev') : onlineDev'[i] = onlineDev[old(i)]
    BY <1>1, <1>3, RemoveAtProperties
  <2>2. \A i, j \in 1..Len(onlineDev') :
           /\ old(i) \in 1..Len(onlineDev) /\ old(i) # p
           /\ i # j => old(i) # old(j)
    BY <1>1, <2>1
  <2> HIDE DEF old
  <2>3. NoExclusiveDevices'
    <3>1. ASSUME NEW i \in 1..Len(onlineDev'), NEW j \in 1..Len(onlineDev'), i # j
          PROVE  ~isExclusion(onlineDev[old(i)], onlineDev[old(j)])
      BY <2>2, <3>1 DEF NoExclusiveDevices
    <3> QED BY <2>1, <3>1 DEF NoExclusiveDevices
  <2>4. \A i \in 1..Len(onlineDev') : onlineDev'[i].devTypeStr # n
    BY <1>3, <2>1, <2>2
  <2>5. Len(onlineDev) - Len(onlineDev') = 1
    BY <1>1, <2>1
  <2> QED BY <2>1, <2>3, <2>4, <2>5
<1> QED BY <1>2, <1>3, RemovedDevice

\* A poll asks one command of each online device, so at most three.
LEMMA PollCommands ==
    ASSUME onlineDev \in Seq(Device), NoExclusiveDevices
    PROVE  ReadCommands \in Seq(Commands) /\ Len(ReadCommands) <= 3
<1>1. Len(onlineDev) \in Nat
  BY LenProperties
<1>2. \A i \in 1..Len(onlineDev) : onlineDev[i].cmd \in Commands
  BY ElementOfSeq, DeviceIsNewDevice
<1>3. ReadCommands \in Seq(Commands) /\ Len(ReadCommands) = Len(onlineDev)
  BY <1>1, <1>2 DEF ReadCommands
<1> QED BY <1>3, AtMostThreeDevices

-----------------------------------------------------------------------------
(* The inductive invariant.                                                *)

LEMMA IndInvInit == WorkerInit => IndInv
<1> SUFFICES ASSUME WorkerInit PROVE IndInv
  OBVIOUS
<1>1. TypeOK
  BY EmptySeq DEF WorkerInit, TypeOK
<1>2. NoExclusiveDevices
  BY DEF WorkerInit, NoExclusiveDevices
<1>3. StartComesFirst
  BY DEF WorkerInit, StartComesFirst
<1>4. NoCommandLeftBehind
  BY DEF WorkerInit, NoCommandLeftBehind
<1> QED BY <1>1, <1>2, <1>3, <1>4 DEF IndInv

LEMMA IndInvNext == IndInv /\ [WorkerNext]_workerVars => IndInv'
<1> SUFFICES ASSUME IndInv, [WorkerNext]_workerVars PROVE IndInv'
  OBVIOUS
<1> USE DEF IndInv
<1>1. CASE FacadeStart
  <2>1. inbox' = <<[sig |-> "signalStart", dev |-> NoDev]>>
    BY <1>1 DEF FacadeStart, Emit, StartComesFirst
  <2>2. TypeOK'
    BY <1>1, <2>1 DEF FacadeStart, TypeOK, Event, Signals, deviceVars
  <2>3. StartComesFirst'
    BY <1>1, <2>1 DEF FacadeStart, StartComesFirst, deviceVars
  <2>4. NoExclusiveDevices' /\ NoCommandLeftBehind'
    BY <1>1 DEF FacadeStart, NoExclusiveDevices, NoCommandLeftBehind, deviceVars
  <2> QED BY <2>2, <2>3, <2>4
<1>2. ASSUME NEW sig \in {"signalAddDev", "signalDelDev"}, NEW n \in DevNames,
             EmitRequest(sig, n)
      PROVE  IndInv'
  <2>1. inbox' \in Seq(Event) /\ StartComesFirst'
    BY <1>2, PostedBehindStart DEF EmitRequest, Signals, deviceVars
  <2> QED
    BY <1>2, <2>1 DEF EmitRequest, TypeOK, NoExclusiveDevices, NoCommandLeftBehind, deviceVars
<1>3. CASE EmitPoll
  <2>1. inbox' \in Seq(Event) /\ StartComesFirst'
    BY <1>3, PostedBehindStart DEF EmitPoll, Signals, deviceVars
  <2> QED
    BY <1>3, <2>1 DEF EmitPoll, TypeOK, NoExclusiveDevices, NoCommandLeftBehind, deviceVars
<1>4. CASE TakeResult
  <2>1. outbox' \in Seq(Result)
    BY <1>4, HeadTailProperties DEF TakeResult, TypeOK
  <2> QED
    BY <1>4, <2>1 DEF TakeResult, TypeOK, NoExclusiveDevices, StartComesFirst,
                      NoCommandLeftBehind, deviceVars
<1>5. CASE SlotStart
  <2>1. Handling("signalStart")
    BY <1>5 DEF SlotStart
  <2>2. ~started /\ ~timerActive
    BY <2>1, HandledEvent DEF StartComesFirst
  <2>3. StartComesFirst'
    BY <1>5, <2>1, HandledEvent DEF StartComesFirst, SlotStart, Handling
  <2>4. TypeOK'
    BY <1>5, <2>1, HandledEvent DEF SlotStart, Handling, TypeOK
  <2> QED
    BY <1>5, <2>2, <2>3, <2>4 DEF SlotStart, NoExclusiveDevices, NoCommandLeftBehind
<1>6. CASE SlotAddDev
  <2> DEFINE n == Head(inbox).dev
  <2>1. Handling("signalAddDev")
    BY <1>6 DEF SlotAddDev
  <2>2. StartComesFirst'
    BY <1>6, <2>1, HandledAfterStart DEF SlotAddDev
  <2>3. inbox' \in Seq(Event) /\ running' = running /\ n \in DevNames \cup {NoDev}
    BY <2>1, HandledEvent DEF Handling, Event
  <2>4. UNCHANGED <<started, cmdList, timerActive>>
    BY <1>6 DEF SlotAddDev
  <2>5. onlineDev' \in Seq(Device) /\ NoExclusiveDevices' /\ outbox' \in Seq(Result)
    <3>1. CASE ~isvalid(n)
      BY <1>6, <3>1 DEF SlotAddDev, TypeOK, NoExclusiveDevices
    <3>2. CASE isvalid(n)
      <4>1. n \in DevNames
        BY <2>3, <3>2 DEF NoDev, isvalid, Str2e_AShuErDevType, isvalidType, DevTypes,
                          e_AShuErDevTypeError, MWS600, VD930A
      <4>2. /\ NewDevice(n) \in Device
            /\ \A b \in BOOLEAN : Reply(n, b) \in Result
        BY <3>2, <4>1, NewDeviceType DEF Reply, Result
      <4>3. CASE allow2Create(NewDevice(n))
        <5>1. /\ onlineDev' = Append(onlineDev, NewDevice(n))
              /\ outbox' = Append(outbox, Reply(n, TRUE))
          BY <1>6, <3>2, <4>3 DEF SlotAddDev
        <5> QED BY <4>2, <4>3, <5>1, AddDevice, AppendProperties DEF TypeOK
      <4>4. CASE ~allow2Create(NewDevice(n))
        <5>1. /\ onlineDev' = onlineDev
              /\ outbox' = Append(outbox, Reply(n, FALSE))
          BY <1>6, <3>2, <4>4 DEF SlotAddDev
        <5> QED BY <4>2, <5>1, AppendProperties DEF TypeOK, NoExclusiveDevices
      <4> QED BY <4>3, <4>4
    <3> QED BY <3>1, <3>2
  <2>6. TypeOK' /\ NoCommandLeftBehind'
    BY <2>3, <2>4, <2>5 DEF TypeOK, NoCommandLeftBehind
  <2> QED BY <2>2, <2>5, <2>6
<1>7. CASE SlotDelDev
  <2> DEFINE n == Head(inbox).dev
  <2>1. Handling("signalDelDev")
    BY <1>7 DEF SlotDelDev
  <2>2. StartComesFirst'
    BY <1>7, <2>1, HandledAfterStart DEF SlotDelDev
  <2>3. inbox' \in Seq(Event) /\ running' = running /\ n \in DevNames \cup {NoDev}
    BY <2>1, HandledEvent DEF Handling, Event
  <2>4. UNCHANGED <<started, cmdList, timerActive>>
    BY <1>7 DEF SlotDelDev
  <2>5. onlineDev' \in Seq(Device) /\ NoExclusiveDevices' /\ outbox' \in Seq(Result)
    <3>1. CASE ~isvalid(n)
      BY <1>7, <3>1 DEF SlotDelDev, TypeOK, NoExclusiveDevices
    <3>2. CASE isvalid(n)
      <4> DEFINE k == Len(onlineDev) - Len(onlineDev')
                 replies == [i \in 1..k |-> Reply(n, FALSE)]
      <4>1. n \in DevNames
        BY <2>3, <3>2 DEF NoDev, isvalid, Str2e_AShuErDevType, isvalidType, DevTypes,
                          e_AShuErDevTypeError, MWS600, VD930A
      <4>2. onlineDev' = RemoveDevices(onlineDev, n) /\ outbox' = outbox \o replies
        BY <1>7, <3>2 DEF SlotDelDev
      <4>3. onlineDev' \in Seq(Device) /\ NoExclusiveDevices' /\ k \in {0, 1}
        BY <4>2, RemoveDevice DEF TypeOK
      <4>4. replies \in Seq(Result)
        BY <4>1, <4>3 DEF Reply, Result
      <4> QED BY <4>2, <4>3, <4>4, ConcatProperties DEF TypeOK
    <3> QED BY <3>1, <3>2
  <2>6. TypeOK' /\ NoCommandLeftBehind'
    BY <2>3, <2>4, <2>5 DEF TypeOK, NoCommandLeftBehind
  <2> QED BY <2>2, <2>5, <2>6
<1>8. CASE SlotGetLatestData
  <2>1. Handling("signalGetLatestData")
    BY <1>8 DEF SlotGetLatestData
  <2>2. inbox' \in Seq(Event) /\ running' = running
    BY <2>1, HandledEvent DEF Handling
  <2>3. started /\ StartComesFirst'
    BY <1>8, <2>1, HandledAfterStart DEF SlotGetLatestData
  <2>4. cmdList' \in Seq(Commands) /\ timerActive' \in BOOLEAN /\ NoCommandLeftBehind'
    <3>1. CASE timerActive /\ UNCHANGED <<cmdList, timerActive>>
      BY <3>1 DEF TypeOK, NoCommandLeftBehind
    <3>2. CASE ~timerActive /\ cmdList' = cmdList \o ReadCommands /\ timerActive' = TRUE
      <4>1. cmdList' = ReadCommands
        BY <3>2, PollCommands, ConcatEmptySeq DEF TypeOK, NoCommandLeftBehind
      <4> QED BY <3>2, <4>1, PollCommands DEF TypeOK, NoCommandLeftBehind
    <3> QED BY <1>8, <3>1, <3>2 DEF SlotGetLatestData
  <2>5. TypeOK' /\ NoExclusiveDevices'
    BY <1>8, <2>2, <2>4 DEF SlotGetLatestData, TypeOK, NoExclusiveDevices
  <2> QED BY <2>3, <2>4, <2>5
<1>9. CASE SendCommand
  <2>1. cmdList' \in Seq(Commands) /\ Len(cmdList') = Len(cmdList) - 1 /\ Len(cmdList) \in Nat
    BY <1>9, HeadTailProperties, LenProperties DEF SendCommand, TypeOK
  <2> QED
    BY <1>9, <2>1 DEF SendCommand, TypeOK, NoExclusiveDevices, StartComesFirst,
                      NoCommandLeftBehind
<1>10. CASE LatestDataReady
  BY <1>10 DEF LatestDataReady, TypeOK, NoExclusiveDevices, StartComesFirst,
               NoCommandLeftBehind
<1>11. CASE UNCHANGED workerVars
  BY <1>11 DEF workerVars, TypeOK, NoExclusiveDevices, StartComesFirst, NoCommandLeftBehind
<1> QED
  BY <1>1, <1>2, <1>3, <1>4, <1>5, <1>6, <1>7, <1>8, <1>9, <1>10, <1>11
  DEF WorkerNext, Client, Slot, TimerTimeout

-----------------------------------------------------------------------------
(* What the two slots that edit the list do, all told.                     *)

\* A valid name in a request is one of the clients' names.
LEMMA ValidEventName ==
    ASSUME inbox \in Seq(Event), NEW sig, Handling(sig), isvalid(Head(inbox).dev)
    PROVE  Head(inbox).dev \in DevNames
<1>1. Head(inbox) \in Event
  BY HeadTailProperties DEF Handling
<1>2. ~isvalid(NoDev)
  BY DEF NoDev, isvalid, Str2e_AShuErDevType, isvalidType, DevTypes,
         e_AShuErDevTypeError, MWS600, VD930A
<1> QED BY <1>1, <1>2 DEF Event

\* The answers to a close: none, or one.
LEMMA RepeatedAnswer ==
    ASSUME NEW x
    PROVE  [i \in 1..0 |-> x] = <<>> /\ [i \in 1..1 |-> x] = <<x>>
OBVIOUS

\* slotDelDev removes the device at p, called n, and answers once.
CloseOf(n, p) ==
    /\ n \in DevNames /\ isvalid(n)
    /\ onlineDev[p] = NewDevice(n)
    /\ \A i \in 1..Len(onlineDev) : onlineDev[i].devTypeStr = n <=> i = p
    /\ onlineDev' = RemoveAt(onlineDev, p)
    /\ outbox' = Append(outbox, Reply(n, FALSE))

LEMMA DelDevEffect ==
    ASSUME IndInv, SlotDelDev
    PROVE  \/ UNCHANGED <<onlineDev, outbox>>
           \/ \E p \in 1..Len(onlineDev) : CloseOf(Head(inbox).dev, p)
<1> DEFINE n == Head(inbox).dev
           replies == [i \in 1..(Len(onlineDev) - Len(onlineDev')) |-> Reply(n, FALSE)]
<1>1. /\ inbox \in Seq(Event) /\ onlineDev \in Seq(Device) /\ outbox \in Seq(Result)
      /\ NoExclusiveDevices
  BY DEF IndInv, TypeOK
<1>2. CASE ~isvalid(n)
  BY <1>2 DEF SlotDelDev
<1>3. CASE isvalid(n)
  <2>1. n \in DevNames
    BY <1>1, <1>3, ValidEventName DEF SlotDelDev
  <2>2. onlineDev' = RemoveDevices(onlineDev, n) /\ outbox' = outbox \o replies
    BY <1>3 DEF SlotDelDev
  <2>3. CASE RemoveDevices(onlineDev, n) = onlineDev
    <3>1. Len(onlineDev) - Len(onlineDev') = 0
      BY <1>1, <2>2, <2>3, LenProperties
    <3>2. replies = <<>>
      BY <3>1, RepeatedAnswer
    <3> QED BY <1>1, <2>2, <2>3, <3>2, ConcatEmptySeq
  <2>4. ASSUME NEW p \in 1..Len(onlineDev),
               \A i \in 1..Len(onlineDev) : onlineDev[i].devTypeStr = n <=> i = p,
               RemoveDevices(onlineDev, n) = RemoveAt(onlineDev, p)
        PROVE  CloseOf(n, p)
    <3>1. onlineDev[p] = NewDevice(n)
      BY <1>1, <2>4, ElementOfSeq, DeviceIsNewDevice
    <3>2. onlineDev' = RemoveAt(onlineDev, p)
      BY <2>2, <2>4
    <3>3. Len(RemoveAt(onlineDev, p)) = Len(onlineDev) - 1 /\ Len(onlineDev) \in Nat
      BY <1>1, RemoveAtProperties, LenProperties
    <3>4. Len(onlineDev) - Len(onlineDev') = 1
      BY <3>2, <3>3
    <3>5. replies = <<Reply(n, FALSE)>>
      BY <3>4, RepeatedAnswer
    <3>6. Reply(n, FALSE) \in Result
      BY <2>1 DEF Reply, Result
    <3>7. Append(outbox, Reply(n, FALSE)) = outbox \o <<Reply(n, FALSE)>>
      BY <1>1, <3>6, AppendIsConcat
    <3>8. outbox' = Append(outbox, Reply(n, FALSE))
      BY <2>2, <3>5, <3>7
    <3>9. n \in DevNames /\ isvalid(n)
      BY <1>3, <2>1
    <3>10. \A i \in 1..Len(onlineDev) : onlineDev[i].devTypeStr = n <=> i = p
      BY <2>4
    <3> HIDE DEF n, replies
    <3> QED BY <3>1, <3>2, <3>8, <3>9, <3>10 DEF CloseOf
  <2>5. \/ RemoveDevices(onlineDev, n) = onlineDev
        \/ \E p \in 1..Len(onlineDev) :
              /\ \A i \in 1..Len(onlineDev) : onlineDev[i].devTypeStr = n <=> i = p
              /\ RemoveDevices(onlineDev, n) = RemoveAt(onlineDev, p)
    BY <1>1, RemovedDevice
  <2>6. CASE \E p \in 1..Len(onlineDev) :
                /\ \A i \in 1..Len(onlineDev) : onlineDev[i].devTypeStr = n <=> i = p
                /\ RemoveDevices(onlineDev, n) = RemoveAt(onlineDev, p)
    <3>1. PICK p \in 1..Len(onlineDev) :
             /\ \A i \in 1..Len(onlineDev) : onlineDev[i].devTypeStr = n <=> i = p
             /\ RemoveDevices(onlineDev, n) = RemoveAt(onlineDev, p)
      BY <2>6
    <3>2. CloseOf(n, p)
      BY <2>4, <3>1
    <3> QED BY <3>2
  <2> QED BY <2>3, <2>5, <2>6
<1> QED BY <1>2, <1>3

-----------------------------------------------------------------------------
(* The properties of the device thread.                                    *)

\* The inductive invariant holds in every reachable state, whatever the
\* client of the facade does.
THEOREM IndInvHolds == WorkerSpec => []IndInv
BY IndInvInit, IndInvNext, PTL DEF WorkerSpec

\* Every object of m_onlineDev is the one the constructor makes of a valid
\* name; queues, commands and results have their types.
THEOREM TypeCorrect == WorkerSpec => []TypeOK
<1>1. IndInv => TypeOK
  BY DEF IndInv
<1> QED BY <1>1, IndInvHolds, PTL

\* No sequence of slotAddDev and slotDelDev puts two exclusive devices online.
THEOREM ExclusiveDevices == WorkerSpec => []NoExclusiveDevices
<1>1. IndInv => NoExclusiveDevices
  BY DEF IndInv
<1> QED BY <1>1, IndInvHolds, PTL

\* slotStart has created m_timer before slotGetLatestData or a timeout uses it.
THEOREM TimerCreatedBeforeUse == WorkerSpec => []StartedBeforeUse
<1>1. ASSUME IndInv PROVE StartedBeforeUse
  <2>1. CASE inbox # <<>> /\ IsPoll(Head(inbox))
    <3>1. Head(inbox) = inbox[1] /\ Head(inbox).sig = "signalGetLatestData"
      BY <1>1, <2>1 DEF IndInv, TypeOK, IsPoll
    <3>2. running
      BY <1>1, <2>1 DEF IndInv, StartComesFirst
    <3> QED BY <1>1, <3>1, <3>2 DEF IndInv, StartComesFirst, StartedBeforeUse
  <2>2. CASE ~(inbox # <<>> /\ IsPoll(Head(inbox)))
    BY <1>1, <2>2 DEF IndInv, StartComesFirst, StartedBeforeUse
  <2> QED BY <2>1, <2>2
<1> QED BY <1>1, IndInvHolds, PTL

\* The timer stops with m_cmdList empty, and m_cmdList never exceeds three.
THEOREM CommandsAreSent == WorkerSpec => []NoCommandLeftBehind
<1>1. IndInv => NoCommandLeftBehind
  BY DEF IndInv
<1> QED BY <1>1, IndInvHolds, PTL

\* Two polls never mix in m_cmdList.
THEOREM PollsDoNotMix == WorkerSpec => PollIsASnapshot
<1> DEFINE Step == cmdList' # cmdList =>
                      \/ cmdList = <<>> /\ cmdList' = ReadCommands
                      \/ cmdList # <<>> /\ cmdList' = Tail(cmdList)
<1>1. ASSUME IndInv, [WorkerNext]_workerVars PROVE [Step]_workerVars
  <2>1. CASE SlotGetLatestData
    <3>1. CASE timerActive /\ UNCHANGED <<cmdList, timerActive>>
      BY <3>1
    <3>2. CASE ~timerActive /\ cmdList' = cmdList \o ReadCommands
      <4>1. cmdList = <<>> /\ ReadCommands \in Seq(Commands)
        BY <1>1, <3>2, PollCommands DEF IndInv, TypeOK, NoCommandLeftBehind
      <4> QED BY <3>2, <4>1, ConcatEmptySeq
    <3> QED BY <2>1, <3>1, <3>2 DEF SlotGetLatestData
  <2>2. CASE SendCommand
    BY <2>2 DEF SendCommand
  <2>3. CASE cmdList' = cmdList
    BY <2>3
  <2> QED
    BY <1>1, <2>1, <2>2, <2>3
    DEF workerVars, deviceVars, WorkerNext, Client, Slot, TimerTimeout, FacadeStart,
        EmitRequest, EmitPoll, TakeResult, SlotStart, SlotAddDev, SlotDelDev, LatestDataReady
<1>2. WorkerSpec => [][Step]_workerVars
  BY <1>1, IndInvHolds, PTL DEF WorkerSpec
<1> QED BY <1>2 DEF PollIsASnapshot

\* Although its loop skips the device after the one it removes, slotDelDev
\* leaves no device of the closed name.
THEOREM CloseRemovesTheDevice == WorkerSpec => CloseIsComplete
<1> DEFINE Step == Handling("signalDelDev") =>
                      \A i \in 1..Len(onlineDev') :
                          onlineDev'[i].devTypeStr # Head(inbox).dev
<1>1. ASSUME IndInv, [WorkerNext]_workerVars PROVE [Step]_workerVars
  <2> SUFFICES ASSUME Handling("signalDelDev") PROVE Step
    OBVIOUS
  <2>1. SlotDelDev
    <3>1. /\ running
          /\ Len(inbox') = Len(inbox) - 1 /\ Len(inbox) \in Nat /\ inbox \in Seq(Event)
          /\ Head(inbox).sig = "signalDelDev"
      BY <1>1, HandledEvent, LenProperties, AppendProperties DEF IndInv, TypeOK, Handling
    <3>2. \A sig, n : ~Emit(sig, n)
      BY <3>1 DEF Emit
    <3>3. inbox' # inbox
      BY <3>1
    <3> QED
      BY <1>1, <3>1, <3>2, <3>3
      DEF workerVars, deviceVars, WorkerNext, Client, Slot, TimerTimeout, FacadeStart,
          EmitRequest, EmitPoll, TakeResult, SlotStart, SlotAddDev, SlotGetLatestData,
          SendCommand, LatestDataReady, Handling
  <2>2. CASE isvalid(Head(inbox).dev)
    BY <1>1, <2>1, <2>2, RemoveDevice DEF IndInv, TypeOK, SlotDelDev
  <2>3. CASE ~isvalid(Head(inbox).dev)
    <3>1. onlineDev' = onlineDev
      BY <2>1, <2>3 DEF SlotDelDev
    <3> QED BY <1>1, <2>3, <3>1, ElementOfSeq, DeviceIsNewDevice DEF IndInv, TypeOK
  <2> QED BY <2>2, <2>3
<1>2. WorkerSpec => [][Step]_workerVars
  BY <1>1, IndInvHolds, PTL DEF WorkerSpec
<1> QED BY <1>2 DEF CloseIsComplete

=============================================================================

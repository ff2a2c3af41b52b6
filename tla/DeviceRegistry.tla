--------------------------- MODULE DeviceRegistry ---------------------------
(***************************************************************************)
(* What the device thread promises about open devices, without its list,   *)
(* its loops and its queue of requests: there is one slot per device       *)
(* category, opening a device takes the slot if it is free, closing it     *)
(* frees the slot, and every open or close that is answered is answered in *)
(* the order in which it took effect.                                      *)
(***************************************************************************)
EXTENDS AShuErDevive, Sequences

CONSTANT DevNames

VARIABLES
    slot,     \* the name of the open device of each category, or Free
    answers   \* results not yet taken by the client, oldest first

registryVars == <<slot, answers>>

Free == "free"
CategoryOf(n) == NewDevice(n).devCategory
Answer(n, success) == answers' = Append(answers, [devType |-> n, success |-> success])

RegistryInit ==
    /\ slot = [c \in Categories |-> Free]
    /\ answers = <<>>

\* The slot is free: the device takes it.
Open(n) ==
    /\ slot[CategoryOf(n)] = Free
    /\ slot' = [slot EXCEPT ![CategoryOf(n)] = n]
    /\ Answer(n, TRUE)

\* The slot is taken, by this device or by another of its category.
Refuse(n) ==
    /\ slot[CategoryOf(n)] # Free
    /\ Answer(n, FALSE)
    /\ UNCHANGED slot

\* Closing a device that is not open is not answered.
Close(n) ==
    /\ slot[CategoryOf(n)] = n
    /\ slot' = [slot EXCEPT ![CategoryOf(n)] = Free]
    /\ Answer(n, FALSE)

Take ==
    /\ answers # <<>>
    /\ answers' = Tail(answers)
    /\ UNCHANGED slot

\* The end of the device thread: every device is gone, and nobody is told.
Shutdown ==
    /\ slot' = [c \in Categories |-> Free]
    /\ UNCHANGED answers

RegistryNext ==
    \/ \E n \in {m \in DevNames : isvalid(m)} : Open(n) \/ Refuse(n) \/ Close(n)
    \/ Take

RegistrySpec == RegistryInit /\ [][RegistryNext]_registryVars

=============================================================================

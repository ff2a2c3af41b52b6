----------------------------- MODULE WidgetInit -----------------------------
(***************************************************************************)
(* The constructor of Widget: init() runs initCfg, initHttpServer,         *)
(* initHuaYunDevice and initTimer in this order, before the event loop.    *)
(* m_HuaYunDevCount is a plain int no constructor initialises: until       *)
(* initCfg assigns it, it holds whatever the memory held.                  *)
(***************************************************************************)
EXTENDS Integers, Sequences, FiniteSetsExt

CONSTANTS
    Counts,      \* values toInt() may give for DevicesHuaYun/DevCount
    Garbage      \* values the uninitialised count may hold

ASSUME CountsAssumption == Counts \subseteq Int /\ Garbage \subseteq Int

VARIABLES
    pc,          \* the call init() makes next
    ini,         \* cfg.ini: whether it exists, its DevCount
    devCount,    \* m_HuaYunDevCount
    devList,     \* the <<row, column>> of each panel of m_HuaYunDevList
    asked        \* devices initHuaYunDevice has emitted signalAddDev for

vars == <<pc, ini, devCount, devList, asked>>

\* The division and remainder of C++: towards zero.
Abs(n)    == IF n < 0 THEN -n ELSE n
Quot(a, b) == IF a < 0 THEN -(Abs(a) \div b) ELSE a \div b
Rem(a, b)  == a - b * Quot(a, b)

\* Mutant: the row of the remaining devices is missing.
Lines_FullRows(count) == Quot(count, 4)

\* initCfg: "line" rows of up to 4 panels for "count" devices.
Lines(count) == (IF Rem(count, 4) > 0 THEN 1 ELSE 0) + Quot(count, 4)

(* The two loops of initCfg: index[i] is the device the row i begins with. *)
Layout(count) ==
    LET line == Max({0, Lines(count)})
        index[i \in 0..line] ==
            IF i = 0 THEN 0
            ELSE index[i-1] + Max({0, Min({4, count - index[i-1]})})
        Row(k) == Max({i \in 0..line-1 : index[i] <= k})
    IN  [k \in 1..index[line] |-> <<Row(k-1), k - 1 - index[Row(k-1)]>>]

-----------------------------------------------------------------------------
Init ==
    /\ pc = "initCfg"
    /\ ini \in [exists : BOOLEAN, count : Counts]
    /\ devCount \in Garbage
    /\ devList = <<>>
    /\ asked = 0

\* initCfg returns early when the file is missing.
InitCfg ==
    /\ pc = "initCfg"
    /\ pc' = "initHttpServer"
    /\ \/ /\ ~ini.exists
          /\ UNCHANGED <<devCount, devList>>
       \/ /\ ini.exists
          /\ devCount' = ini.count
          /\ devList' = Layout(ini.count)
    /\ UNCHANGED <<ini, asked>>

InitHttpServer ==
    /\ pc = "initHttpServer"
    /\ pc' = "initHuaYunDevice"
    /\ UNCHANGED <<ini, devCount, devList, asked>>

\* Mutant: the loop runs up to the count itself.
InitHuaYunDevice_OneMore ==
    /\ pc = "initHuaYunDevice"
    /\ IF asked <= devCount
       THEN IF asked + 1 \in 1..Len(devList)
            THEN asked' = asked + 1 /\ UNCHANGED pc
            ELSE pc' = "outOfRange" /\ UNCHANGED asked
       ELSE pc' = "initTimer" /\ UNCHANGED asked
    /\ UNCHANGED <<ini, devCount, devList>>

\* Mutant: the loop leaves the last device out.
InitHuaYunDevice_OneLess ==
    /\ pc = "initHuaYunDevice"
    /\ IF asked + 1 < devCount
       THEN IF asked + 1 \in 1..Len(devList)
            THEN asked' = asked + 1 /\ UNCHANGED pc
            ELSE pc' = "outOfRange" /\ UNCHANGED asked
       ELSE pc' = "initTimer" /\ UNCHANGED asked
    /\ UNCHANGED <<ini, devCount, devList>>

(* One pass of the loop of initHuaYunDevice: m_HuaYunDevList.at(asked).  An *)
(* index outside the list is undefined behaviour and ends the program here. *)
InitHuaYunDevice ==
    /\ pc = "initHuaYunDevice"
    /\ \/ /\ asked < devCount
          /\ asked + 1 \in 1..Len(devList)
          /\ asked' = asked + 1
          /\ UNCHANGED pc
       \/ /\ asked < devCount
          /\ asked + 1 \notin 1..Len(devList)
          /\ pc' = "outOfRange"
          /\ UNCHANGED asked
       \/ /\ asked >= devCount
          /\ pc' = "initTimer"
          /\ UNCHANGED asked
    /\ UNCHANGED <<ini, devCount, devList>>

InitTimer ==
    /\ pc = "initTimer"
    /\ pc' = "exec"
    /\ UNCHANGED <<ini, devCount, devList, asked>>

Next == InitCfg \/ InitHttpServer \/ InitHuaYunDevice \/ InitTimer

Spec == Init /\ [][Next]_vars
FairSpec == Spec /\ WF_vars(Next)

-----------------------------------------------------------------------------
\* Each configured device has a cell of its own, row by row, four to a row,
\* and a count that is negative or zero gives no panel.
EveryDeviceHasItsCell ==
    pc # "initCfg" /\ ini.exists =>
        /\ Len(devList) = Max({0, ini.count})
        /\ \A k \in 1..Len(devList) : devList[k] = <<(k-1) \div 4, (k-1) % 4>>

\* m_HuaYunDevCount does not exceed the length of m_HuaYunDevList wherever
\* initHuaYunDevice and the result handler use it as a loop bound.
CountBoundsList == pc \notin {"initCfg", "initHttpServer"} => devCount <= Len(devList)

\* Only without cfg.ini, where initCfg returns before it assigns the count,
\* does the loop of initHuaYunDevice leave the list.
OutOfRangeOnlyWithoutIni == pc = "outOfRange" => ~ini.exists

\* With cfg.ini the constructor ends, having asked for every device listed.
StartupAsksForAll == ini.exists => <>(pc = "exec" /\ asked = Len(devList))

=============================================================================

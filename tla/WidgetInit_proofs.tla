------------------------- MODULE WidgetInit_proofs -------------------------
(***************************************************************************)
(* Proofs about the startup, for every DevCount cfg.ini may give and every *)
(* value of the uninitialised count: the two loops of initCfg lay the      *)
(* panels out four to a row, and the loop of initHuaYunDevice leaves the    *)
(* list only when there is no cfg.ini.                                     *)
(***************************************************************************)
EXTENDS WidgetInit, WellFoundedInduction, TLAPS

-----------------------------------------------------------------------------
(* Numbers.                                                                *)

LEMMA MaxMin ==
    ASSUME NEW x \in Int
    PROVE  /\ Max({0, x}) = IF x > 0 THEN x ELSE 0
           /\ Min({4, x}) = IF x < 4 THEN x ELSE 4
BY DEF Max, Min

LEMMA DivisionByFour ==
    ASSUME NEW k \in Nat
    PROVE  /\ k \div 4 \in Nat /\ 4 * (k \div 4) <= k /\ k < 4 * (k \div 4) + 4
           /\ k % 4 = k - 4 * (k \div 4)
OBVIOUS

Below == {p \in Nat \X Nat : p[1] < p[2]}

\* A nonempty set of naturals has a least element.
LEMMA LeastNat ==
    ASSUME NEW T \in SUBSET Nat, T # {}
    PROVE  \E x \in T : \A y \in T : x <= y
<1>1. IsWellFoundedOn(Below, Nat)
  BY NatLessThanWellFounded DEF OpToRel, Below
<1>2. PICK x \in T : \A y \in T : <<y, x>> \notin Below
  BY <1>1, WFMin, Zenon
<1>3. ASSUME NEW y \in T PROVE x <= y
  <2>1. x \in Nat /\ y \in Nat OBVIOUS
  <2>2. <<y, x>> \in Nat \X Nat /\ <<y, x>>[1] = y /\ <<y, x>>[2] = x BY <2>1
  <2>3. ~(y < x) BY <1>2, <2>2, Zenon DEF Below
  <2> QED BY <2>1, <2>3
<1> QED BY <1>3

-----------------------------------------------------------------------------
(* The loops of initCfg.                                                   *)

\* The panels there are to lay out.
Panels(count) == IF count > 0 THEN count ELSE 0

\* There is a row for every panel, and none for no panel.
LEMMA RowsSuffice ==
    ASSUME NEW count \in Int, NEW line, line = Max({0, Lines(count)})
    PROVE  /\ line \in Nat /\ Panels(count) <= 4 * line
           /\ line > 0 => count > 0
<1>1. CASE count >= 0
  <2>1. /\ Quot(count, 4) = count \div 4
        /\ Rem(count, 4) = count - 4 * (count \div 4)
    BY <1>1 DEF Quot, Rem
  <2>2. /\ count \div 4 \in Nat /\ 4 * (count \div 4) <= count
        /\ count < 4 * (count \div 4) + 4
    BY <1>1, DivisionByFour
  <2>3. Lines(count) = IF count > 4 * (count \div 4) THEN 1 + (count \div 4)
                                                     ELSE count \div 4
    BY <2>1, <2>2 DEF Lines
  <2>4. Lines(count) \in Nat /\ count <= 4 * Lines(count) /\ (Lines(count) > 0 => count > 0)
    BY <1>1, <2>2, <2>3
  <2>5. Max({0, Lines(count)}) = IF Lines(count) > 0 THEN Lines(count) ELSE 0
    <3>1. Lines(count) \in Int BY <2>4
    <3> QED BY <3>1, MaxMin, Zenon
  <2> QED BY <1>1, <2>4, <2>5 DEF Panels
<1>2. CASE count < 0
  <2>1. -count \in Nat /\ Abs(count) = -count BY <1>2 DEF Abs
  <2>2. /\ (-count) \div 4 \in Nat /\ 4 * ((-count) \div 4) <= -count
    BY <2>1, DivisionByFour
  <2>3. Quot(count, 4) = -((-count) \div 4) BY <1>2, <2>1 DEF Quot
  <2>4. Quot(count, 4) \in Int /\ Quot(count, 4) <= 0 /\ Rem(count, 4) <= 0
    BY <1>2, <2>2, <2>3 DEF Rem
  <2>5. Rem(count, 4) \in Int BY <2>4 DEF Rem
  <2>6. Lines(count) \in Int /\ Lines(count) <= 0 BY <2>4, <2>5 DEF Lines
  <2>7. Max({0, Lines(count)}) = IF Lines(count) > 0 THEN Lines(count) ELSE 0
    BY <2>6, MaxMin, Zenon
  <2> QED BY <1>2, <2>6, <2>7 DEF Panels
<1> QED BY <1>1, <1>2

\* The device row i begins with, given those of the rows before.
Begins(f, count, i) ==
    IF i = 0 THEN 0
    ELSE f[i-1] + Max({0, Min({4, count - f[i-1]})})

\* The panels of "line" rows, given the device each row begins with.
Cells(f, line) ==
    LET Row(k) == Max({i \in 0..line-1 : f[i] <= k})
    IN  [k \in 1..f[line] |-> <<Row(k-1), k - 1 - f[Row(k-1)]>>]

\* The loops determine the layout: it is that of any function that satisfies
\* the equation of the outer loop.
LEMMA LayoutByWitness ==
    ASSUME NEW count \in Int, NEW line \in Nat, line = Max({0, Lines(count)}), NEW w,
           w = [i \in 0..line |-> Begins(w, count, i)]
    PROVE  Layout(count) = Cells(w, line)
<1> DEFINE index == CHOOSE f : f = [i \in 0..line |-> Begins(f, count, i)]
           Diff  == {i \in 0..line : index[i] # w[i]}
<1>1. Layout(count) = Cells(index, line)
  BY DEF Layout, Begins, Cells
<1>2. index = [i \in 0..line |-> Begins(index, count, i)]
  OBVIOUS
<1> HIDE DEF index
<1>3. ASSUME Diff # {} PROVE FALSE
  <2>1. PICK k \in Diff : \A j \in Diff : k <= j
    <3>1. Diff \in SUBSET Nat OBVIOUS
    <3> QED BY <1>3, <3>1, LeastNat, Zenon
  <2>2. k \in 0..line /\ index[k] # w[k] OBVIOUS
  <2>3. index[k] = Begins(index, count, k) /\ w[k] = Begins(w, count, k)
    BY <1>2, <2>2, Zenon
  <2>4. CASE k = 0
    BY <2>2, <2>3, <2>4 DEF Begins
  <2>5. CASE k # 0
    <3>1. k-1 \in 0..line /\ ~(k <= k-1) BY <2>2, <2>5
    <3>2. index[k-1] = w[k-1] BY <2>1, <3>1
    <3>3. Begins(index, count, k) = Begins(w, count, k) BY <2>5, <3>2, Zenon DEF Begins
    <3> QED BY <2>2, <2>3, <3>3
  <2> QED BY <2>4, <2>5
<1>4. \A i \in 0..line : Begins(index, count, i) = Begins(w, count, i)
  BY <1>2, <1>3, Zenon
<1>5. index = w
  BY <1>2, <1>4, Zenon
<1> QED BY <1>1, <1>5

\* initCfg lays out the configured devices row by row, four to a row.
LEMMA LayoutIsRowByRow ==
    ASSUME NEW count \in Int
    PROVE  Layout(count) =
               [k \in 1..Panels(count) |-> <<(k-1) \div 4, (k-1) % 4>>]
<1> DEFINE m    == Panels(count)
           line == Max({0, Lines(count)})
           w    == [i \in 0..line |-> IF 4 * i < m THEN 4 * i ELSE m]
<1>1. /\ line \in Nat /\ m \in Nat /\ m <= 4 * line
      /\ line > 0 => m = count /\ count > 0
  BY RowsSuffice DEF Panels
<1> HIDE DEF line, m
<1>2. ASSUME NEW i \in 0..line PROVE Begins(w, count, i) = w[i]
  <2>1. CASE i = 0 BY <1>1, <2>1 DEF Begins
  <2>2. CASE i # 0
    <3>1. i-1 \in 0..line /\ i-1 \in Nat /\ m = count BY <1>1, <2>2
    <3>2. w[i-1] = (IF 4 * (i-1) < m THEN 4 * (i-1) ELSE m) BY <3>1
    <3>3. count - w[i-1] \in Int /\ w[i-1] \in Nat BY <1>1, <3>1, <3>2
    <3>4. Min({4, count - w[i-1]}) = IF count - w[i-1] < 4 THEN count - w[i-1] ELSE 4
      BY <3>3, MaxMin
    <3>5. Max({0, Min({4, count - w[i-1]})}) =
             IF count - w[i-1] > 0
             THEN IF count - w[i-1] < 4 THEN count - w[i-1] ELSE 4
             ELSE 0
      <4> DEFINE x == Min({4, count - w[i-1]})
      <4>1. x \in Int BY <3>3, <3>4
      <4>2. Max({0, x}) = IF x > 0 THEN x ELSE 0
        <5> HIDE DEF x
        <5> QED BY <4>1, MaxMin, Zenon
      <4> QED BY <3>3, <3>4, <4>2
    <3>6. w[i] = (IF 4 * i < m THEN 4 * i ELSE m) OBVIOUS
    <3> HIDE DEF w
    <3> QED BY <1>1, <2>2, <3>1, <3>2, <3>3, <3>5, <3>6 DEF Begins
  <2> QED BY <2>1, <2>2
<1>3. w = [i \in 0..line |-> Begins(w, count, i)]
  BY <1>2, Zenon
<1>4. /\ w[line] = m
      /\ \A i \in 0..line : w[i] = IF 4 * i < m THEN 4 * i ELSE m
  BY <1>1
<1> HIDE DEF w
<1>5. Layout(count) = Cells(w, line)
  BY <1>1, <1>3, LayoutByWitness DEF line
<1> DEFINE Row(k) == Max({i \in 0..line-1 : w[i] <= k})
<1>6. ASSUME NEW k \in 0..m-1
      PROVE  Row(k) = k \div 4 /\ k - w[Row(k)] = k % 4
  <2>1. /\ k \in Nat /\ k \div 4 \in Nat /\ 4 * (k \div 4) <= k
        /\ k < 4 * (k \div 4) + 4 /\ k % 4 = k - 4 * (k \div 4)
    BY <1>1, DivisionByFour
  <2> DEFINE q    == k \div 4
             Rows == {i \in 0..line-1 : w[i] <= k}
  <2> HIDE DEF q
  <2>2. q \in Nat /\ 4 * q <= k /\ k < 4 * q + 4 /\ k % 4 = k - 4 * q
    BY <2>1 DEF q
  <2>3. q \in 0..line-1 /\ w[q] = 4 * q
    BY <1>1, <1>4, <2>2
  <2>4. q \in Rows BY <2>2, <2>3
  <2>5. \A i \in Rows : i \in Int /\ q >= i BY <1>1, <1>4, <2>2
  <2>6. Max(Rows) = q
    <3> HIDE DEF Rows
    <3>1. \A x \in Rows : (\A y \in Rows : x >= y) => x = q BY <2>2, <2>4, <2>5
    <3> QED BY <2>4, <2>5, <3>1 DEF Max
  <2> QED BY <2>2, <2>3, <2>6 DEF q
<1>7. Cells(w, line) = [k \in 1..m |-> <<Row(k-1), k - 1 - w[Row(k-1)]>>]
  BY <1>4 DEF Cells
<1> HIDE DEF Row
<1>8. \A k \in 1..m : /\ k-1 \in 0..m-1
                      /\ Row(k-1) = (k-1) \div 4
                      /\ k - 1 - w[Row(k-1)] = (k-1) % 4
  <2>1. \A k \in 1..m : k-1 \in 0..m-1 BY <1>1
  <2> QED BY <1>6, <2>1, Zenon
<1>9. Cells(w, line) = [k \in 1..m |-> <<(k-1) \div 4, (k-1) % 4>>]
  BY <1>7, <1>8, Zenon
<1> QED BY <1>5, <1>9 DEF m

-----------------------------------------------------------------------------
(* The constructor.                                                        *)

\* With cfg.ini, initCfg leaves the count of the file and its layout, and the
\* loop of initHuaYunDevice counts up from zero.
IInv ==
    /\ ini \in [exists : BOOLEAN, count : Int]
    /\ asked \in Nat
    /\ pc # "initCfg" /\ ini.exists =>
          /\ devCount = ini.count
          /\ devList = [k \in 1..Panels(ini.count) |-> <<(k-1) \div 4, (k-1) % 4>>]
    /\ OutOfRangeOnlyWithoutIni

LEMMA LayoutLength ==
    ASSUME NEW m \in Nat
    PROVE  Len([k \in 1..m |-> <<(k-1) \div 4, (k-1) % 4>>]) = m
OBVIOUS

LEMMA IInvInit == Init => IInv
<1> SUFFICES ASSUME Init PROVE IInv
  OBVIOUS
<1>1. ini \in [exists : BOOLEAN, count : Int] BY CountsAssumption DEF Init
<1>2. asked = 0 /\ pc = "initCfg" BY DEF Init
<1> QED BY <1>1, <1>2 DEF IInv, OutOfRangeOnlyWithoutIni

LEMMA IInvNext == IInv /\ [Next]_vars => IInv'
<1> SUFFICES ASSUME IInv, [Next]_vars PROVE IInv'
  OBVIOUS
<1>1. CASE InitCfg
  <2>1. ini.count \in Int BY DEF IInv
  <2>2. ini.exists => /\ devCount' = ini.count
                      /\ devList' = [k \in 1..Panels(ini.count) |-> <<(k-1) \div 4, (k-1) % 4>>]
    BY <1>1, <2>1, LayoutIsRowByRow DEF InitCfg
  <2> QED BY <1>1, <2>2 DEF InitCfg, IInv, OutOfRangeOnlyWithoutIni
<1>2. CASE InitHttpServer
  BY <1>2 DEF InitHttpServer, IInv, OutOfRangeOnlyWithoutIni
<1>3. CASE InitHuaYunDevice
  <2>1. UNCHANGED <<ini, devCount, devList>> /\ asked' \in Nat
    BY <1>3 DEF InitHuaYunDevice, IInv
  <2>2. ASSUME ini.exists PROVE pc' # "outOfRange"
    <3>1. /\ devCount = ini.count /\ ini.count \in Int /\ asked \in Nat
          /\ devList = [k \in 1..Panels(ini.count) |-> <<(k-1) \div 4, (k-1) % 4>>]
      BY <1>3, <2>2 DEF IInv, InitHuaYunDevice
    <3>2. Panels(ini.count) \in Nat /\ Len(devList) = Panels(ini.count)
      BY <3>1, LayoutLength DEF Panels
    <3>3. asked < devCount => asked + 1 \in 1..Len(devList)
      BY <3>1, <3>2 DEF Panels
    <3> QED BY <1>3, <3>3 DEF InitHuaYunDevice
  <2> QED BY <1>3, <2>1, <2>2 DEF InitHuaYunDevice, IInv, OutOfRangeOnlyWithoutIni
<1>4. CASE InitTimer
  BY <1>4 DEF InitTimer, IInv, OutOfRangeOnlyWithoutIni
<1>5. CASE UNCHANGED vars
  BY <1>5 DEF vars, IInv, OutOfRangeOnlyWithoutIni
<1> QED BY <1>1, <1>2, <1>3, <1>4, <1>5 DEF Next

LEMMA IInvHolds == Spec => []IInv
BY IInvInit, IInvNext, PTL DEF Spec

\* Each device of cfg.ini gets a cell of its own, row by row, whatever DevCount
\* is; a count that is not positive gives no panel.
THEOREM CellsCorrect == Spec => []EveryDeviceHasItsCell
<1>1. ASSUME IInv PROVE EveryDeviceHasItsCell
  <2> SUFFICES ASSUME pc # "initCfg", ini.exists
               PROVE  /\ Len(devList) = Max({0, ini.count})
                      /\ \A k \in 1..Len(devList) : devList[k] = <<(k-1) \div 4, (k-1) % 4>>
    BY DEF EveryDeviceHasItsCell
  <2>1. /\ ini.count \in Int
        /\ devList = [k \in 1..Panels(ini.count) |-> <<(k-1) \div 4, (k-1) % 4>>]
    BY <1>1 DEF IInv
  <2>2. /\ Panels(ini.count) \in Nat /\ Panels(ini.count) = Max({0, ini.count})
        /\ Len(devList) = Panels(ini.count)
    <3>1. Max({0, ini.count}) = IF ini.count > 0 THEN ini.count ELSE 0
      BY <2>1, MaxMin, Zenon
    <3>2. Panels(ini.count) \in Nat BY <2>1 DEF Panels
    <3> QED BY <2>1, <3>1, <3>2, LayoutLength DEF Panels
  <2> QED BY <2>1, <2>2
<1> QED BY <1>1, IInvHolds, PTL

\* With cfg.ini, at() in the loop of initHuaYunDevice is never asked for a
\* device that is not there, whatever DevCount is.
THEOREM LoopStaysInList == Spec => []OutOfRangeOnlyWithoutIni
<1>1. IInv => OutOfRangeOnlyWithoutIni BY DEF IInv
<1> QED BY <1>1, IInvHolds, PTL

-----------------------------------------------------------------------------
(* What is asked for.                                                      *)

\* The loop of initHuaYunDevice asks for one device of the list after the other, and
\* for all of them before init() goes on.
AskedInOrder ==
    /\ pc \in {"initCfg", "initHttpServer"} => asked = 0
    /\ pc = "initHuaYunDevice" => asked <= Len(devList)
    /\ pc \in {"initTimer", "exec"} => asked = Len(devList)

LEMMA AskedInit == Init => AskedInOrder
BY DEF Init, AskedInOrder

LEMMA AskedNext ==
    ASSUME IInv, ini.exists, AskedInOrder, [Next]_vars
    PROVE  AskedInOrder'
<1>1. CASE InitCfg BY <1>1 DEF InitCfg, AskedInOrder
<1>2. CASE InitHttpServer
  <2>1. Len(devList) \in Nat
    BY <1>2, LayoutLength DEF InitHttpServer, IInv, Panels
  <2> QED BY <1>2, <2>1 DEF InitHttpServer, AskedInOrder
<1>3. CASE InitHuaYunDevice
  <2>1. /\ devCount = ini.count /\ ini.count \in Int /\ asked \in Nat
        /\ devList = [k \in 1..Panels(ini.count) |-> <<(k-1) \div 4, (k-1) % 4>>]
    BY <1>3 DEF IInv, InitHuaYunDevice
  <2>2. Panels(ini.count) \in Nat /\ Len(devList) = Panels(ini.count)
    BY <2>1, LayoutLength DEF Panels
  <2>3. asked <= Len(devList) BY <1>3 DEF InitHuaYunDevice, AskedInOrder
  <2>4. devList' = devList BY <1>3 DEF InitHuaYunDevice
  <2>5. CASE asked < devCount
    <3>1. asked + 1 \in 1..Len(devList) BY <2>1, <2>2, <2>5 DEF Panels
    <3>2. asked' = asked + 1 /\ pc' = "initHuaYunDevice"
      <4>1. ~(asked >= devCount) BY <2>1, <2>5
      <4> QED BY <1>3, <3>1, <4>1 DEF InitHuaYunDevice
    <3> QED BY <2>4, <3>1, <3>2 DEF AskedInOrder
  <2>6. CASE asked >= devCount
    <3>1. asked = Len(devList) BY <2>1, <2>2, <2>3, <2>6 DEF Panels
    <3>2. asked' = asked /\ pc' = "initTimer"
      BY <1>3, <2>1, <2>6 DEF InitHuaYunDevice
    <3> QED BY <2>4, <3>1, <3>2 DEF AskedInOrder
  <2> QED BY <2>1, <2>5, <2>6
<1>4. CASE InitTimer BY <1>4 DEF InitTimer, AskedInOrder
<1>5. CASE UNCHANGED vars BY <1>5 DEF vars, AskedInOrder
<1> QED BY <1>1, <1>2, <1>3, <1>4, <1>5 DEF Next

\* With cfg.ini, when the constructor is done the loop of initHuaYunDevice has asked
\* for every panel's device, whatever DevCount is; that it gets there is checked only
\* (widget.cpp:89-92).
THEOREM EveryDeviceAsked == Spec => [](ini.exists /\ pc = "exec" => asked = Len(devList))
<1>1. ASSUME AskedInOrder PROVE pc = "exec" => asked = Len(devList)
  BY <1>1 DEF AskedInOrder
<1>2. [Next]_vars => ini' = ini
  BY DEF Next, InitCfg, InitHttpServer, InitHuaYunDevice, InitTimer, vars
<1>3. IInv /\ (ini.exists => AskedInOrder) /\ [Next]_vars => (ini.exists => AskedInOrder)'
  BY <1>2, AskedNext
<1> QED BY <1>1, <1>3, AskedInit, IInvHolds, PTL DEF Spec

=============================================================================

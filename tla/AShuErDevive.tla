---------------------------- MODULE AShuErDevive ----------------------------
(***************************************************************************)
(* The device table of ashuerdevive.h and ashuerdevive.cpp: the five AShuEr *)
(* device types, the category each belongs to, the conversions between a   *)
(* type and its name, and the read command a device object carries.  The   *)
(* enumerators are the integers the C++ enums give them.                   *)
(***************************************************************************)
EXTENDS Integers

\* e_AShuErDevType
MWS600  == 0
RD3000B == 1
RD3000C == 2
VD920G  == 3
VD930A  == 4
e_AShuErDevTypeError == 5

\* e_deviceCategory
qiXiangZhan == 0
luMian      == 1
nengJianDu  == 2
e_deviceCategoryError == 3

DevTypes   == MWS600..VD930A
Categories == qiXiangZhan..nengJianDu

\* The read commands, without their line ending.
CMD_MWS600_READ  == ":014400BB"
CMD_RD3000B_READ == "SCAN 02"
CMD_RD3000C_READ == "SCAN 02"
CMD_VD920G_READ  == "DRAW 03"
CMD_VD930A_READ  == "DRAW 03"

Commands == {CMD_MWS600_READ, CMD_RD3000B_READ, CMD_RD3000C_READ,
             CMD_VD920G_READ, CMD_VD930A_READ}

-----------------------------------------------------------------------------
\* isvalid(e_AShuErDevType)
isvalidType(devType) == devType \in DevTypes

\* Str2e_AShuErDevType
Str2e_AShuErDevType(devType) ==
    CASE devType = "MWS600"  -> MWS600
      [] devType = "RD3000B" -> RD3000B
      [] devType = "RD3000C" -> RD3000C
      [] devType = "VD920G"  -> VD920G
      [] devType = "VD930A"  -> VD930A
      [] OTHER               -> e_AShuErDevTypeError

\* e_AShuErDevType2Str
e_AShuErDevType2Str(devType) ==
    IF isvalidType(devType)
    THEN <<"MWS600", "RD3000B", "RD3000C", "VD920G", "VD930A">>[devType + 1]
    ELSE "-1"

\* isvalid(QString)
isvalid(devType) == isvalidType(Str2e_AShuErDevType(devType))

getDeviceCategory(devType) ==
    CASE devType = MWS600              -> qiXiangZhan
      [] devType \in {RD3000B, RD3000C} -> luMian
      [] devType \in {VD920G, VD930A}   -> nengJianDu
      [] OTHER                          -> e_deviceCategoryError

\* getCmd(e_AShuErDevType): the RD3000B case assigns the MWS600 command.
getCmd(devType) ==
    CASE devType = MWS600  -> CMD_MWS600_READ
      [] devType = RD3000B -> CMD_MWS600_READ
      [] devType = RD3000C -> CMD_RD3000C_READ
      [] devType = VD920G  -> CMD_VD920G_READ
      [] devType = VD930A  -> CMD_VD930A_READ
      [] OTHER             -> "-1"

\* The constructor: the object made from a device name.
NewDevice(devTypeStr) ==
    LET devType == Str2e_AShuErDevType(devTypeStr)
    IN  [devTypeStr  |-> devTypeStr,
         devType     |-> devType,
         devCategory |-> getDeviceCategory(devType),
         cmd         |-> getCmd(devType)]

\* isExclusion, for two objects that exist.
isExclusion(dev1, dev2) ==
    \/ dev1.devCategory = dev2.devCategory
    \/ dev1.devType = dev2.devType

=============================================================================

SPECIFICATION FairSpec
CONSTANTS
    Ifaces = {"eth0", "eth1"}
    Ethers = {"e0", "e1", "e2"}
    IPs = {"i0", "i1", "i2"}
    HwInfos <- SomeInfos
    NoHw = NoHw
    NoIp = NoIp
    Salts <- SomeSalts
    Key <- SomeKey
    BlockSize = 6
    Word = 16
    Unset = Unset
    Tables <- SomeTables
    TableNames = {"rtable", "rtable.vrhost"}
    Served = {"rtable.vrhost", "rtable.host2"}
    Missing = {"missing file"}
    Bad = {"bad address"}
    MaxCommands = 5
    MaxBehind = 1
INVARIANTS
    TableConsistent OpenedAuthenticated AnswersTold
PROPERTIES
    DigestStandard  AddressStable CloseEnds

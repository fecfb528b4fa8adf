SPECIFICATION Spec
CONSTANTS
    Hosts = {"a", "b", "c"}
    Routers = {"r"}
    Links <- StarLinks
    Table <- StarTable
    Packets <- StarPackets
    Origin <- StarOrigin
    Target <- StarTarget
    Ttl <- StarTtl
    Kind <- StarKind
    Length <- StarLength
    Body <- StarBody
    Noise <- StarNoise
    Number <- StarNumber
    HostTtl = 64
    OverReads = {"garbage"}
    None = None
INVARIANTS
    RepliesAddUp

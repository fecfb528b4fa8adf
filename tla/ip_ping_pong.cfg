SPECIFICATION FairSpec
CONSTANTS
    Hosts = {"a"}
    Routers = {"r", "q"}
    Links <- ChainLinks
    Table <- ChainTable
    Packets <- ChainPackets
    Origin <- ChainOrigin
    Target <- ChainTarget
    Ttl <- ChainTtl
    Kind <- ChainKind
    Length <- ChainLength
    Body <- ChainBody
    Noise <- ChainNoise
    Number <- ChainNumber
    HostTtl = 64
    OverReads = {"garbage"}
    None = None
PROPERTIES
    ExchangesEnd

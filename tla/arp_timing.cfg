SPECIFICATION TimedSpec
CONSTANTS
    p1 = p1  p2 = p2  p3 = p3  p4 = p4  p5 = p5
    x = x  y = y  z = z
    IPs = {x, y, z}
    Routed = {x, y}
    MACs = {m1}
    Packets = {p1, p2, p3, p4, p5}
    Dst <- MixedDst
    Ttl <- MixedTtl
    ReqIds = {r1, r2}
    CacheSize = 1
    Timeout = 1
    AgeCap = 5
    MaxSends = 2
    WildReads = {"crash", "null", "some"}
    MaxReplies = 1
    NoReq = NoReq  NoPkt = NoPkt  NoMac = NoMac
SYMMETRY Symmetric
INVARIANTS
    TimesHonest NoticeFinal CopyFresh MainPointerLive
PROPERTIES
    GivenUpAfterRetries

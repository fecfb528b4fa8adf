----------------------------- MODULE MCIpRouter -----------------------------
(***************************************************************************)
(* Two networks for IpRouter: the star of the assignment's instructions,   *)
(* one router between its hosts, and a chain of two routers.               *)
(***************************************************************************)
EXTENDS IpRouter

Both(a, b) == {<<a, b>>, <<b, a>>}
Host(h) == <<h, h>>
Entry(dest, covers, iface) == [dest |-> dest, covers |-> covers, iface |-> iface]

\* a, b and c around r.  c has no entry of its own: the default route covers it.
StarLinks == Both("r", "a") \cup Both("r", "b") \cup Both("r", "c")
DefaultRoute ==
    Entry(<<"any", "any">>, {<<"any", "any">>} \cup StarLinks \cup {Host(h) : h \in {"a", "b", "c"}}, "c")
StarTable ==
    [r \in {"r"} |-> <<Entry(Host("a"), {Host("a")}, "a"), Entry(Host("b"), {Host("b")}, "b")>>]
StarDefaultTable == [r \in {"r"} |-> <<DefaultRoute>> \o StarTable[r]]

StarPackets == 1 .. 8
StarOrigin == <<"a", "a", "b", "a", "a", "b", "b", "a">>
StarTarget == <<Host("b"), Host("b"), Host("a"), <<"r", "b">>, Host("c"), <<"r", "b">>, Host("a"), <<"r", "a">>>>
StarTtl == <<1, 2, 3, 2, 2, 1, 2, 2>>
StarKind == <<"datagram", "datagram", "request", "request", "request", "datagram", "request", "other">>
StarLength == <<74, 74, 98, 98, 70, 60, 98, 60>>
\* Identifier and sequence number of a ping, ports of a probe.  Packet 7 has a header
\* whose checksum a host writes as 0; and noise may add 1 to it.
StarBody == [p \in StarPackets |-> IF StarKind[p] = "request" THEN <<23, p>> ELSE <<33434, 8>>]
StarNoise == [p \in StarPackets |-> IF p = 7 THEN {0, 1} ELSE {0}]
StarNumber ==
    [x \in {<<"r", h>> : h \in {"a", "b", "c"}} \cup {Host(h) : h \in {"a", "b", "c"}} |->
        IF x = Host("a") THEN 20000 ELSE IF x = Host("b") THEN 27358
        ELSE IF x = <<"r", "a">> THEN 20001 ELSE 27359]

\* Six of them: without the two that are dropped.
FewLinks == StarLinks
FewPackets == 1 .. 6
FewOrigin == SubSeq(StarOrigin, 1, 6)
FewTarget == SubSeq(StarTarget, 1, 6)
FewTtl == SubSeq(StarTtl, 1, 6)
FewKind == SubSeq(StarKind, 1, 6)
FewLength == SubSeq(StarLength, 1, 6)
FewBody == SubSeq(StarBody, 1, 6)
FewNoise == SubSeq(StarNoise, 1, 6)
FewNumber == StarNumber

\* a -- r -- q, and a traceroute from a to q: its probe with TTL 2.
ChainLinks == Both("a", "r") \cup Both("r", "q")
ChainTable ==
    [r \in {"r", "q"} |->
        IF r = "r" THEN <<Entry(Host("a"), {Host("a")}, "a"), Entry(<<"q", "r">>, {<<"q", "r">>}, "q")>>
                   ELSE <<Entry(Host("a"), {Host("a")}, "r")>>]
ChainPackets == 1 .. 4
ChainOrigin == <<"a", "a", "a", "a">>
ChainTarget == <<<<"q", "r">>, <<"q", "r">>, <<"q", "r">>, <<"q", "r">>>>
ChainTtl == <<1, 2, 3, 2>>
ChainKind == <<"datagram", "datagram", "datagram", "request">>
ChainLength == <<70, 70, 70, 98>>
ChainBody == <<<<33434, 8>>, <<33435, 8>>, <<33436, 8>>, <<23, 1>>>>
ChainNoise == <<{0}, {0}, {0}, {0}>>
ChainNumber ==
    [x \in {<<"r", "a">>, <<"r", "q">>, <<"q", "r">>} \cup {Host("a")} |-> IF x = Host("a") THEN 20000 ELSE 27359]
=============================================================================

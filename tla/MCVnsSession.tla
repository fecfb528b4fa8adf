---------------------------- MODULE MCVnsSession ----------------------------
(* Values of the constants of VnsSession for TLC.                          *)
EXTENDS VnsSession

\* An empty table, and one of two routes; cut short, it has one of them, or a bad address.
SomeTables == {{}, {"eth0", "eth1"}}

\* No interface, one, two, and the first with other addresses.
Named(n, addr, ip) == <<<<"interface", n>>, <<"ether", addr>>, <<"ip", ip>>>>
SomeInfos == {<< >>, Named("eth0", "e0", "i0") \o Named("eth1", "e1", "i1"), Named("eth0", "e2", "i2")}

\* A key of four octets, and salts with which it ends before the last place for the
\* mark, there, after it and at the end of a block; and one too long.
Octets(n) == [i \in 1 .. n |-> i]
SomeSalts == {Octets(n) : n \in {0, 1, 2, 5, 6, 28}}
SomeKey == <<101, 102, 103, 104>>
=============================================================================

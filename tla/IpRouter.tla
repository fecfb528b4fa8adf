------------------------------ MODULE IpRouter ------------------------------
(***************************************************************************)
(* The IP input of the router (sr_ip.c), its routing-table lookup and the  *)
(* ICMP messages it makes (sr_icmp.c), in a network of hosts and routers   *)
(* that all run this code.                                                 *)
(*                                                                         *)
(* Each frame handled gives rise to at most one other, so what a packet    *)
(* sets off is one frame moving about: wire holds it for each packet the   *)
(* hosts originate.  An address is <<node, neighbour>>: of the interface a *)
(* router has towards a neighbour, or <<h, h>> of a host h.  Resolving an  *)
(* address on a link is what ArpCache models; here a neighbour that owns   *)
(* the address answers, and nobody else does.  Hosts are outside the       *)
(* repository: they answer echo requests and datagrams and consume the     *)
(* rest.                                                                   *)
(***************************************************************************)
EXTENDS Checksum

CONSTANTS
    Hosts, Routers,
    Links,        \* pairs of neighbours, both ways
    Table,        \* sr->routing_table of each router: dest, covers (by its mask), iface
    Packets,      \* what the hosts originate
    Origin,       \* a packet's host
    Target,       \* its destination address
    Ttl, Kind, Length,
    Body,         \* the words of its message after the ICMP checksum
    Noise,        \* what the link may add to its header checksum
    Number,       \* an address as a word
    HostTtl,      \* the TTL of a host's answer
    OverReads,    \* what reading past a buffer can do: "garbage" or "crash"
    None

ICMP == {"request", "reply", "exceeded", "host_unreachable", "port_unreachable"}
Kinds == ICMP \cup {"datagram", "other"}
Octets == 0 .. 255
Addresses == {l \in Links : l[1] \in Routers} \cup {<<h, h>> : h \in Hosts}

ASSUME NetworkAssumption ==
    /\ Hosts \cap Routers = {}
    /\ \A l \in Links : l \in (Hosts \cup Routers) \X (Hosts \cup Routers) /\ l[1] # l[2]
    /\ \A l \in Links : <<l[2], l[1]>> \in Links
    /\ \A r \in Routers : \A i \in DOMAIN Table[r] :
          /\ Table[r][i].dest \in Table[r][i].covers
          /\ <<r, Table[r][i].iface>> \in Links
    /\ Target \in [Packets -> Addresses]
    /\ \A p \in Packets : Origin[p] \in Hosts /\ Kind[p] \in Kinds
    /\ Ttl \in [Packets -> Octets \ {0}]
    /\ Length \in [Packets -> Nat]
    /\ \A p \in Packets : Body[p] \in Seq(Words) /\ Noise[p] \subseteq Words
    /\ Number \in [Addresses -> Words]
    /\ HostTtl \in Octets \ {0}
    /\ OverReads \subseteq {"garbage", "crash"}

VARIABLES
    wire,      \* the frame each packet's exchange has in flight, or None
    fresh,     \* packets not sent yet
    heard,     \* what the originator of each packet got back, if anything
    dead       \* routers whose process died

vars == <<wire, fresh, heard, dead>>

Frame == [from : Hosts \cup Routers, at : Hosts \cup Routers, src : Addresses,
          dst : Addresses, ttl : Octets, kind : Kinds, len : Nat,
          body : Seq(Words), sum : Words, icmp : Words]

Init ==
    /\ wire = [p \in Packets |-> None]
    /\ fresh = Packets
    /\ heard = [p \in Packets |-> {}]
    /\ dead = {}

-----------------------------------------------------------------------------
(* Checksums.                                                              *)

Protocol(kind) == IF kind \in ICMP THEN 1 ELSE IF kind = "datagram" THEN 17 ELSE 2

\* The words of an IP header but its checksum: version and header length, TTL and
\* protocol, addresses.  The rest is alike in what checks and what computes the sum.
HeaderWords(f) == <<17664, 256 * f.ttl + Protocol(f.kind), Number[f.src], Number[f.dst]>>

\* ip_sum=0; ip_sum=cksum(iphdr,sizeof(sr_ip_hdr_t)) is as it was before: a mutant
\* of Sealed.
SealedStale(f) == f

Sealed(f) == [f EXCEPT !.sum = Cksum(HeaderWords(f))]

\* validate_checksum returns 0.
Undamaged(f) == f.sum = Cksum(HeaderWords(f))

\* The words of icmp_type and icmp_code.
TypeCode(kind) ==
    CASE kind = "request" -> 2048
      [] kind = "exceeded" -> 2816
      [] kind = "host_unreachable" -> 769
      [] kind = "port_unreachable" -> 771
      [] OTHER -> 0

-----------------------------------------------------------------------------
AddressOf(f) == <<f.at, f.from>>     \* of the interface the frame came in on

\* ip_packet_router_check: any interface's address will do.
ForRouter(f) == f.dst \in Links /\ f.dst[1] = f.at

\* longest_prefix_sum compares whole addresses.
Matching(r, a) == {i \in DOMAIN Table[r] : a = Table[r][i].dest}

\* sizeof of the Ethernet, IP and type-3 ICMP headers: what the error functions build.
ErrorSize == 70

\* Mutant of EchoReply: the destination address is overwritten after the source.
EchoReplyToSelf(f) ==
    Sealed([f EXCEPT !.from = f.at, !.at = f.from, !.dst = AddressOf(f), !.src = AddressOf(f),
                     !.kind = "reply", !.icmp = Cksum(<<TypeCode("reply")>>)])

\* The checksum of the reply is computed over sizeof(sr_icmp_hdr_t), which is the type,
\* the code and the checksum itself.  The code is left as it was, 0 in a request; that
\* of an error answered this way is not kept here.
EchoReply(f) ==
    Sealed([f EXCEPT !.from = f.at, !.at = f.from, !.dst = f.src, !.src = AddressOf(f),
                     !.kind = "reply", !.icmp = Cksum(<<TypeCode("reply")>>)])

\* What an error quotes: the header that caused it.
Quoted(f) == HeaderWords(f) \o <<f.sum>>

ErrorFrom(f, src, dst, kind, ttl) ==
    Sealed([from |-> f.at, at |-> f.from, src |-> src, dst |-> dst, ttl |-> ttl,
            kind |-> kind, len |-> f.len, body |-> Quoted(f), sum |-> 0,
            icmp |-> Cksum(<<TypeCode(kind)>> \o Quoted(f))])

\* Mutant of Error: the addresses are swapped as the packet has them.
ErrorSwapped(f, kind, ttl) == ErrorFrom(f, f.dst, AddressOf(f), kind, ttl)

\* What Time_Exceeded, dest_host_unreach and Port_unreach send: a message of
\* ErrorSize bytes, of which sr_send_packet sends as many as the offending frame had.
Error(f, kind, ttl) == ErrorFrom(f, AddressOf(f), f.src, kind, ttl)

\* iphdr_new->ip_ttl--, on a uint8_t.
TtlBelow(ttl) == (ttl + 255) % 256

Becomes(p, g) == wire' = [wire EXCEPT ![p] = g] /\ UNCHANGED dead
Vanishes(p) == Becomes(p, None)

SendError(p, kind, ttl) ==
    \/ wire[p].len <= ErrorSize /\ Becomes(p, Error(wire[p], kind, ttl))
    \/ /\ wire[p].len > ErrorSize
       /\ \/ "garbage" \in OverReads /\ Becomes(p, Error(wire[p], kind, ttl))
          \/ /\ "crash" \in OverReads
             /\ dead' = dead \cup {wire[p].at}
             /\ wire' = [wire EXCEPT ![p] = None]

\* Mutant of Expired: a TTL of 1 is good for one more hop.
ExpiredLate(f) == f.ttl = 0

Expired(f) == f.ttl <= 1

\* packet_to_other_dest.  The address resolved on the outgoing link is the packet's
\* destination: the gateway of the table is not used.
Forward(p) ==
    LET f == wire[p]  r == wire[p].at IN
    \/ Expired(f) /\ SendError(p, "exceeded", TtlBelow(f.ttl))
    \/ ~Expired(f) /\ Matching(r, f.dst) = {} /\ SendError(p, "host_unreachable", f.ttl)
    \/ /\ ~Expired(f)
       /\ \E i \in Matching(r, f.dst) :
             /\ \A j \in Matching(r, f.dst) : i <= j
             /\ LET n == Table[r][i].iface IN
                IF f.dst[1] = n
                THEN Becomes(p, Sealed([f EXCEPT !.from = r, !.at = n, !.ttl = TtlBelow(f.ttl)]))
                ELSE Vanishes(p)

\* sizeof of the Ethernet and IP headers, which validate_IP asks for.
HeaderSize == 34

\* validate_IP and validate_checksum return 0.
Valid(f) == f.len >= HeaderSize /\ Undamaged(f)

\* IP_packet
RouterHandles(p) ==
    /\ wire[p] # None
    /\ wire[p].at \in Routers \ dead
    /\ UNCHANGED <<fresh, heard>>
    /\ \/ ~Valid(wire[p]) /\ Vanishes(p)
       \/ /\ Valid(wire[p])
          /\ \/ /\ ForRouter(wire[p])
                /\ \/ wire[p].kind \in ICMP /\ Becomes(p, EchoReply(wire[p]))
                   \/ wire[p].kind = "datagram" /\ SendError(p, "port_unreachable", wire[p].ttl)
                   \/ wire[p].kind = "other" /\ Vanishes(p)
             \/ ~ForRouter(wire[p]) /\ Forward(p)

-----------------------------------------------------------------------------
(* Hosts, and frames to a router that is gone.                             *)

\* Checksums as the standard has them.
ByHost(f) ==
    [f EXCEPT !.sum = StandardCksum(HeaderWords(f)),
              !.icmp = StandardCksum(<<TypeCode(f.kind)>> \o f.body)]

Originated(p, r) ==
    ByHost([from |-> Origin[p], at |-> r, src |-> <<Origin[p], Origin[p]>>,
            dst |-> Target[p], ttl |-> Ttl[p], kind |-> Kind[p],
            len |-> Length[p], body |-> Body[p], sum |-> 0, icmp |-> 0])

Originate(p) ==
    /\ p \in fresh
    /\ fresh' = fresh \ {p}
    /\ \E r \in Routers, n \in Noise[p] :
          /\ <<Origin[p], r>> \in Links
          /\ LET f == Originated(p, r) IN
             wire' = [wire EXCEPT ![p] = [f EXCEPT !.sum = (@ + n) % (Ones + 1)]]
    /\ UNCHANGED <<heard, dead>>

HostAnswer(f, kind) ==
    ByHost([f EXCEPT !.from = f.at, !.at = f.from, !.src = f.dst, !.dst = f.src,
                     !.ttl = HostTtl, !.kind = kind])

\* Cut short, an error has less data than its IP header says: a host has no use for it.
\* The ICMP checksum of what it takes it does not look at, as ping, which says so.
Readable(f) == f.kind \in {"exceeded", "host_unreachable", "port_unreachable"} => f.len >= ErrorSize

HostHandles(p) ==
    /\ wire[p] # None
    /\ wire[p].at \in Hosts
    /\ UNCHANGED fresh
    /\ \/ wire[p].kind = "request" /\ Becomes(p, HostAnswer(wire[p], "reply")) /\ UNCHANGED heard
       \/ wire[p].kind = "datagram" /\ Becomes(p, HostAnswer(wire[p], "port_unreachable")) /\ UNCHANGED heard
       \/ /\ wire[p].kind \notin {"request", "datagram"}
          /\ Vanishes(p)
          /\ heard' = IF wire[p].at = Origin[p] /\ wire[p].dst = <<Origin[p], Origin[p]>>
                         /\ Readable(wire[p])
                      THEN [heard EXCEPT ![p] = @ \cup {wire[p].kind}] ELSE heard

Unattended(p) ==
    /\ wire[p] # None
    /\ wire[p].at \in dead
    /\ Vanishes(p)
    /\ UNCHANGED <<fresh, heard>>

Step(p) == RouterHandles(p) \/ HostHandles(p) \/ Unattended(p)

Done == fresh = {} /\ (\A p \in Packets : wire[p] = None) /\ UNCHANGED vars

Next == (\E p \in Packets : Originate(p) \/ Step(p)) \/ Done

Spec == Init /\ [][Next]_vars

\* Some frame is handled as long as there is one; nothing is assumed of which comes
\* first, nor of what the hosts originate.
FairSpec == Spec /\ WF_vars(\E p \in Packets : Step(p))

-----------------------------------------------------------------------------
\* What comes to a host is addressed to it: replies and errors find their way back to
\* the source of what set them off, and packets forwarded are sent to their destination.
AnswersComeHome ==
    \A p \in Packets : wire[p] # None /\ wire[p].at \in Hosts
        => wire[p].dst = <<wire[p].at, wire[p].at>>

\* Whatever a router forwards, answers or reports has an IP header the next one
\* accepts: each of the ways through sr_ip.c and sr_icmp.c that change a header
\* computes its checksum anew, after the last change.
HeadersAddUp ==
    \A p \in Packets :
        wire[p] # None /\ wire[p].from \in Routers => AddsUp(HeaderWords(wire[p]) \o <<wire[p].sum>>)

\* What the program asks of a packet to answer it: room for its error messages, a
\* header that arrives as it was sent, and a checksum that is not written as 0, which
\* cksum never returns and validate_checksum therefore refuses.
Answerable ==
    {p \in Packets :
        /\ Kind[p] \in {"request", "datagram"}
        /\ Length[p] >= ErrorSize
        /\ Noise[p] = {0}
        /\ \A r \in Routers : Originated(p, r).sum # 0}

\* Every such echo request or datagram is answered: by its destination, or by the
\* error that says why it did not get there, unless the error killed the router.
RequestsAnswered ==
    []<>(\A p \in Answerable : p \in fresh \/ heard[p] # {} \/ dead # {})

\* A probe hears from the router when its TTL ends there, and from its target when it
\* goes further: what traceroute infers the path from.
TracerouteTruthful ==
    \A p \in Packets : "exceeded" \in heard[p] <=> heard[p] # {} /\ Ttl[p] = 1 /\ Target[p] \notin Links

-----------------------------------------------------------------------------
(* What the README and the comments say and the code does not do.          *)

\* README:19, "I have tested all the such ping, traceroute, wget commands and all works
\* fine": what a packet sets off comes to its end.
ExchangesEnd == \A p \in Packets : wire[p] # None ~> wire[p] = None

\* README:10: "forwards the packet to other destination using Longest Prefix Matching":
\* a destination some entry covers is not unreachable for want of a route.
PrefixRouted ==
    \A p \in Packets : "host_unreachable" \in heard[p]
        => \A r \in Routers : \A i \in DOMAIN Table[r] : Target[p] \notin Table[r][i].covers

\* README:19 again, of ping: the checksum of an echo reply is that of the whole message,
\* as the one of the errors is.
RepliesAddUp ==
    \A p \in Packets :
        wire[p] # None /\ wire[p].from \in Routers /\ wire[p].kind = "reply"
            => AddsUp(<<TypeCode("reply"), wire[p].icmp>> \o wire[p].body)
=============================================================================

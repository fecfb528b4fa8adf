----------------------------- MODULE VnsSession -----------------------------
(***************************************************************************)
(* The router's session with the VNS server (sr_vns_comm.c) and the main   *)
(* function around it (sr_main.c): authentication, the opening of a        *)
(* topology, the routing table, the hardware information and the loop that *)
(* handles one command after the other.                                    *)
(*                                                                         *)
(* The server is outside the repository: it may send any command at any    *)
(* time, close the connection anywhere, also inside a command, or have it  *)
(* reset.  A command comes in two parts, its length and the rest, as the   *)
(* two loops of sr_read_from_server_expect read them; the entries of the   *)
(* hardware information are taken one at a time, as sr_handle_hwinfo does. *)
(* Of what sr_handlepacket does only the answer to an ARP request is here: *)
(* the rest is the subject of ArpCache and IpRouter, and it is taken to    *)
(* return.                                                                 *)
(***************************************************************************)
EXTENDS Naturals, Sequences, FiniteSetsExt, Sha1

CONSTANTS
    Ifaces,      \* interface names
    Ethers, IPs, \* hardware and IP addresses
    HwInfos,     \* what the server may send as hardware information: pairs of key and value
    NoHw,        \* no hardware information is being handled
    NoIp,        \* the target of a packet that is not an ARP request
    Salts, Key,  \* what comes with a request for authentication, and the 64 octets of auth_key
    Tables,      \* interfaces named by the entries of a routing table file, or Bad
    TableNames,  \* values of the option -r
    Served,      \* "rtable." with the name of a virtual host: what sr_handle_rtable writes
    Missing, Bad,  \* a file that is not there, one with an address that is none
    MaxCommands, \* bound on the commands sent
    MaxBehind    \* bound on those not read yet

ASSUME SessionAssumption ==
    /\ Tables \subseteq (SUBSET Ifaces) \cup {Bad}
    /\ Missing \notin Tables /\ Bad \notin SUBSET Ifaces
    /\ MaxCommands \in Nat /\ MaxBehind \in Nat
    /\ \A s \in Salts \cup {Key} : s \in Seq(Nat)

HwKeys == ({"interface"} \X Ifaces) \cup ({"ether"} \X Ethers) \cup ({"ip"} \X IPs)

\* The server names an interface before it gives the addresses it has.
ASSUME HwAssumption ==
    /\ NoHw \notin Seq(HwKeys) /\ NoIp \notin IPs \cup {Unset} /\ Unset \notin Ethers \cup IPs
    /\ HwInfos \subseteq Seq(HwKeys)
    /\ \A h \in HwInfos : h # << >> => h[1][1] = "interface"

VARIABLES
    template, rtable,   \* the options -T (given or not) and -r
    files,              \* routing table files
    phase,              \* the call main is in
    body,               \* the length of a command was read, its rest is not
    if_list,            \* the interfaces, in the order of the list
    hw,                 \* entries of the hardware information still to be handled, or NoHw
    routing_table,      \* the interfaces the routes name
    answered,           \* ARP requests answered: interface, address asked for, address told
    ready,              \* the hardware information was verified
    accepted, received, \* an auth_ok was handled; the last file and table from the server
    stream, conn, sent  \* unread parts of commands, the connection, commands sent

options == <<template, rtable>>
server == <<conn, sent>>
tables == <<files, routing_table, received>>
interfaces == <<if_list, hw, ready>>
vars == <<options, tables, phase, body, interfaces, answered, accepted, stream, server>>

Command == [type : {"auth_request", "auth_ok", "auth_failed", "close", "other"}]
               \cup [type : {"rtable"}, file : Served, table : Tables]
               \cup [type : {"hwinfo"}, entries : HwInfos]
               \cup [type : {"packet"}, iface : Ifaces, tip : IPs \cup {NoIp}]
Interface == [name : Ifaces, addr : Ethers \cup {Unset}, ip : IPs \cup {Unset}]
LengthPart == [type |-> "length"]
TooLong == [type |-> "length_too_long"]
TooShort == [type |-> "length_too_short"]
Contents == (SUBSET Ifaces) \cup {Bad, Missing}
Phases == {"start", "auth_request", "auth_status", "rtable", "load", "loop", "ended", "aborted"}
Reading == {"auth_request", "auth_status", "rtable", "loop"}

Init ==
    /\ template \in BOOLEAN /\ rtable \in TableNames
    /\ files \in [TableNames -> Tables \cup {Missing}]
    /\ phase = "start" /\ body = FALSE
    /\ if_list = << >> /\ hw = NoHw /\ routing_table = {} /\ answered = {}
    /\ ready = FALSE /\ accepted = FALSE /\ received = << >>
    /\ stream = << >> /\ conn = "open" /\ sent = 0

-----------------------------------------------------------------------------
(* main and sr_connect_to_server.                                          *)

\* sr_load_rt_wrap: a file that cannot be read ends the program; a table is replaced
\* when the first entry of the new one is read, so an empty file leaves it alone.
LoadTable(next) ==
    \/ files[rtable] \in {Missing, Bad} /\ phase' = "ended" /\ UNCHANGED routing_table
    \/ /\ files[rtable] \notin {Missing, Bad}
       /\ phase' = next
       /\ routing_table' = IF files[rtable] = {} THEN routing_table ELSE files[rtable]

\* Up to the connection: the table is loaded first unless a template is asked for;
\* the server may not be there.
Start ==
    /\ phase = "start"
    /\ \/ ~template /\ LoadTable("auth_request")
       \/ template /\ phase' = "auth_request" /\ UNCHANGED routing_table
       \/ phase' = "ended" /\ UNCHANGED routing_table
    /\ UNCHANGED <<options, files, received, body, interfaces, answered, accepted, stream, server>>

\* The topology is opened, and then main loads the table.  With -T and the default
\* -r it loads the file named by -r all the same.
Load ==
    /\ phase = "load"
    /\ LoadTable("loop")
    /\ UNCHANGED <<options, files, received, body, interfaces, answered, accepted, stream, server>>

\* Where the program goes on when the expected command was handled.  The open
\* message is sent after the status; that may fail.
Goto(next) == phase' = next
Opened == Goto(IF template THEN "rtable" ELSE "load") \/ Goto("ended")
Proceed ==
    \/ phase = "auth_request" /\ Goto("auth_status")
    \/ phase = "auth_status" /\ Opened
    \/ phase = "rtable" /\ Goto("load")
    \/ phase = "loop" /\ UNCHANGED phase
Leave == Goto("ended")

-----------------------------------------------------------------------------
(* sr_read_from_server_expect.                                             *)

\* A command that no case is for: an error if another is waited for.
Unknown == IF phase = "loop" THEN UNCHANGED phase ELSE Leave

\* A length below 8 is taken; the type is then read past the end of the buffer, where
\* what malloc keeps is no type, if the process may read it.
ReadLength ==
    /\ phase \in Reading /\ ~body /\ hw = NoHw
    /\ stream # << >>
    /\ stream' = Tail(stream)
    /\ \/ Head(stream) = LengthPart /\ body' = TRUE /\ UNCHANGED phase
       \/ Head(stream) = TooLong /\ Leave /\ UNCHANGED body
       \/ Head(stream) = TooShort /\ (Unknown \/ Goto("aborted")) /\ UNCHANGED body
    /\ UNCHANGED <<options, tables, interfaces, answered, accepted, server>>

\* Mutant of Expected: any command will do.
ExpectedAny(c) == TRUE

\* The command that is waited for, if one is; a close is always welcome.
Expected(c) ==
    \/ phase = "loop"
    \/ c.type = "close"
    \/ phase = c.type
    \/ phase = "auth_status" /\ c.type \in {"auth_ok", "auth_failed"}

Names(list) == {list[i].name : i \in DOMAIN list}

\* Mutant of First: the last of the name.
FirstOfLast(list, n) == list[Max({i \in DOMAIN list : list[i].name = n})]

\* sr_get_interface: the first of the name.
First(list, n) == list[Min({i \in DOMAIN list : list[i].name = n})]

\* Mutant of TableVerified: one interface that exists is enough.
TableVerifiedSomewhere(ifs) == ifs # {} /\ routing_table \cap ifs # {}

\* sr_verify_routing_table returns 0.
TableVerified(ifs) == ifs # {} /\ routing_table # {} /\ routing_table \subseteq ifs

\* sr_handle_hwinfo starts on the entries.
HandleHwinfo(c) ==
    /\ hw' = c.entries
    /\ UNCHANGED <<tables, if_list, ready, answered, accepted, phase>>

\* Mutant of SetLast: the first interface of the list is set.
SetFirst(field, x) == if_list' = [if_list EXCEPT ![1][field] = x]

\* sr_set_ether_addr, sr_set_ether_ip: of the LAST interface in the list.
SetLast(field, x) == if_list' = [if_list EXCEPT ![Len(if_list)][field] = x]

\* One round of the loop of sr_handle_hwinfo.  An interface is appended to the list,
\* also when the list has one of its name.
HwEntry ==
    /\ phase \in Reading /\ hw \notin {NoHw, << >>}
    /\ hw' = Tail(hw)
    /\ LET key == Head(hw)[1]  value == Head(hw)[2] IN
          \/ /\ key = "interface"
             /\ if_list' = Append(if_list, [name |-> value, addr |-> Unset, ip |-> Unset])
          \/ key = "ether" /\ SetLast("addr", value)
          \/ key = "ip" /\ SetLast("ip", value)
    /\ UNCHANGED <<options, tables, phase, body, ready, answered, accepted, stream, server>>

\* The end of VNSHWINFO: the table is verified.
HwDone ==
    /\ phase \in Reading /\ hw = << >>
    /\ hw' = NoHw
    /\ \/ TableVerified(Names(if_list)) /\ ready' = TRUE /\ Proceed
       \/ ~TableVerified(Names(if_list)) /\ Leave /\ UNCHANGED ready
    /\ UNCHANGED <<options, tables, body, if_list, answered, accepted, stream, server>>

\* What comes to be in a file that a table is written to: neither the write nor the
\* close is checked, so it may be cut short anywhere.  A line that is cut names another
\* interface, or an address that is none.
Written(table) ==
    IF table = {} THEN {{}}
    ELSE {table, Bad}
         \cup UNION {{t, t \cup {n}} : t \in SUBSET (IF table = Bad THEN Ifaces ELSE table), n \in Ifaces}

\* Files that -r does not name are not kept here.
WithFile(file, table) == [f \in TableNames |-> IF f = file THEN table ELSE files[f]]

\* Mutant of HandleRtable: a file that cannot be opened is not noticed.
HandleRtableUnopened(c) ==
    /\ received' = <<c.file, c.table>>
    /\ \/ \E t \in Written(c.table) : files' = WithFile(c.file, t)
       \/ UNCHANGED files
    /\ Proceed
    /\ UNCHANGED <<routing_table, interfaces, answered, accepted>>

\* sr_handle_rtable: the table goes to a file named by the command, not to the routing
\* table; that the file cannot be opened is the one error noticed.
HandleRtable(c) ==
    /\ received' = <<c.file, c.table>>
    /\ \/ (\E t \in Written(c.table) : files' = WithFile(c.file, t)) /\ Proceed
       \/ UNCHANGED files /\ Leave
    /\ UNCHANGED <<routing_table, interfaces, answered, accepted>>

\* The context sr_handle_auth_request has SHA1Result compute a digest of.
Salted(salt) == Result(Input(Input(Reset, salt), Key))

\* The salts that it can.
Digestible == {salt \in Salts : Returns(Salted(salt))}

\* sr_handle_auth_request sends the reply, unless the key cannot be read, the message
\* is too long for SHA-1 or the send fails; sr_handle_auth_status reads the verdict.
HandleAuth(c) ==
    /\ \/ /\ c.type = "auth_request"
          /\ \/ Digestible # {} /\ Proceed
             \/ Leave
          /\ UNCHANGED accepted
       \/ c.type = "auth_ok" /\ Proceed /\ accepted' = TRUE
       \/ c.type = "auth_failed" /\ Leave /\ UNCHANGED accepted
    /\ UNCHANGED <<tables, interfaces, answered>>

\* sr_arp_req_not_for_us asserts that the interface of a packet exists; arp_packet
\* hands the answer to a request for its address, with the hardware address it has, to
\* sr_send_packet, whose failure goes unnoticed.  (A packet too short for ARP is dropped
\* before the assertion: an "other" command here.)
HandlePacket(c) ==
    /\ \/ /\ c.iface \in Names(if_list)
          /\ Proceed
          /\ LET f == First(if_list, c.iface) IN
             answered' = IF c.tip = f.ip THEN answered \cup {<<f.name, f.ip, f.addr>>} ELSE answered
       \/ c.iface \notin Names(if_list) /\ Goto("aborted") /\ UNCHANGED answered
    /\ UNCHANGED <<tables, interfaces, accepted>>

\* Mutant of HandleClose: the loop goes on.
HandleCloseIgnored == Proceed /\ UNCHANGED <<tables, interfaces, answered, accepted>>

\* VNSCLOSE returns 0, which ends sr_connect_to_server and main's loop alike.
HandleClose == Leave /\ UNCHANGED <<tables, interfaces, answered, accepted>>

HandleOther == Proceed /\ UNCHANGED <<tables, interfaces, answered, accepted>>

Reject == Leave /\ UNCHANGED <<tables, interfaces, answered, accepted>>

Dispatch(c) ==
    \/ c.type = "hwinfo" /\ HandleHwinfo(c)
    \/ c.type = "rtable" /\ HandleRtable(c)
    \/ c.type \in {"auth_request", "auth_ok", "auth_failed"} /\ HandleAuth(c)
    \/ c.type = "packet" /\ HandlePacket(c)
    \/ c.type = "close" /\ HandleClose
    \/ c.type = "other" /\ HandleOther

ReadBody ==
    /\ phase \in Reading /\ body
    /\ stream # << >>
    /\ stream' = Tail(stream)
    /\ body' = FALSE
    /\ \/ Expected(Head(stream)) /\ Dispatch(Head(stream))
       \/ ~Expected(Head(stream)) /\ Reject
    /\ UNCHANGED <<options, server>>

\* recv and read return -1.
ReadFails ==
    /\ phase \in Reading /\ hw = NoHw
    /\ conn = "reset"
    /\ Leave
    /\ UNCHANGED <<options, tables, body, interfaces, answered, accepted, stream, server>>

\* recv and read return 0 at the end of the stream: bytes_read stays what it is and
\* the loop goes round.
ReadNothing ==
    /\ phase \in Reading /\ hw = NoHw
    /\ conn = "closed" /\ stream = << >>
    /\ UNCHANGED vars

Router == Start \/ Load \/ ReadLength \/ ReadBody \/ HwEntry \/ HwDone \/ ReadFails \/ ReadNothing

-----------------------------------------------------------------------------
(* The server and the network.                                             *)

Send(c) ==
    /\ conn = "open" /\ sent < MaxCommands /\ Len(stream) < 2 * MaxBehind
    /\ sent' = sent + 1
    /\ \/ stream' = stream \o <<LengthPart, c>> /\ UNCHANGED conn
       \/ (\E part \in {TooLong, TooShort} : stream' = Append(stream, part)) /\ UNCHANGED conn
       \/ stream' = Append(stream, LengthPart) /\ conn' = "closed"
    /\ UNCHANGED <<options, tables, phase, body, interfaces, answered, accepted>>

Disconnect ==
    /\ conn = "open"
    /\ conn' \in {"closed", "reset"}
    /\ UNCHANGED <<options, tables, phase, body, interfaces, answered, accepted, stream, sent>>

Over == phase \in {"ended", "aborted"} /\ UNCHANGED vars

Next == Router \/ (\E c \in Command : Send(c)) \/ Disconnect \/ Over

Spec == Init /\ [][Next]_vars

\* The router runs.  Nothing is assumed of the server.
FairSpec == Spec /\ WF_vars(Router)

-----------------------------------------------------------------------------
TypeOK ==
    /\ template \in BOOLEAN /\ rtable \in TableNames
    /\ files \in [TableNames -> Contents]
    /\ phase \in Phases /\ body \in BOOLEAN
    /\ if_list \in Seq(Interface) /\ routing_table \subseteq Ifaces
    /\ hw \in Seq(HwKeys) \cup {NoHw}
    /\ answered \subseteq Ifaces \X IPs \X (Ethers \cup {Unset})
    /\ ready \in BOOLEAN /\ accepted \in BOOLEAN
    /\ received \in (Served \X Tables) \cup {<< >>}
    /\ stream \in Seq(Command \cup {LengthPart, TooLong, TooShort})
    /\ conn \in {"open", "closed", "reset"} /\ sent \in 0 .. MaxCommands

\* From "Ready to process packets" on, every route leads out of an interface the
\* router has, whatever tables and hardware the server sends later: sr_rt entries are
\* matched to interfaces by name only, and packet_to_other_dest uses the interface of
\* a route without a test that it exists.
TableConsistent ==
    ready /\ phase = "loop" => routing_table # {} /\ routing_table \subseteq Names(if_list)

\* No topology is opened before the server accepted the router's credentials: a
\* command that comes instead of the status does not count as one.
OpenedAuthenticated == phase \in {"rtable", "load", "loop"} => accepted

\* With -T, and -r naming the file the server had its table written to, the loop starts
\* with that table or with what a write that failed left of it, and not with one of an
\* earlier run: a file that cannot be opened ends the session.  (With another -r, the
\* default among them, the table that was served is not the one loaded.)
TableServed ==
    [][phase = "load" /\ phase' = "loop" /\ template /\ rtable = received[1]
         => routing_table' \in Written(received[2])]_vars

\* The server gave these addresses after naming n and before naming another.
Follows(h, j, k) == j < k /\ \A l \in j + 1 .. k : h[l][1] # "interface"
Announced(n, ip, addr) ==
    \E h \in HwInfos : \E j, k, l \in DOMAIN h :
        /\ h[j] = <<"interface", n>>
        /\ h[k] = <<"ip", ip>> /\ Follows(h, j, k)
        /\ h[l] = <<"ether", addr>> /\ Follows(h, j, l)

\* An ARP request is answered with a hardware address that the server announced for
\* that IP address and interface: sr_set_ether_addr and sr_set_ether_ip find the
\* interface they are meant for only by its place in the list.
AnswersTold == \A a \in answered : Announced(a[1], a[2], a[3])

\* What hosts have learned of the router stays true: once an interface has its
\* addresses it keeps them, although hardware information that comes again appends
\* interfaces of the same names.
AddressStable ==
    [][\A n \in Names(if_list) :
          LET f == First(if_list, n) IN
          Unset \notin {f.addr, f.ip} => First(if_list', n) = f]_vars

\* The reply to a request for authentication has the digest of the salt and the key
\* padded as the standard has it, wherever in a block their end comes to lie; and it
\* is given for all but a message of too many bits.
DigestStandard ==
    [][phase = "auth_request" /\ phase' = "auth_status" =>
          /\ Digestible = {salt \in Salts : ~OverLong(salt \o Key)}
          /\ \A salt \in Digestible : Salted(salt).hashed = Standard(salt \o Key)]_vars

\* A close command, at any point of the session, or a connection that is reset ends
\* the program.  (A connection that is closed without one does not: ReadNothing.)
CloseEnds ==
    (\E i \in DOMAIN stream : stream[i].type = "close") \/ conn = "reset"
        ~> phase \in {"ended", "aborted"}
=============================================================================

# Verification of the Internet-Course programs

The repository holds three programs of a networking course:

* `src/20100117_RouterAssign_1/router`: an IPv4 router in user space. A VNS server sends
  it the frames of a virtual topology over TCP; the router answers ARP, forwards IP
  packets and sends ICMP messages.
* `src/Assign_3`: a sender over UDP with a congestion controller that is compiled in;
  `controller_AIMD_best.cc` and `controller_throughput.cc` are the two that were kept.
* `src/Final_20100117_PA_2`: scripts that load web pages through an emulated link and
  plot the times. They run once, from top to bottom, and have no state to speak of.

The first two are modelled here.

## Inventory

| Component | State | Operations | Interacts with |
|---|---|---|---|
| ARP cache, queue, sweeper (`sr_arpcache.c`, `sr_arp.c`) | table of entries with ages; linked list of requests, each with waiting packets, `sent`, `times_sent`; one recursive lock | lookup, queue, insert, destroy; `handle_arpreq`; the pass of the sweeper each second | called by the receive thread and, from the sweeper, by itself; sends through the VNS session |
| IP input and forwarding (`sr_ip.c`) | none of its own | `IP_packet`, `packet_to_other_dest`, `longest_prefix_sum` | reads the routing table and interfaces; looks up and fills the ARP cache; calls ICMP |
| ICMP messages (`sr_icmp.c`) | none | echo reply, time exceeded, host and port unreachable | sends through the VNS session |
| Routing table, interfaces (`sr_rt.c`, `sr_if.c`) | two linked lists | load from a file; append an interface, set the addresses of the last one, look up by name | filled by `main` and by VNSHWINFO; read by ARP, IP and ICMP |
| VNS session (`sr_vns_comm.c`, `sr_main.c`, `sr_router.c`) | the socket, the point in the session, table files | connect, authenticate, open, read a command, verify the table | feeds frames to the router, one at a time |
| Sender (`sender.cc`) | `sequence_number_`, `next_ack_expected_` | send while the window is open, read an acknowledgement, send after a timeout | asks the controller for the window, tells it of acknowledgements |
| AIMD controller | window, `ssthresh_` | `ack_received` | the sender |
| Throughput controller | slot end, count, average, late count, window | `ack_received` | the sender |
| Checksum, printing (`sr_utils.c`) | none | `cksum` | IP, ICMP |
| SHA-1 (`sha1.c`) | a context: block, place in it, count of bits, digest | reset, input, result with its padding | the answer to a request for authentication |
| Packet log, message layouts, `dest_unreach_code.c`, page-load scripts | - | - | not modelled, see below |

What is hard here:

* **Two threads over one queue.** `sr_arpcache_timeout` runs in its own thread and holds the
  lock for a whole pass; the receive thread takes the lock in the cache's functions, but
  `packet_to_other_dest` (`sr_ip.c:152-154`) looks up, queues and handles a request in three
  steps with nothing held in between, the last one without the lock at all. Both threads
  write `sent` and `times_sent`, and both may free a request.
* **Pointers to freed requests.** `handle_arpreq` writes to a request after
  `sr_arpreq_destroy`, and the sweep reads the link of a request that was just freed, which main
  may have got from `malloc` meanwhile.
* **Answers that race.** An ARP reply may come while its request is retried or given up, with
  the table full, or after its entry has expired.
* **Messages about messages.** The router answers every ICMP message sent to it, errors too.
* **A path that loses, repeats, reorders and delays**, and a timeout that sends beyond the window.
* **Counters at their edges**: TTL 0 and 1, unsigned differences, a window of less than one, a
  checksum of 0, a message that ends where a block has no room left for its padding.
* **State that is found by its place in a list**: the addresses of VNSHWINFO go to the last
  interface, a lookup takes the first of a name, and hardware information may come twice.
* **A session that breaks off anywhere**, a command that is not the one waited for, files left
  by earlier runs.

What makes each component correct: the queue is well formed and its requests are neither
leaked nor used after they are freed; every accepted packet leaves the router once, to an
address announced for it, or is given up after the retries; a reply or error goes home, and a
traceroute sees the path; every header the router writes adds up; an ARP request is answered
with the address the server announced, the same each time; the digest is that of the padded
message; the sender's counters do not cross and its flight stays within the
window; each controller keeps a usable window; the table the router runs with fits the
hardware and is the one of this session.

## Modules

Listed in the order of the plan: the cache, where the threads meet, comes first.

* **`ArpCache`**: cache, queue and both threads, with the forwarding path that uses them.
  `pc["main"]` and `pc["sweep"]` say where each thread is. Functions that run under the lock
  are one step (`LookupHit`/`LookupMiss`, `Enqueue`, `RecvArpReply`, `Wake`); the sweeper holds
  the lock exactly when `pc["sweep"] # "sleep"`. `handle_arpreq` is cut at every access to the
  request (`CheckDue`, `Choose`, `Send`, `Destroy`, `Stamp`, `Count`), with the read and
  the write of `times_sent++` apart, since main runs it with no lock. `heap` is the set of
  allocated requests, `malloc` may return any address not in use, and a use of a request outside
  `heap` goes on with arbitrary values, or ends the process or what can be said of it (`fault`). The
  link of a request that the sweep has freed leads to any request of the queue, or is such a fault
  (`SweepNext`). `Send` stands for a call of `arp_request_send`, whether or not the frame got out:
  `handle_arpreq` goes on alike, so `tries` counts calls. `longest_prefix_sum(req->ip)`
  in the sweep dereferences a number: `WildReads` lists what that can do. `Choose` to `"burst"`
  is the loop of `sr_arp.c:93` that never advances.
* **`ArpService`**: what address resolution promises about packets, with no cache, queue or
  threads in it: accept, refuse, forward once to an announced address, or give up. `ArpCache`
  implements it under the mapping `up <- Running` (`ImplementsService`).
* **`ArpTiming`**: `ArpCache` on a machine that keeps up. A frame is handled, and a pass made, in
  less than a second, waits for the lock included: at most one tick falls into either. `sleep(1.0)`
  starts after a pass and takes a second, so two ticks may fall between one pass and the next, one
  before the thread is awake and one in its sleep. A pass in the loop that never advances is
  not one that keeps up. `elapsed` counts the ticks, `copied` is the age of the cache entry that main
  copied: `sr_arpcache_lookup` hands out a copy, which main uses after the lock is given back.
* **`ArpCacheProofs`**, **`ArpServiceProofs`**, **`ArpTimingProofs`**: the proofs about these; each
  extends the one before. The second has those about packets and counts and that `ArpCache`
  implements `ArpService`, the third those about `ArpTiming`.
* **`Checksum`**: `cksum` over 16-bit words, with its sum, its carries and the last line that
  never returns 0, next to the receiver's test of RFC 1071 (`AddsUp`).
* **`IpRouter`**: `IP_packet`, `packet_to_other_dest` and the ICMP messages in a network of
  several routers and hosts. Each packet carries its exchange: the frame in flight that it
  set off. Address resolution is abstract (a destination on the link is reached, any other is
  not: the code resolves the destination itself, never the gateway of the table); it is what
  `ArpCache` has in full. An interface's address is the pair of its router and its neighbour,
  a routing entry has the address `longest_prefix_sum` compares and the set it should cover.
  A frame has the words of its header that change on the way, its header checksum and its ICMP
  checksum. `Sealed` is the recomputation at the end of each way through the code, `Valid`
  is `validate_IP`, for the length, and `validate_checksum` (`Undamaged`); hosts write checksums as the standard has them, and `Noise` is what
  a link may do to one. **`IpProofs`** has the proofs about it and about `Checksum`.
* **`DatagrumpSender`**: `DatagrumpSender::loop` with any controller, over a path that loses,
  duplicates and reorders. A datagram and the acknowledgement it causes are one item in
  transit; the receiver is not in the repository. `CloseWindow` is the first rule with its
  whole `while` loop, `GotAck` the second, `AfterTimeout` what follows a poll that timed out:
  with the window closed, or open while the socket takes nothing (a fault of `MaxFaults`). What is
  read and is no acknowledgement, or an error of a call, throws an exception that nobody catches
  (`Throw`): the program is over.
* **`AimdSender`**: extends the sender with `Controller::ack_received` of
  `controller_AIMD_best.cc`. The window is kept as its integer part and whether there is a
  fraction, which is all the code compares. The run checks the sender's own properties too,
  under the fairness `AFairSpec` (the sender's, with the controller's handler of acknowledgements).
* **`SenderProofs`**: the proofs about the two.
* **`ThroughputController`**: `controller_throughput.cc` alone, with acknowledgements at any
  time; the estimate is kept in 1/10000, rounded down. `opened` is when the acknowledgement came that
  opened the slot, long after the slot's own start if an outage came before it.
  **`ThroughputProofs`** has its proofs.
* **`Sha1`**: the message side of `sha1.c`. A context is known by the octets of the blocks it
  has processed, the block that is being filled, its place in it, and the two words that count
  bits. What is done with a full block is left out. The eight places of the length are two,
  one for each of its words, so `BlockSize` places stand for 64, and `Room` for 56.
  **`Sha1Proofs`** has its proofs.
* **`VnsSession`**: `main` and `sr_read_from_server_expect` with every command. Commands come
  in two parts, as the two read loops take them; the server sends anything, and closes or
  breaks the connection anywhere. Options of the command line are variables that are chosen at
  the start and kept. The server names the file its table goes to with the host of the command
  (`Served`), and neither the write nor the close is checked: `Written` is what may be in
  the file afterwards. A command too short to have a type is taken, and the type is read past the end of the
  buffer. `if_list` is the list with its order: `HwEntry` is one round of the loop of
  `sr_handle_hwinfo`, `SetLast` the setters, `First` is `sr_get_interface`, `HwDone` is
  `sr_verify_routing_table` and what follows. Of the frames, an ARP request is answered here
  (`HandlePacket`, `answered`), where the addresses come from. A request for authentication has
  `Sha1` compute its digest. `VnsProofs` has the proofs about it.
* `MCArpCache`, `MCArpTiming`, `MCIpRouter`, `MCVnsSession` give constants their values for TLC.

`ArpCache` and `IpRouter` both have the forwarding decision of `packet_to_other_dest`: the first
with routes, TTL and resolution of one router, the second with what the whole network does
with the answers. Mutants (definitions whose comment starts with "Mutant of") are bugs the code
might have had: the property they are listed with in `PROJECT.json` fails when they take the
place of the definition.

## Runs

| Run | Module | Checks | Bounds |
|---|---|---|---|
| `arp_safety` | MCArpCache | types; queue sound; no leak; a packet in one place; no request for a resolved address; no misdelivery; a packet is overtaken only by those that waited with it; `ArpService` | 3 packets to 2 next hops, 1 slot, 2 replies, 1 broadcast, entries that expire after a second |
| `arp_timing` | MCArpTiming | `times_sent` claims no try that was not made; none given up early; no notice for a delivered packet; the copy of an entry young; main's unlocked pointer valid at each use | 5 packets (one expired, one without a route), 2 tries, 2 requests, 1 slot, entries that expire after two seconds, 1 reply |
| `arp_liveness` | MCArpCache | every packet leaves the router; the receive loop is reached again | 2 packets to 2 next hops, 1 slot, 2 replies |
| `arp_wild_read` | MCArpCache | *violated*: `SweepSurvives` | 2 packets |
| `arp_spin` | MCArpCache | *violated*: `SweepRecurs` | 2 packets |
| `ip_star` | MCIpRouter | answers reach their source; headers add up; a traceroute is truthful; every request is answered | 1 router, 3 hosts, 8 packets of every kind, lengths on both sides of 70, a checksum of 0 and one that noise changes |
| `ip_default_route` | MCIpRouter | *violated*: `PrefixRouted` | 6 of them, with a default route |
| `ip_ping_pong` | MCIpRouter | *violated*: `ExchangesEnd` | 2 routers in line, 4 packets |
| `ip_echo_sum` | MCIpRouter | *violated*: `RepliesAddUp` | the packets of `ip_star` |
| `aimd` | AimdSender | counters do not cross; flight bounded; a timeout means late answers; window at least 3; two late answers end slow start; acknowledgements in order on a good path; no stall | 5 datagrams, 2 faults |
| `throughput` | ThroughputController | every acknowledgement in one slot; slots not ahead of the clock, and none that counts more than a slot's time when they are behind it; window follows the counts | 10 acknowledgements over 10 ticks, slots of 2 |
| `vns` | MCVnsSession | table fits the hardware; opened only when authenticated; ARP answers as announced, and the same each time; digests padded as the standard has it; no table of an earlier run passes for the served one; a close ends the program | 5 commands, 2 interfaces, tables of none or both, cut anywhere, 2 virtual hosts; blocks of 6 places, length words of 16 values |

**Why the bounds are enough.** A cache of one slot is full after one answer, so a second next
hop meets a full table, and with three packets the packets of an answered request, a new packet
and the sweeper meet on one request. Three request addresses suffice for three packets, and
`malloc` can return a freed one. The times saturate: the code tells ages above
`Timeout` from the others only, and `AgeCap` is above what the runs say of ages; `sent` is compared with one second. `MaxSends` is 5 in the code; 1 and 2
give a first, a repeated and a last broadcast and keep the states few. In `arp_timing` three packets of two addresses meet two requests, so that one is freed and its
memory taken again while both threads count, and a tick more than the clocks of `ArpTiming` allow
has a copy older than `Timeout + 3`. The theorems have any number of slots, where an
address may have two entries, the older of which the lookup may take. Five
datagrams and two faults have an acknowledgement overtake, repeat and get lost while a
timeout sends, and let AIMD leave slow start from a threshold of 4, be halved and grow again.
Ten ticks are five slots. Five commands are the four of the longest opening (request, status,
table, hardware) and one more; without `-T` the opening takes three, and hardware comes twice and
is asked for. The salts of 0, 1, 2, 5, 6 and 28 octets with a key of 4 end a message before, at
and behind the last place that has room for the mark, at the end of a block, and where both
words of the length wrap (32 octets are 16 times 16 bits; with the code's words of 32 bits a command of at
most 10000 octets does not come near, so this is about `sha1.c` and not about the router). TLC explores `ReqIds` up to symmetry in the safety runs only.

**Deadlock** is checked but for `throughput`, where the clock and the acknowledgements
stop at their bounds. The other models end in a state with a stuttering step of its own
(`Dead`, `Done`, `Over`): a process that died, exchanges that are over.

**Fairness.** `ArpCache`: strong fairness for the main thread, whose steps wait for a lock that
the sweeper releases for a second after each pass; weak fairness for the sweeper (the
scheduler) and the clock. Nothing is assumed of replies. `IpRouter`: as long as there are
frames, some frame is handled (one weak fairness for all, so none is favoured).
`DatagrumpSender` and `AimdSender`: the poller serves what is ready, and time passes; nothing
is assumed of the path, so `NeverStalls` holds when everything is lost, up to an exception. `VnsSession`: the router
runs; nothing is assumed of the server. The liveness properties of `ArpCache` exempt a process that
died and a thread in the loop that never ends (`Spinning`): those are the two findings.

## What the code does and its comments do not say

The runs marked *violated* show:

* `arp_wild_read`: `sr_arpcache_sweepreqs` passes an address as a pointer to a header (`sr_arpcache.c:24`).
* `arp_spin`: the loop that tells the senders of waiting packets never advances (`sr_arp.c:93`):
  with two packets waiting it runs for ever, with the lock held. With one packet it is
  skipped, and the packet is dropped without a message, although `sr_arpcache.h:52` promises one.
* `ip_default_route`: routes match whole addresses only (`sr_ip.c:72`).
* `ip_ping_pong`: every ICMP message to the router, errors and replies too, is answered with an
  echo reply (`sr_ip.c:199`): two routers in line answer each other without end. The TTL of
  each answer is the one received, so it never runs down.
* `ip_echo_sum`: the ICMP checksum of an echo reply covers its first four bytes (`sr_icmp.c:30`);
  that of the errors covers the message. A `ping` that does not check it works all the same.

Met on the way, in the models but with no run of its own:

* An ICMP error is 70 bytes and is sent with the length of the offending frame
  (`sr_icmp.c:91`): cut short or read past its end (`SendError`; `"crash"` of `OverReads`).
* `cksum` never returns 0 (`sr_utils.c:19`), so a header whose valid checksum is written as 0
  is refused (`Undamaged`; a packet of `ip_star` has one).
* `times_sent++` of both threads can lose an increment, so more than five requests
  may be tried (`sr_arp.c:109`). `TimesHonest` is the direction that does hold. What is counted
  are calls of `arp_request_send`: it returns -1 when the write fails (`sr_vns_comm.c:600`),
  and `times_sent` grows all the same, so five tries may be fewer than five broadcasts.
* The packets of one request leave in the reverse of their order (`sr_arpcache.c:100`). It goes
  no further than that: `OvertakeOnlyInBatch`.
* The sweep reads the link of a request that was freed (`sr_arpcache.c:27`), though
  `sr_arpcache.h:61-63` says "make sure to save the next pointer before calling handle_arpreq". The
  lock does not keep main from `malloc` (`sr_arp.c:131`, `sr_ip.c:65`), so anything may be in its
  place. In the model that is a request of the queue, the right one or not, or a fault; what
  the properties say holds up to there.
* `sr_handle_rtable` checks that the file can be opened and nothing after that (`sr_vns_comm.c:243`): a
  full disk leaves part of a table, and the loop starts with it. `TableServed` allows that. And
  with -T and the default -r the table that was served is not the one that `main` loads
  (`sr_main.c:150`), which nothing in the repository forbids.
* The length of a command may be below 8 (`sr_vns_comm.c:372`); its type is then read past the end of the
  buffer (`TooShort`).
* A full table drops the mapping (`sr_arpcache.c:142`) while the request leaves the queue: its
  packets ask again. They leave in the end (`arp_liveness`).
* Hardware information that comes twice appends every interface again (`sr_vns_comm.c:199`). The
  first of a name stays the one that is found, so its address does not change (`AddressStable`).
* The digest covers 64 octets of the key, whatever `fgets` filled of them (`sr_vns_comm.c:275`).
  The models take a key of the size the program is set up with.
* A connection closed without VNSCLOSE leaves the router in `recv`'s loop (`ReadNothing`).

## Proofs

`ArpCacheProofs` proves for every number of packets, addresses, requests, slots, retries and
seconds, from `ConstantsAssumption` alone:

* `TypeCorrect`, `QueueStaysSound`, `RequestsNotLeaked`, `QueuedStaysUnresolved`: `TypeOK`,
  `QueueSound`, `NoLeak` and `QueuedUnresolved` are invariants of `Spec`.
* `OvertakingOnlyInBatch`: `OvertakeOnlyInBatch` holds of every step. A packet that is
  forwarded on its arrival found its next hop resolved, and then no request for it is queued.

The inductive invariant `IInv` joins the four invariants with what they need of each other:
`HandledQueued` (a request a thread works on is queued unless freed: so `Destroy` unlinks what
it frees), `SweepCursorQueued` and `LinkQueued` (as long as no link leads out of the queue the
sweep hands queued requests to `handle_arpreq`; that a link read from freed memory leads back into
it is an outcome of `SweepNext`, not a result), and `AnswerInHand` (main has an answered request in its hands
between taking and freeing it: so no two are outstanding and none is lost). The core of
the argument is the lock: while the sweeper is past `"sleep"` main cannot take or queue a
request, so the cursor may only be lost to the sweeper itself, or to main's unlocked
`handle_arpreq`, whose `sr_arpreq_destroy` waits for the lock again. `QueuedUnresolved` holds
between the two critical sections of lookup and queueing because only main adds entries. Each
action has one lemma for the types and one for the rest; `IInvStep` puts them together.

`ArpServiceProofs` adds to `IInv`, one at a time, the invariants that packets and times need:

* `PacketsHeldOnce` (`HeldOnce`): every packet the router holds is in one place. The invariant
  `HInv` says beside it when main has a packet or an answered request in its hands.
* `PacketsSentAsAnnounced` (`NoMisdelivery`): the cache holds only what replies announced, and so
  does the copy of an entry that main uses after the lock is given back (`AInv`).
* `CountsAreHonest` (`TimesHonest`): both threads increment `times_sent` without the lock. `TInv`
  counts the increments a thread still owes (`Owed`): with them, the count, and what a
  thread read of it, are covered by the tries made (`Paid`), so a lost increment lowers
  the count only.
* `GivenUpLate` (`GivenUpAfterRetries`): a request that is about to be destroyed was tried
  `MaxSends` times and has one packet (`DInv`), with a second one `handle_arpreq` does not get
  there.
* `NoticesAreFinal` (`NoticeFinal`): the thread that sent a notice is in the loop that never
  ends, with the packet on the queue or given up (`BInv`).
* `CacheServes` (`ImplementsService`): each step of `ArpCache` is one that `ArpService` may take,
  or a stutter; it uses all of the above but `TInv` and `BInv`.

`ArpTimingProofs` is about `TimedSpec`, from `TimingAssumption` too, with what was proved of
`Spec`, whose steps these are (`TimedIsSpec`). Without the assumption on time both are false.

* `CopyStaysFresh` (`CopyFresh`): the pass leaves no entry older than `Timeout`, and entries age
  with the clocks: an entry is at most two seconds older than that when it is copied, and the copy
  one more when it is used (`FInv`). One second, as a look at `sleep(1.0)` suggests, does not hold.
* `MainPointerStaysLive` (`MainPointerLive`): a request that main works on and that has one packet is
  a new one. It was counted once at most, and so lately that nobody counts it again before main
  is done with it, so with two tries or more nobody gives it up (`Lately`, `Sending`). A request with
  more packets is not one that `handle_arpreq` destroys (`DInv`). So the lines after
  `sr_arpreq_destroy` are covered as well.

`IpProofs` is about every network `NetworkAssumption` allows: any hosts, routers, tables, packets,
addresses, lengths and damage.

* `ChecksumsAccepted`: whatever words `cksum` is given, they add up with the checksum it
  returns. `WordSum` and `Carried` are recursive functions: that the first exists follows from
  solutions for words up to each length that agree, its value on an appended word
  and the closed form of the second (`Rest`) from a least counterexample (`LeastNumber`).
* `AnswersReachTheirHost`, `SentHeadersAddUp` (`AnswersComeHome`, `HeadersAddUp`): the invariant
  `IInv` says of each frame (`Sound`) that it is on a link, that a host sends under its own
  address and to a router, that what comes to a host is addressed to it, and that what a router sent has
  its own checksum. The source of a frame from a host is what makes an answer to it go home.
* `TracerouteTold` (`TracerouteTruthful`), for one router, hosts that answer with a TTL above 1 (an
  answer that ends at the router is an error about an answer) and packets that are not
  themselves "exceeded" messages. `TruthInv` ties what a frame says to the probe it comes from.

`SenderProofs` proves of `DatagrumpSender`, for any set of windows, path, timeout and bound:

* `SenderTypes`, `CountersDoNotCross`: `TypeOK` and `NoUnderflow`. The counters alone are not
  inductive: an acknowledgement moves `next_ack_expected` past what the path holds, so the
  invariant `SInv` adds `OnlySent` (nothing in transit or waiting to be read was not sent).
* `TimeoutIsLate`: `TimeoutMeansLate`, since every rule of the poll loop restarts the timer.
* `FlightStaysBounded`: `FlightBounded`. When an acknowledgement passes some of the timeouts'
  datagrams, the count of those pending falls, but by no more than the counter grows; when a
  window closes, it was open for the last datagram; a timeout's datagram is a new one.
* `AcksComeInOrder`: `AckAsExpected`. Until the first fault the numbers from
  `next_ack_expected` up are those of the buffer, in their order, and then those in transit
  (`InOrder`), whatever the window does and however many timeouts send early.

It also proves of `AimdSender` that `WindowFloor` and `SpikeEndsSlowStart` are invariants
(`WindowStaysUp`, `SpikeCollapses`; the inductive invariant adds that after one late
acknowledgement the window is 3, so that the next sets the threshold to 3/2 + 1 = 2), and, if
`Windows` is every number from 3 up, that the steps of `AimdSender` are steps of `DatagrumpSender`
(`AimdIsSender`, which follows from `WindowFloor` and the shape of the definitions), from which
`AimdFlightBounded` and `AimdAcksInOrder` carry the bound and the order over. In the code the window has no upper limit, so
that is the case that matters; the run has to stop at a largest window.

`ThroughputProofs` proves the four invariants of `ThroughputController` and its types, for any
length of a slot. `CInv` adds `EstimateBounded`: the average in units of 1/10000 is at most that
of the busiest slot, which the rounding of each new average keeps. The window follows from it.
`SlotsNotOverstated` (`CountsOneSlot`) holds because a slot that lies in the past is closed by the
acknowledgement after the one that opened it. By how much the throughput is underestimated
until the slots have caught up is not bounded: it grows with the outage.

`VnsProofs` proves `OpenedOnlyAuthenticated`, `TableStaysConsistent` and the types of
`VnsSession` for any interfaces, tables, hardware information and server, from
`SessionAssumption` and `HwAssumption` (hardware information starts with the name of an
interface, or the setters would have no interface to set). The invariant `VInv` adds that the
hardware is taken in only from the loop and with no command half read, so a table is never
replaced between its verification and the loop, and that a ready router's table names
interfaces of its list. Three more are about what `HwEntry` and `-T` do:

* `ServedTableLoaded` (`TableServed`): up to the loop of a session with `-T` no table is in
  use, and the file has the last table received or what its write left of it (`ServedInv`,
  `ServedWritten`). A file that is named otherwise than by -r is nothing this is about.
* `AnswersAsTold` (`AnswersTold`), if the server gives a hardware address with each IP address
  (`EtherWithIp`); otherwise a request is answered with an address that was never set. The
  invariant `ListInv` says of each interface of the list which stretch of which announcement its
  addresses are from: of all but the last the whole (`Complete`), of the last what was handled
  (`Underway`). That is what makes "the last of the list" the right one to set.
* `AddressesStay` (`AddressStable`), if an announcement gives an interface one address of a kind
  at most (`OneOfEach`); a second one would replace the first. The rest is that the first
  of a name stays the first when interfaces are added behind it.

The hardware information of the run satisfies both.

`Sha1Proofs` proves about every context, for any size of a block and any range of the length
words that `Sha1Assumption` allows:

* `OctetTaken`: an octet is added behind what was taken in, and the context never holds a full
  block: the place to write to is one of the block's.
* `MessagePadded`: wherever in a block the message ends, what is processed at the end is the
  message, the mark, fewer zeros than a block has places, and the two words of the length.

* `InputTaken`: `SHA1Input` takes a message on, in as many calls as it comes. A context that was
  `Fed` a message has taken its octets, has processed whole blocks, and its two words hold the
  number of its bits; or the message has more bits than they count, and the context is corrupted. The
  loop is the fold of `InputOctet` over the octets, whose recursion is inside the library's
  `MapThenFoldSet`: a function with that recursion exists for the sets of places up to each
  length (`RoundsExist`), so the fold goes from context to context (`LoopRounds`), and the least
  octet after which the context would not be `Fed` contradicts `OctetFed`. The carry from
  word to word is `BitsCounted`.
* `DigestOfStandard`: `SHA1Result` succeeds for all but a message of too many bits, and what
  is processed is the message padded as FIPS 180 has it. The zeros of `MessagePadded` are those
  of the standard because only one number of them fills the last block (`FillIsOnly`).

`DigestsStandard`, in `VnsProofs`, is `DigestStandard` for any salts and key, from the last two.

Only model-checked is liveness under fairness, which TLAPS cannot prove:
`PacketSettled`, `MainReturns`, `RequestsAnswered`, `NeverStalls` and `CloseEnds`.

## Not modelled

* The compression of one block in `sha1.c`: arithmetic on 512 bits, out of TLC's reach. The
  digest is a function of the blocks `Sha1` has. Whether an authentication succeeds is the
  server's choice in `VnsSession`.
* The packet log (`sr_dumper.c`) and printing: output only.
* `dest_unreach_code.c`: not built. `sr_protocol.h`: layouts. `sr_arpcache_destroy`: never called.
* The buffer of the VNS socket: a frame is written whole. `sr_send_packet` takes a short write
  for a failure (`sr_vns_comm.c:600`) that its callers ignore; what the server makes of the rest of
  the stream is not in the repository.
* The page-load scripts.

## Plan

1. Done: `ArpCache` with `ArpService`, `IpRouter` with `Checksum`, the sender and its two
   controllers, `VnsSession` with the interface list and `Sha1`; proofs of every safety property
   the passing runs check.
2. To model: an abstract specification of a session (which tables may come to be used, and
   when) that `VnsSession` implements, and of a reliable count for the sender.

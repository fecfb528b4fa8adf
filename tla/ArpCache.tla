------------------------------ MODULE ArpCache ------------------------------
(***************************************************************************)
(* The ARP cache and request queue of the router (sr_arpcache.c), the ARP  *)
(* handler that drives them (sr_arp.c) and the forwarding path that uses   *)
(* them (packet_to_other_dest in sr_ip.c).                                 *)
(*                                                                         *)
(* Two threads run over the cache: "main", which handles one received      *)
(* frame at a time, and "sweep", the loop of sr_arpcache_timeout.  The     *)
(* sweeper holds the cache lock from Wake to the end of its pass, so the   *)
(* lock is held exactly when it is not asleep; the main thread's locked    *)
(* operations are single steps that wait for it.  handle_arpreq is run by  *)
(* both threads, by main WITHOUT the lock: its accesses to the request are *)
(* separate steps here.                                                    *)
(*                                                                         *)
(* Memory: heap holds the allocated requests; a pointer to a request that  *)
(* is not in DOMAIN heap dangles.  Reading or writing through it is        *)
(* undefined: the process goes on with arbitrary values, or it dies or     *)
(* does what no model can follow (fault): what is said below holds up to   *)
(* there.                                                                  *)
(***************************************************************************)
EXTENDS Naturals, Sequences, FiniteSets, SequencesExt

CONSTANTS
    IPs,         \* next-hop addresses
    Routed,      \* those the routing table has an entry for
    MACs,
    Packets,     \* IP packets to forward; each is received at most once
    Dst, Ttl,    \* destination and time to live of a packet
    ReqIds,      \* addresses malloc can return for a struct sr_arpreq
    CacheSize,   \* SR_ARPCACHE_SZ, 100 in the code
    Timeout,     \* SR_ARPCACHE_TO, 15 seconds in the code
    AgeCap,      \* bound on the ages of entries: those beyond are not told apart
    MaxSends,    \* the 5 of "times_sent>=5"
    WildReads,   \* what longest_prefix_sum can do when it is handed an address as a header
    MaxReplies,  \* bound on the ARP replies received
    NoReq, NoPkt, NoMac

ASSUME ConstantsAssumption ==
    /\ Routed \subseteq IPs
    /\ Dst \in [Packets -> IPs]
    /\ Ttl \in [Packets -> 0 .. 255]
    /\ CacheSize \in Nat \ {0}
    /\ Timeout \in Nat
    /\ AgeCap \in Nat /\ Timeout < AgeCap
    /\ MaxSends \in Nat \ {0}
    /\ MaxReplies \in Nat
    /\ WildReads \subseteq {"crash", "null", "some"}
    /\ NoReq \notin ReqIds
    /\ NoPkt \notin Packets
    /\ NoMac \notin MACs

VARIABLES
    entries,   \* valid cache entries, a function on the used slots
    queue,     \* cache->requests, head first
    heap,      \* the allocated requests
    pc,        \* where each thread is
    req,       \* the request each thread's handle_arpreq works on
    route,     \* the dest_rt each thread passes to handle_arpreq
    lag,       \* seconds since a thread's "now" was read
    loaded,    \* the times_sent a thread read for its increment
    napped,    \* the sweeper's sleep(1) is over
    nxt,       \* the link of the request the sweeper freed, as it was
    pkt,       \* the packet main is forwarding
    mac,       \* the address in the entry main copied out of the cache
    batch,     \* packets of an answered request that main has yet to forward
    detached,  \* the answered request itself
    fate,      \* what became of every packet
    sentTo,    \* the address a transmitted packet was sent to
    bounced,   \* packets a host-unreachable was sent for from handle_arpreq
    learned,   \* the IP->MAC mappings announced so far
    replies,   \* number of ARP replies received
    fault      \* why the process died, "none" while it runs

threadVars == <<pc, req, route, lag, loaded>>
mainVars == <<pkt, mac, batch, detached>>
netVars == <<sentTo, bounced, learned, replies>>
vars == <<entries, queue, heap, threadVars, napped, nxt, mainVars, fate, netVars, fault>>

Threads == {"main", "sweep"}
Slots == 1 .. CacheSize

Entry == [ip : IPs, mac : MACs, age : 0 .. AgeCap]

\* struct sr_arpreq.  age is the time since "sent", 2 standing for 2 or more
\* seconds and for "never sent"; tries counts the calls of arp_request_send made for it.
Request == [ip : IPs, age : 0 .. 2, times : Nat, tries : Nat, pkts : Seq(Packets)]

MainOnly == {"idle", "lookup", "transmit", "enqueue", "batch"}
SweepOnly == {"sleep", "next"}
Handling == {"check", "choose", "send", "stamp", "count", "destroy", "burst"}
Fates == {"new", "held", "sent", "exceeded", "unreachable", "dropped"}
Faults == {"none", "wild_read", "null_route", "use_after_free", "double_free", "stray_link"}

Older(a, cap) == IF a < cap THEN a + 1 ELSE cap

Running == fault = "none"
\* Mutant of LockFree: the main thread does not take the lock.
LockIgnored == TRUE

LockFree == pc["sweep"] = "sleep"
Live(r) == r \in DOMAIN heap

Crash(why) ==
    /\ fault' = why
    /\ UNCHANGED <<queue, heap, threadVars, nxt, mainVars, fate, netVars>>

-----------------------------------------------------------------------------
(* The cache proper.                                                       *)

\* Mutant of Matches: the comparison of the addresses is dropped.
MatchesAny(ip) == DOMAIN entries

Matches(ip) == {i \in DOMAIN entries : entries[i].ip = ip}

\* sr_arpcache_lookup keeps the last match of its scan.
LookupResult(ip, i) == i \in Matches(ip) /\ \A j \in Matches(ip) : j <= i

\* Mutant of StoreEntry: no test for a full table, one past its end is written.
StoreEntryUnchecked(ip, m) ==
    \E i \in 1 .. CacheSize + 1 :
        /\ i \notin DOMAIN entries
        /\ \A j \in 1 .. i - 1 : j \in DOMAIN entries
        /\ entries' = [k \in DOMAIN entries \cup {i} |->
                         IF k = i THEN [ip |-> ip, mac |-> m, age |-> 0] ELSE entries[k]]

\* sr_arpcache_insert takes the first free slot, and none if all are used.
StoreEntry(ip, m) ==
    \/ DOMAIN entries = Slots /\ UNCHANGED entries
    \/ \E i \in Slots \ DOMAIN entries :
          /\ \A j \in 1 .. i - 1 : j \in DOMAIN entries
          /\ entries' = [k \in DOMAIN entries \cup {i} |->
                           IF k = i THEN [ip |-> ip, mac |-> m, age |-> 0] ELSE entries[k]]

\* Mutant of ExpireEntries: entries live a second longer.
ExpireEntriesLate ==
    [i \in {j \in DOMAIN entries : entries[j].age <= Timeout + 1} |-> entries[i]]

\* The sweep's loop over the entries.
ExpireEntries ==
    [i \in {j \in DOMAIN entries : entries[j].age <= Timeout} |-> entries[i]]

\* Queue positions of the requests for an address; the code stops at the first.
FirstFor(ip, i) ==
    /\ i \in DOMAIN queue
    /\ heap[queue[i]].ip = ip
    /\ \A j \in 1 .. i - 1 : heap[queue[j]].ip # ip

\* Mutant of Asked: only the head of the queue is compared.
AskedHead(ip) == queue # << >> /\ heap[Head(queue)].ip = ip

Asked(ip) == \E i \in DOMAIN queue : heap[queue[i]].ip = ip

PosOf(r, i) == i \in DOMAIN queue /\ queue[i] = r

\* Mutant of Freed: the free is forgotten.
FreedNothing(r) == heap

Freed(r) == [x \in DOMAIN heap \ {r} |-> heap[x]]

-----------------------------------------------------------------------------
Init ==
    /\ entries = << >>
    /\ queue = << >>
    /\ heap = << >>
    /\ pc = [t \in Threads |-> IF t = "main" THEN "idle" ELSE "sleep"]
    /\ req = [t \in Threads |-> NoReq]
    /\ route = [t \in Threads |-> "some"]
    /\ lag = [t \in Threads |-> 0]
    /\ loaded = [t \in Threads |-> 0]
    /\ napped = FALSE
    /\ nxt = NoReq
    /\ pkt = NoPkt
    /\ mac = NoMac
    /\ batch = << >>
    /\ detached = NoReq
    /\ fate = [p \in Packets |-> "new"]
    /\ sentTo = [p \in Packets |-> NoMac]
    /\ bounced = {}
    /\ learned = {}
    /\ replies = 0
    /\ fault = "none"

-----------------------------------------------------------------------------
(* The main thread.                                                        *)

\* Where main goes on once a packet is off its hands: to the other packets of
\* an answered request, or back to the receive loop.
MainAfter == IF detached = NoReq THEN "idle" ELSE "batch"

\* packet_to_other_dest up to the cache lookup.
ToOtherDest(p) ==
    \/ /\ Ttl[p] <= 1
       /\ fate' = [fate EXCEPT ![p] = "exceeded"]
       /\ pc' = [pc EXCEPT !["main"] = MainAfter]
       /\ UNCHANGED pkt
    \/ /\ Ttl[p] > 1 /\ Dst[p] \notin Routed
       /\ fate' = [fate EXCEPT ![p] = "unreachable"]
       /\ pc' = [pc EXCEPT !["main"] = MainAfter]
       /\ UNCHANGED pkt
    \/ /\ Ttl[p] > 1 /\ Dst[p] \in Routed
       /\ fate' = [fate EXCEPT ![p] = "held"]
       /\ pkt' = p
       /\ pc' = [pc EXCEPT !["main"] = "lookup"]

RecvIp(p) ==
    /\ Running
    /\ pc["main"] = "idle"
    /\ fate[p] = "new"
    /\ ToOtherDest(p)
    /\ UNCHANGED <<entries, queue, heap, req, route, lag, loaded, napped, nxt,
                   mac, batch, detached, netVars, fault>>

LookupHit ==
    /\ Running
    /\ pc["main"] = "lookup" /\ LockFree
    /\ \E i \in DOMAIN entries : LookupResult(Dst[pkt], i) /\ mac' = entries[i].mac
    /\ pc' = [pc EXCEPT !["main"] = "transmit"]
    /\ UNCHANGED <<entries, queue, heap, req, route, lag, loaded, napped, nxt,
                   pkt, batch, detached, fate, netVars, fault>>

LookupMiss ==
    /\ Running
    /\ pc["main"] = "lookup" /\ LockFree
    /\ Matches(Dst[pkt]) = {}
    /\ pc' = [pc EXCEPT !["main"] = "enqueue"]
    /\ UNCHANGED <<entries, queue, heap, req, route, lag, loaded, napped, nxt,
                   mainVars, fate, netVars, fault>>

Transmit ==
    /\ Running
    /\ pc["main"] = "transmit"
    /\ fate' = [fate EXCEPT ![pkt] = "sent"]
    /\ sentTo' = [sentTo EXCEPT ![pkt] = mac]
    /\ pkt' = NoPkt
    /\ mac' = NoMac
    /\ pc' = [pc EXCEPT !["main"] = MainAfter]
    /\ UNCHANGED <<entries, queue, heap, req, route, lag, loaded, napped, nxt,
                   batch, detached, bounced, learned, replies, fault>>

\* sr_arpcache_queuereq: the packet is pushed at the front of the list of the
\* request for its address, a new request at the front of the queue.
PushPacket(r) ==
    /\ heap' = [heap EXCEPT ![r].pkts = Cons(pkt, @)]
    /\ UNCHANGED queue

\* Mutant of PushRequest: malloc in place of calloc, times_sent holds a leftover.
PushRequestUncleared(r) ==
    /\ heap' = [x \in DOMAIN heap \cup {r} |->
                  IF x = r
                  THEN [ip |-> Dst[pkt], age |-> 2, times |-> MaxSends, tries |-> 0, pkts |-> <<pkt>>]
                  ELSE heap[x]]
    /\ queue' = Cons(r, queue)

\* Mutant of PushRequest: cache->requests is not set to the new request.
PushRequestUnlinked(r) ==
    /\ heap' = [x \in DOMAIN heap \cup {r} |->
                  IF x = r
                  THEN [ip |-> Dst[pkt], age |-> 2, times |-> 0, tries |-> 0, pkts |-> <<pkt>>]
                  ELSE heap[x]]
    /\ UNCHANGED queue

PushRequest(r) ==
    /\ heap' = [x \in DOMAIN heap \cup {r} |->
                  IF x = r
                  THEN [ip |-> Dst[pkt], age |-> 2, times |-> 0, tries |-> 0, pkts |-> <<pkt>>]
                  ELSE heap[x]]
    /\ queue' = Cons(r, queue)

Enqueue ==
    /\ Running
    /\ pc["main"] = "enqueue" /\ LockFree
    /\ \E r \in ReqIds :
          /\ \/ /\ Asked(Dst[pkt])
                /\ \E i \in DOMAIN queue : FirstFor(Dst[pkt], i) /\ queue[i] = r
                /\ PushPacket(r)
             \/ /\ ~Asked(Dst[pkt])
                /\ ~Live(r)
                /\ PushRequest(r)
          /\ req' = [req EXCEPT !["main"] = r]
    /\ pc' = [pc EXCEPT !["main"] = "check"]
    /\ pkt' = NoPkt
    /\ UNCHANGED <<entries, route, lag, loaded, napped, nxt,
                   mac, batch, detached, fate, netVars, fault>>

\* An ARP reply for the router: sr_arpcache_insert unlinks the request for the
\* address, if there is one, and stores the mapping; arp_packet then forwards
\* the packets of the request one after the other.
\* Mutant of Unlink: the request stays on the queue.
UnlinkNothing(i) ==
    /\ UNCHANGED queue
    /\ detached' = queue[i]
    /\ batch' = heap[queue[i]].pkts
    /\ pc' = [pc EXCEPT !["main"] = "batch"]

\* Mutant of Unlink: always the head of the queue goes.
UnlinkHead(i) ==
    /\ queue' = Tail(queue)
    /\ detached' = queue[i]
    /\ batch' = heap[queue[i]].pkts
    /\ pc' = [pc EXCEPT !["main"] = "batch"]

Unlink(i) ==
    /\ queue' = RemoveAt(queue, i)
    /\ detached' = queue[i]
    /\ batch' = heap[queue[i]].pkts
    /\ pc' = [pc EXCEPT !["main"] = "batch"]

RecvArpReply(ip, m) ==
    /\ Running
    /\ pc["main"] = "idle" /\ LockFree
    /\ replies < MaxReplies
    /\ replies' = replies + 1
    /\ learned' = learned \cup {<<ip, m>>}
    /\ StoreEntry(ip, m)
    /\ \/ \E i \in DOMAIN queue : FirstFor(ip, i) /\ Unlink(i)
       \/ ~Asked(ip) /\ UNCHANGED <<queue, detached, batch, pc>>
    /\ UNCHANGED <<heap, req, route, lag, loaded, napped, nxt,
                   pkt, mac, fate, sentTo, bounced, fault>>

\* Mutant of BatchNext: packets=packets->next is missing.
BatchStuck ==
    /\ Running
    /\ pc["main"] = "batch"
    /\ batch # << >>
    /\ ToOtherDest(Head(batch))
    /\ UNCHANGED <<entries, queue, heap, req, route, lag, loaded, napped, nxt,
                   mac, batch, detached, netVars, fault>>

BatchNext ==
    /\ Running
    /\ pc["main"] = "batch"
    /\ batch # << >>
    /\ ToOtherDest(Head(batch))
    /\ batch' = Tail(batch)
    /\ UNCHANGED <<entries, queue, heap, req, route, lag, loaded, napped, nxt,
                   mac, detached, netVars, fault>>

\* sr_arpreq_destroy on the answered request, which is no longer queued.
BatchDone ==
    /\ Running
    /\ pc["main"] = "batch" /\ LockFree
    /\ batch = << >>
    /\ heap' = Freed(detached)
    /\ detached' = NoReq
    /\ pc' = [pc EXCEPT !["main"] = "idle"]
    /\ UNCHANGED <<entries, queue, req, route, lag, loaded, napped, nxt,
                   pkt, mac, batch, fate, netVars, fault>>

-----------------------------------------------------------------------------
(* handle_arpreq, run by either thread.                                    *)

Return(t) ==
    /\ pc' = [pc EXCEPT ![t] = IF t = "main" THEN MainAfter ELSE "next"]
    /\ req' = [req EXCEPT ![t] = IF t = "main" THEN NoReq ELSE @]
    /\ lag' = [lag EXCEPT ![t] = 0]
    /\ loaded' = [loaded EXCEPT ![t] = 0]

\* now=time(0); if (difftime(now,req->sent)>1.0)
CheckDue(t) ==
    /\ Running
    /\ pc[t] = "check"
    /\ Live(req[t]) => heap[req[t]].age > 1
    /\ pc' = [pc EXCEPT ![t] = "choose"]
    /\ UNCHANGED <<entries, queue, heap, req, route, lag, loaded, napped, nxt,
                   mainVars, fate, netVars, fault>>

\* Mutant of CheckNotDue: the last two assignments are outside the "if".
CheckNotDueCounted(t) ==
    /\ Running
    /\ pc[t] = "check"
    /\ Live(req[t]) => heap[req[t]].age <= 1
    /\ pc' = [pc EXCEPT ![t] = "stamp"]
    /\ UNCHANGED <<entries, queue, heap, req, route, lag, loaded, napped, nxt,
                   mainVars, fate, netVars, fault>>

CheckNotDue(t) ==
    /\ Running
    /\ pc[t] = "check"
    /\ Live(req[t]) => heap[req[t]].age <= 1
    /\ Return(t)
    /\ UNCHANGED <<entries, queue, heap, route, napped, nxt,
                   mainVars, fate, netVars, fault>>

\* Mutant of AfterChoice: one try too few.
AfterChoiceEarly(r) ==
    IF heap[r].times + 1 < MaxSends THEN "send"
    ELSE IF Len(heap[r].pkts) > 1 THEN "burst" ELSE "destroy"

\* if (req->times_sent>=5), and whether "packets->next" is NULL.
AfterChoice(r) ==
    IF heap[r].times < MaxSends THEN "send"
    ELSE IF Len(heap[r].pkts) > 1 THEN "burst" ELSE "destroy"

Choose(t) ==
    /\ Running
    /\ pc[t] = "choose"
    /\ \E next \in {"send", "burst", "destroy"} :
          /\ Live(req[t]) => next = AfterChoice(req[t])
          /\ pc' = [pc EXCEPT ![t] = next]
    /\ UNCHANGED <<entries, queue, heap, req, route, lag, loaded, napped, nxt,
                   mainVars, fate, netVars, fault>>

\* arp_request_send: dest->interface is read through dest_rt.  It returns -1 when
\* sr_send_packet does, but what handle_arpreq does next is the same: a request has
\* been tried, whether or not it got out.
Send(t) ==
    /\ Running
    /\ pc[t] = "send"
    /\ \/ /\ route[t] = "null"
          /\ Crash("null_route")
       \/ /\ route[t] = "some"
          /\ heap' = IF Live(req[t]) THEN [heap EXCEPT ![req[t]].tries = @ + 1] ELSE heap
          /\ pc' = [pc EXCEPT ![t] = "stamp"]
          /\ UNCHANGED <<queue, req, route, lag, loaded, nxt, mainVars, fate, netVars, fault>>
    /\ UNCHANGED <<entries, napped>>

\* The loop "while(packets->next!=NULL)", which never advances: each round looks
\* a route up through req->ip and sends a host-unreachable for the same packet.
BurstRound(t) ==
    /\ Running
    /\ pc[t] = "burst"
    /\ \/ ~Live(req[t]) /\ Crash("use_after_free")
       \/ "crash" \in WildReads /\ Crash("wild_read")
       \/ "null" \in WildReads /\ Crash("null_route")
       \/ /\ "some" \in WildReads /\ Live(req[t])
          /\ bounced' = bounced \cup {Head(heap[req[t]].pkts)}
          /\ UNCHANGED <<queue, heap, threadVars, nxt, mainVars, fate,
                         sentTo, learned, replies, fault>>
    /\ UNCHANGED <<entries, napped>>

\* sr_arpreq_destroy on a request that got no answer.
Destroy(t) ==
    /\ Running
    /\ pc[t] = "destroy"
    /\ t = "main" => LockFree
    /\ \/ ~Live(req[t]) /\ Crash("double_free")
       \/ /\ Live(req[t])
          /\ fate' = [p \in Packets |->
                        IF p \in ToSet(heap[req[t]].pkts) THEN "dropped" ELSE fate[p]]
          /\ heap' = Freed(req[t])
          /\ \E i \in DOMAIN queue :
                /\ PosOf(req[t], i)
                /\ queue' = RemoveAt(queue, i)
                /\ nxt' = IF t = "sweep" /\ i < Len(queue) THEN queue[i + 1] ELSE nxt
          /\ pc' = [pc EXCEPT ![t] = "stamp"]
          /\ UNCHANGED <<req, route, lag, loaded, mainVars, netVars, fault>>
    /\ UNCHANGED <<entries, napped>>

\* req->sent=now, and the read of req->times_sent++.
Stamp(t) ==
    /\ Running
    /\ pc[t] = "stamp"
    /\ \/ ~Live(req[t]) /\ Crash("use_after_free")
       \/ /\ heap' = IF Live(req[t]) THEN [heap EXCEPT ![req[t]].age = lag[t]] ELSE heap
          /\ loaded' = [loaded EXCEPT ![t] = IF Live(req[t]) THEN heap[req[t]].times ELSE 0]
          /\ pc' = [pc EXCEPT ![t] = "count"]
          /\ UNCHANGED <<queue, req, route, lag, nxt, mainVars, fate, netVars, fault>>
    /\ UNCHANGED <<entries, napped>>

\* The write of req->times_sent++.
Count(t) ==
    /\ Running
    /\ pc[t] = "count"
    /\ \/ ~Live(req[t]) /\ Crash("use_after_free")
       \/ /\ heap' = IF Live(req[t])
                     THEN [heap EXCEPT ![req[t]].times = loaded[t] + 1] ELSE heap
          /\ Return(t)
          /\ UNCHANGED <<queue, route, nxt, mainVars, fate, netVars, fault>>
    /\ UNCHANGED <<entries, napped>>

-----------------------------------------------------------------------------
(* The sweeper thread.                                                     *)

\* sleep(1.0) returns, the lock is taken, old entries are invalidated and
\* sr_arpcache_sweepreqs starts: it passes req->ip to longest_prefix_sum, which
\* dereferences it.
Wake ==
    /\ Running
    /\ pc["sweep"] = "sleep"
    /\ napped
    /\ napped' = FALSE
    /\ entries' = ExpireEntries
    /\ \/ /\ queue = << >>
          /\ UNCHANGED <<queue, heap, threadVars, nxt, mainVars, fate, netVars, fault>>
       \/ /\ queue # << >> /\ "crash" \in WildReads
          /\ Crash("wild_read")
       \/ /\ queue # << >>
          /\ \E w \in WildReads \ {"crash"} : route' = [route EXCEPT !["sweep"] = w]
          /\ req' = [req EXCEPT !["sweep"] = Head(queue)]
          /\ pc' = [pc EXCEPT !["sweep"] = "check"]
          /\ UNCHANGED <<queue, heap, lag, loaded, nxt, mainVars, fate, netVars, fault>>

SweepTo(r) ==
    /\ req' = [req EXCEPT !["sweep"] = r]
    /\ pc' = [pc EXCEPT !["sweep"] = IF r = NoReq THEN "sleep" ELSE "check"]
    /\ route' = [route EXCEPT !["sweep"] = IF r = NoReq THEN "some" ELSE @]
    /\ nxt' = NoReq
    /\ UNCHANGED <<queue, heap, lag, loaded, mainVars, fate, netVars, fault>>

\* req=req->next.  When handle_arpreq freed the request, the link is read from memory
\* that main may have got from malloc meanwhile, for which it needs no lock: whatever
\* is found there is taken for a request, be it the next one, one the sweep has been
\* at, or something that is none.
SweepNext ==
    /\ Running
    /\ pc["sweep"] = "next"
    /\ \/ /\ Live(req["sweep"])
          /\ \E i \in DOMAIN queue :
                /\ PosOf(req["sweep"], i)
                /\ SweepTo(IF i < Len(queue) THEN queue[i + 1] ELSE NoReq)
       \/ /\ ~Live(req["sweep"]) /\ nxt = NoReq
          /\ SweepTo(NoReq)
       \/ /\ ~Live(req["sweep"]) /\ nxt # NoReq
          /\ \/ \E r \in ToSet(queue) : SweepTo(r)
             \/ Crash("stray_link")
    /\ UNCHANGED <<entries, napped>>

-----------------------------------------------------------------------------
\* A second passes.
Tick ==
    /\ Running
    /\ entries' = [i \in DOMAIN entries |->
                     [entries[i] EXCEPT !.age = Older(@, AgeCap)]]
    /\ heap' = [r \in DOMAIN heap |-> [heap[r] EXCEPT !.age = Older(@, 2)]]
    /\ lag' = [t \in Threads |->
                 IF pc[t] \in {"choose", "send", "stamp"} THEN Older(lag[t], 2) ELSE lag[t]]
    /\ napped' = (pc["sweep"] = "sleep")
    /\ UNCHANGED <<queue, pc, req, route, loaded, nxt, mainVars, fate, netVars, fault>>

\* The process is gone.
Dead == ~Running /\ UNCHANGED vars

Handle(t) ==
    \/ CheckDue(t) \/ CheckNotDue(t) \/ Choose(t) \/ Send(t)
    \/ BurstRound(t) \/ Destroy(t) \/ Stamp(t) \/ Count(t)

MainStep ==
    \/ LookupHit \/ LookupMiss \/ Transmit \/ Enqueue
    \/ BatchNext \/ BatchDone
    \/ Handle("main")

SweepStep == Wake \/ SweepNext \/ Handle("sweep")

Receive ==
    \/ \E p \in Packets : RecvIp(p)
    \/ \E ip \in IPs, m \in MACs : RecvArpReply(ip, m)

Next == Receive \/ MainStep \/ SweepStep \/ Tick \/ Dead

Spec == Init /\ [][Next]_vars

\* The main thread runs on whenever the lock lets it (the sweeper sleeps a second
\* between passes, so a waiting main thread gets the lock sooner or later), the
\* sweeper is scheduled, and time passes.  Nothing is assumed of what is received.
FairSpec == Spec /\ SF_vars(MainStep) /\ WF_vars(SweepStep) /\ WF_vars(Tick)

-----------------------------------------------------------------------------
(* Invariants.                                                             *)

CacheTypes ==
    /\ DOMAIN entries \subseteq Slots
    /\ entries \in [DOMAIN entries -> Entry]

RequestTypes ==
    /\ queue \in Seq(ReqIds)
    /\ DOMAIN heap \subseteq ReqIds
    /\ heap \in [DOMAIN heap -> Request]

ThreadTypes ==
    /\ pc \in [Threads -> MainOnly \cup SweepOnly \cup Handling]
    /\ pc["main"] \notin SweepOnly /\ pc["sweep"] \notin MainOnly
    /\ req \in [Threads -> ReqIds \cup {NoReq}]
    /\ route \in [Threads -> {"null", "some"}]
    /\ lag \in [Threads -> 0 .. 2]
    /\ loaded \in [Threads -> Nat]
    /\ napped \in BOOLEAN
    /\ nxt \in ReqIds \cup {NoReq}

MainTypes ==
    /\ pkt \in Packets \cup {NoPkt}
    /\ mac \in MACs \cup {NoMac}
    /\ batch \in Seq(Packets)
    /\ detached \in ReqIds \cup {NoReq}
    /\ pc["main"] \in {"lookup", "transmit", "enqueue"} => pkt \in Packets
    /\ pc["main"] = "transmit" => mac \in MACs

NetTypes ==
    /\ fate \in [Packets -> Fates]
    /\ sentTo \in [Packets -> MACs \cup {NoMac}]
    /\ bounced \subseteq Packets
    /\ learned \subseteq IPs \X MACs
    /\ replies \in 0 .. MaxReplies
    /\ fault \in Faults

\* Every variable holds a value of its type, and main has a packet in hand
\* wherever packet_to_other_dest uses one.
TypeOK == CacheTypes /\ RequestTypes /\ ThreadTypes /\ MainTypes /\ NetTypes

\* The queue links allocated requests, one per address, each with a packet
\* waiting for that address: what the searches of sr_arpcache_queuereq and
\* sr_arpcache_insert, which stop at the first match, rely on, and what keeps
\* every list walk made under the lock inside allocated memory.
QueueLive == \A i \in DOMAIN queue : Live(queue[i])
OnePerAddress ==
    \A i, j \in DOMAIN queue : heap[queue[i]].ip = heap[queue[j]].ip => i = j
PacketsInPlace ==
    \A i \in DOMAIN queue :
        /\ heap[queue[i]].pkts # << >>
        /\ \A p \in ToSet(heap[queue[i]].pkts) : Dst[p] = heap[queue[i]].ip
QueueSound == QueueLive /\ OnePerAddress /\ PacketsInPlace

\* The sweeper hands handle_arpreq only requests that are still queued, whatever
\* main did since the pass began: sr_arpcache_sweepreqs keeps a bare pointer.  (Up to a
\* link read from freed memory that leads out of the queue.)
SweepCursorQueued ==
    pc["sweep"] \in {"check", "choose", "send", "burst", "destroy"}
        => req["sweep"] \in ToSet(queue)

\* A request either thread is handling is queued unless it was freed; the next one is
\* still queued when the link to it is about to be read from freed memory.
HandledQueued ==
    \A t \in Threads :
        pc[t] \in Handling \cup {"next"} /\ Live(req[t]) => req[t] \in ToSet(queue)
LinkQueued ==
    nxt # NoReq => nxt \in ToSet(queue) /\ pc["sweep"] \in {"stamp", "count", "next"}

\* main has an answered request in its hands between RecvArpReply and BatchDone.
AnswerInHand ==
    /\ pc["main"] = "idle" => detached = NoReq
    /\ pc["main"] = "batch" => detached # NoReq

\* No request is leaked: an allocated request is on the queue or in the hands of
\* arp_packet, which frees it.
NoLeak == DOMAIN heap \ ToSet(queue) = {detached} \ {NoReq}

\* A packet waits on a queued request.
Waits(p) == \E r \in ToSet(queue) : p \in ToSet(heap[r].pkts)

\* A packet the router holds is somewhere: on a queued request, in the rest of an
\* answered one, or in main's hands.
HeldSomewhere ==
    \A p \in Packets : fate[p] = "held" <=> Waits(p) \/ p \in ToSet(batch) \/ pkt = p

\* No packet is in two of these places, nor twice in one of them.
NotHeldTwice ==
    /\ \A p \in ToSet(batch) \cup {pkt} : ~Waits(p)
    /\ pkt \notin ToSet(batch)
    /\ IsInjective(batch)
    /\ \A r \in ToSet(queue) : IsInjective(heap[r].pkts)
    /\ \A r, s \in ToSet(queue) :
          r # s => ToSet(heap[r].pkts) \cap ToSet(heap[s].pkts) = {}

\* A packet the router holds is in exactly one place, so none is lost or sent twice
\* when a reply, a new packet and the sweeper meet on its request.
HeldOnce == HeldSomewhere /\ NotHeldTwice

\* A request is queued, or about to be, only for an address the cache does not
\* resolve: packet_to_other_dest looks the address up and queues the packet in
\* two critical sections, and the sweeper or a full cache may come between.
QueuedUnresolved ==
    /\ \A i \in DOMAIN queue : Matches(heap[queue[i]].ip) = {}
    /\ pc["main"] = "enqueue" => Matches(Dst[pkt]) = {}

\* The inductive invariant.
IInv ==
    /\ TypeOK /\ QueueSound /\ NoLeak /\ AnswerInHand
    /\ HandledQueued /\ SweepCursorQueued /\ LinkQueued
    /\ QueuedUnresolved

\* A transmitted packet went to an address some reply announced for its
\* destination, even when the entry expired between lookup and transmission.
NoMisdelivery ==
    \A p \in Packets : fate[p] = "sent" => <<Dst[p], sentTo[p]>> \in learned

\* times_sent never claims a try that was not made, although both threads increment it
\* without synchronisation: a request is not near its limit before its time.
TimesHonest == \A r \in DOMAIN heap : heap[r].times <= heap[r].tries

\* A packet is given up only after MaxSends tries to send an ARP request for it.
GivenUpAfterRetries ==
    [][\A p \in Packets :
        fate[p] # "dropped" /\ fate'[p] = "dropped"
            => \E r \in ToSet(queue) :
                  p \in ToSet(heap[r].pkts) /\ heap[r].tries >= MaxSends]_vars

\* The sender of a packet is not told that its host is unreachable and the packet
\* delivered after all: while handle_arpreq is bouncing the packets of a request, no
\* reply may take that request off the queue.
NoticeFinal == \A p \in bounced : fate[p] # "sent"

\* sr_arpcache_queuereq pushes at the front, and arp_packet forwards from the front:
\* packets to one next hop overtake each other when they are released together.
\* They do at no other time: what main is about to send finds no earlier packet to
\* the same next hop on the queue, although it looked the address up a while ago.
OvertakeOnlyInBatch == pc["main"] = "transmit" => ~Asked(Dst[pkt])

\* The cache, its queue and its two threads keep the promises of ArpService.
Service == INSTANCE ArpService WITH up <- Running
ImplementsService == Service!Spec

-----------------------------------------------------------------------------
(* Liveness.                                                               *)

\* Some thread is in the loop that never advances.
Spinning == \E t \in Threads : pc[t] = "burst"

\* A packet does not wait for ever: a reply, a retry limit or the fatal loop ends
\* its wait, even when a full cache sends it round the queue again.
PacketSettled ==
    \A p \in Packets : fate[p] = "held" ~> fate[p] # "held" \/ Spinning \/ ~Running

\* The receive loop is always reached again.
MainReturns == pc["main"] # "idle" ~> pc["main"] = "idle" \/ Spinning \/ ~Running

-----------------------------------------------------------------------------
(* What the comments of the repository say and the code does not do.       *)

\* sr_arpcache.c:16: "For each request sent out, we keep checking": a sweep over
\* a request does not kill the process by the lookup it starts with.
SweepSurvives == fault # "wild_read"

\* sr_arpcache.c:16: "This function gets called every second": while the process
\* lives, the sweep comes to its end again and again.
SweepRecurs == []<>(LockFree \/ ~Running)
=============================================================================

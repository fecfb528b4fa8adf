--------------------------- MODULE ArpCacheProofs ---------------------------
(* Proofs about ArpCache, for every value of its constants.                *)
EXTENDS ArpCache, SequenceTheorems, TLAPS

\* Putting an element before a sequence, as sr_arpcache_queuereq does with a new
\* request and with a new packet: its length and its elements.
LEMMA ConsFacts ==
    ASSUME NEW S, NEW s \in Seq(S), NEW e \in S
    PROVE  /\ Cons(e, s) \in Seq(S)
           /\ Len(Cons(e, s)) = Len(s) + 1
           /\ Cons(e, s)[1] = e
           /\ \A i \in 1 .. Len(s) : Cons(e, s)[i + 1] = s[i]
BY DEF Cons

\* Taking the i-th element out of a sequence, as the unlinking loops of
\* sr_arpcache_insert and sr_arpreq_destroy do: its length and its elements.
LEMMA RemoveAtFacts ==
    ASSUME NEW S, NEW s \in Seq(S), NEW i \in 1 .. Len(s)
    PROVE  /\ RemoveAt(s, i) \in Seq(S)
           /\ Len(RemoveAt(s, i)) = Len(s) - 1
           /\ \A j \in 1 .. Len(s) - 1 :
                 RemoveAt(s, i)[j] = IF j < i THEN s[j] ELSE s[j + 1]
<1> DEFINE a == SubSeq(s, 1, i - 1)
           b == SubSeq(s, i + 1, Len(s))
           c == a \o b
<1>0. Len(s) \in Nat /\ i \in Int /\ i >= 1 /\ i <= Len(s)
  OBVIOUS
<1>1. /\ a \in Seq(S)
      /\ Len(a) = i - 1
      /\ \A j \in 1 .. i - 1 : a[j] = s[j]
  <2>1. \A j \in 1 .. i - 1 : s[j] \in S
    BY <1>0
  <2> QED BY <1>0, <2>1, SubSeqProperties
<1>2. /\ b \in Seq(S)
      /\ Len(b) = Len(s) - i
      /\ \A j \in 1 .. Len(s) - i : b[j] = s[i + j]
  <2>1. \A j \in i + 1 .. Len(s) : s[j] \in S
    BY <1>0
  <2>2. /\ b \in Seq(S)
        /\ Len(b) = IF i + 1 <= Len(s) THEN Len(s) - (i + 1) + 1 ELSE 0
        /\ \A j \in 1 .. Len(s) - (i + 1) + 1 : b[j] = s[(i + 1) + j - 1]
    BY <1>0, <2>1, SubSeqProperties
  <2> QED BY <1>0, <2>2
<1>3. /\ c \in Seq(S)
      /\ Len(c) = Len(a) + Len(b)
      /\ \A j \in 1 .. Len(a) + Len(b) :
            c[j] = IF j <= Len(a) THEN a[j] ELSE b[j - Len(a)]
  BY <1>1, <1>2, ConcatProperties
<1>4. RemoveAt(s, i) = c
  BY DEF RemoveAt
<1> HIDE DEF a, b, c
<1>5. ASSUME NEW j \in 1 .. Len(s) - 1
      PROVE  c[j] = IF j < i THEN s[j] ELSE s[j + 1]
  <2>1. CASE j < i
    <3>1. j \in 1 .. i - 1 /\ j \in 1 .. Len(a) + Len(b) /\ j <= Len(a)
      BY <1>0, <1>1, <1>2, <2>1
    <3>2. c[j] = a[j] /\ a[j] = s[j]
      BY <1>1, <1>3, <3>1
    <3> QED BY <2>1, <3>2
  <2>2. CASE ~(j < i)
    <3>0. j \in 1 .. Len(a) + Len(b) /\ ~(j <= Len(a))
      BY <1>0, <1>1, <1>2, <2>2
    <3>1. c[j] = b[j - (i - 1)]
      BY <1>1, <1>3, <3>0
    <3>2. j - (i - 1) \in 1 .. Len(s) - i /\ i + (j - (i - 1)) = j + 1
      BY <1>0, <2>2
    <3> QED BY <1>2, <2>2, <3>1, <3>2
  <2> QED BY <2>1, <2>2
<1> QED BY <1>0, <1>1, <1>2, <1>3, <1>4, <1>5

\* sr_arpcache_init and sr_init leave every variable within its type.
LEMMA TypeInit == Init => TypeOK
<1> SUFFICES ASSUME Init PROVE TypeOK
  OBVIOUS
<1>1. CacheTypes
  BY DEF Init, CacheTypes
<1>2. RequestTypes
  BY DEF Init, RequestTypes
<1>3. ThreadTypes
  <2>1. pc["main"] = "idle" /\ pc["sweep"] = "sleep"
    BY DEF Init, Threads
  <2>2. pc \in [Threads -> MainOnly \cup SweepOnly \cup Handling]
    BY DEF Init, Threads, MainOnly, SweepOnly
  <2>3. /\ req \in [Threads -> ReqIds \cup {NoReq}]
        /\ route \in [Threads -> {"null", "some"}]
        /\ lag \in [Threads -> 0 .. 2]
        /\ loaded \in [Threads -> Nat]
    BY DEF Init
  <2>4. napped \in BOOLEAN /\ nxt \in ReqIds \cup {NoReq}
    BY DEF Init
  <2> QED BY <2>1, <2>2, <2>3, <2>4 DEF ThreadTypes, MainOnly, SweepOnly
<1>4. MainTypes
  BY DEF Init, MainTypes, Threads
<1>5. NetTypes
  BY ConstantsAssumption DEF Init, NetTypes, Fates, Faults
<1> QED BY <1>1, <1>2, <1>3, <1>4, <1>5 DEF TypeOK

\* Types after a packet received and checked (IP_packet).
LEMMA TypeRecvIp ==
    ASSUME IInv, NEW p \in Packets, RecvIp(p)
    PROVE  TypeOK'
<1> USE DEF IInv, TypeOK, QueueSound
<1>1. CacheTypes'
  BY DEF RecvIp, CacheTypes
<1>2. RequestTypes'
  BY DEF RecvIp, RequestTypes
<1>3. ThreadTypes'
  BY DEF RecvIp, ToOtherDest, MainAfter, ThreadTypes, Threads, MainOnly, SweepOnly
<1>4. MainTypes'
  BY DEF RecvIp, ToOtherDest, MainAfter, MainTypes, ThreadTypes, Threads
<1>5. NetTypes'
  BY DEF RecvIp, ToOtherDest, NetTypes, Fates, netVars
<1> QED BY <1>1, <1>2, <1>3, <1>4, <1>5

\* Types after a cache hit copied for main (sr_arpcache_lookup).
LEMMA TypeLookupHit ==
    ASSUME IInv, LookupHit
    PROVE  TypeOK'
<1> USE DEF IInv, TypeOK, QueueSound
<1>1. CacheTypes'
  BY DEF LookupHit, CacheTypes
<1>2. RequestTypes'
  BY DEF LookupHit, RequestTypes
<1>3. ThreadTypes'
  BY DEF LookupHit, ThreadTypes, Threads, MainOnly, SweepOnly
<1>4. MainTypes'
  BY DEF LookupHit, CacheTypes, Entry, MainTypes, ThreadTypes, Threads
<1>5. NetTypes'
  BY DEF LookupHit, NetTypes, netVars
<1> QED BY <1>1, <1>2, <1>3, <1>4, <1>5

\* Types after a cache miss (sr_arpcache_lookup).
LEMMA TypeLookupMiss ==
    ASSUME IInv, LookupMiss
    PROVE  TypeOK'
<1> USE DEF IInv, TypeOK, QueueSound
<1>1. CacheTypes'
  BY DEF LookupMiss, CacheTypes
<1>2. RequestTypes'
  BY DEF LookupMiss, RequestTypes
<1>3. ThreadTypes'
  BY DEF LookupMiss, ThreadTypes, Threads, MainOnly, SweepOnly
<1>4. MainTypes'
  BY DEF LookupMiss, MainTypes, mainVars
<1>5. NetTypes'
  BY DEF LookupMiss, NetTypes, netVars
<1> QED BY <1>1, <1>2, <1>3, <1>4, <1>5

\* Types after a packet sent with the address found (packet_to_other_dest).
LEMMA TypeTransmit ==
    ASSUME IInv, Transmit
    PROVE  TypeOK'
<1> USE DEF IInv, TypeOK, QueueSound
<1>1. CacheTypes'
  BY DEF Transmit, CacheTypes
<1>2. RequestTypes'
  BY DEF Transmit, RequestTypes
<1>3. ThreadTypes'
  BY DEF Transmit, MainAfter, ThreadTypes, Threads, MainOnly, SweepOnly
<1>4. MainTypes'
  BY DEF Transmit, MainAfter, MainTypes, ThreadTypes, Threads
<1>5. NetTypes'
  BY DEF Transmit, MainTypes, NetTypes, Fates
<1> QED BY <1>1, <1>2, <1>3, <1>4, <1>5

\* Types after a packet queued (sr_arpcache_queuereq).
LEMMA TypeEnqueue ==
    ASSUME IInv, Enqueue
    PROVE  TypeOK'
<1> USE DEF IInv, TypeOK, QueueSound
<1>1. CacheTypes'
  BY DEF Enqueue, PushPacket, PushRequest, CacheTypes
<1>2. RequestTypes'
  <2> SUFFICES ASSUME NEW r \in ReqIds,
                      \/ r \in DOMAIN heap /\ PushPacket(r)
                      \/ PushRequest(r)
               PROVE  RequestTypes'
    BY DEF Enqueue, FirstFor, RequestTypes, Live, QueueLive
  <2>1. pkt \in Packets
    BY DEF Enqueue, MainTypes
  <2>2. CASE r \in DOMAIN heap /\ PushPacket(r)
    <3>1. [heap[r] EXCEPT !.pkts = Cons(pkt, @)] \in Request
      <4>1. heap[r] \in Request /\ heap[r].pkts \in Seq(Packets)
        BY <2>2 DEF RequestTypes, Request
      <4>2. Cons(pkt, heap[r].pkts) \in Seq(Packets)
        BY <2>1, <4>1, ConsFacts
      <4> QED BY <4>1, <4>2 DEF Request
    <3> QED BY <2>2, <3>1 DEF PushPacket, RequestTypes
  <2>3. CASE PushRequest(r)
    <3>1. [ip |-> Dst[pkt], age |-> 2, times |-> 0, tries |-> 0, pkts |-> <<pkt>>] \in Request
      BY <2>1, ConstantsAssumption DEF Request
    <3>2. Cons(r, queue) \in Seq(ReqIds)
      BY ConsFacts DEF RequestTypes
    <3> QED BY <2>3, <3>1, <3>2 DEF PushRequest, RequestTypes
  <2> QED BY <2>2, <2>3
<1>3. ThreadTypes'
  BY DEF Enqueue, PushPacket, PushRequest, ThreadTypes, Threads, SweepOnly, Handling
<1>4. MainTypes'
  BY DEF Enqueue, PushPacket, PushRequest, MainTypes, ThreadTypes, Threads
<1>5. NetTypes'
  BY DEF Enqueue, PushPacket, PushRequest, NetTypes, netVars
<1> QED BY <1>1, <1>2, <1>3, <1>4, <1>5

\* Types after an ARP reply received (sr_arpcache_insert).
LEMMA TypeReply ==
    ASSUME IInv, NEW ip \in IPs, NEW m \in MACs, RecvArpReply(ip, m)
    PROVE  TypeOK'
<1> USE DEF IInv, TypeOK, QueueSound
<1>1. CacheTypes'
  <2>1. [ip |-> ip, mac |-> m, age |-> 0] \in Entry
    BY ConstantsAssumption DEF Entry
  <2> QED BY <2>1 DEF RecvArpReply, StoreEntry, CacheTypes
<1>2. RequestTypes'
  <2>1. ASSUME NEW i \in DOMAIN queue, Unlink(i)
        PROVE  queue' \in Seq(ReqIds)
    BY <2>1, RemoveAtFacts DEF Unlink, RequestTypes
  <2> QED BY <2>1 DEF RecvArpReply, FirstFor, RequestTypes
<1>3. ThreadTypes'
  BY DEF RecvArpReply, Unlink, ThreadTypes, Threads, MainOnly, SweepOnly
<1>4. MainTypes'
  <2>1. ASSUME NEW i \in DOMAIN queue, Unlink(i)
        PROVE  queue[i] \in ReqIds /\ queue[i] \in DOMAIN heap
    BY <2>1 DEF RequestTypes, QueueLive, Live
  <2> QED BY <2>1 DEF RecvArpReply, FirstFor, Unlink, RequestTypes, Request, MainTypes, ThreadTypes, Threads
<1>5. NetTypes'
  BY ConstantsAssumption DEF RecvArpReply, NetTypes
<1> QED BY <1>1, <1>2, <1>3, <1>4, <1>5

\* Types after one packet of an answered request sent on its way again (arp_packet).
LEMMA TypeBatchNext ==
    ASSUME IInv, BatchNext
    PROVE  TypeOK'
<1> USE DEF IInv, TypeOK, QueueSound
<1>1. CacheTypes'
  BY DEF BatchNext, CacheTypes
<1>2. RequestTypes'
  BY DEF BatchNext, RequestTypes
<1>3. ThreadTypes'
  BY DEF BatchNext, ToOtherDest, MainAfter, ThreadTypes, Threads, MainOnly, SweepOnly
<1>4. MainTypes'
  BY DEF BatchNext, ToOtherDest, MainAfter, MainTypes, ThreadTypes, Threads
<1>5. NetTypes'
  BY DEF BatchNext, ToOtherDest, NetTypes, Fates, netVars
<1> QED BY <1>1, <1>2, <1>3, <1>4, <1>5

\* Types after the answered request freed (arp_packet).
LEMMA TypeBatchDone ==
    ASSUME IInv, BatchDone
    PROVE  TypeOK'
<1> USE DEF IInv, TypeOK, QueueSound
<1>1. CacheTypes'
  BY DEF BatchDone, CacheTypes
<1>2. RequestTypes'
  <2>1. heap' = [x \in DOMAIN heap \ {detached} |-> heap[x]]
    BY DEF BatchDone, Freed
  <2> QED BY <2>1 DEF BatchDone, RequestTypes
<1>3. ThreadTypes'
  BY DEF BatchDone, ThreadTypes, Threads, MainOnly, SweepOnly
<1>4. MainTypes'
  BY DEF BatchDone, MainTypes
<1>5. NetTypes'
  BY DEF BatchDone, NetTypes, netVars
<1> QED BY <1>1, <1>2, <1>3, <1>4, <1>5

\* Types after handle_arpreq finding the request due.
LEMMA TypeCheckDue ==
    ASSUME IInv, NEW t \in Threads, CheckDue(t)
    PROVE  TypeOK'
<1> USE DEF IInv, TypeOK, QueueSound
<1>1. CacheTypes'
  BY DEF CheckDue, CacheTypes
<1>2. RequestTypes'
  BY ConstantsAssumption DEF CheckDue, RequestTypes, threadVars, mainVars, netVars
<1>3. ThreadTypes'
  BY DEF CheckDue, ThreadTypes, Threads, MainOnly, SweepOnly, Handling
<1>4. MainTypes'
  BY DEF CheckDue, MainTypes, mainVars
<1>5. NetTypes'
  BY DEF CheckDue, NetTypes, netVars
<1> QED BY <1>1, <1>2, <1>3, <1>4, <1>5

\* Types after handle_arpreq finding the request not due.
LEMMA TypeCheckNotDue ==
    ASSUME IInv, NEW t \in Threads, CheckNotDue(t)
    PROVE  TypeOK'
<1> USE DEF IInv, TypeOK, QueueSound
<1>1. CacheTypes'
  BY DEF CheckNotDue, CacheTypes
<1>2. RequestTypes'
  BY DEF CheckNotDue, RequestTypes
<1>3. ThreadTypes'
  BY DEF CheckNotDue, Return, MainAfter, ThreadTypes, Threads, MainOnly, SweepOnly
<1>4. MainTypes'
  BY DEF CheckNotDue, Return, MainAfter, MainTypes, mainVars
<1>5. NetTypes'
  BY DEF CheckNotDue, NetTypes, netVars
<1> QED BY <1>1, <1>2, <1>3, <1>4, <1>5

\* Types after handle_arpreq's test of the retry limit.
LEMMA TypeChoose ==
    ASSUME IInv, NEW t \in Threads, Choose(t)
    PROVE  TypeOK'
<1> USE DEF IInv, TypeOK, QueueSound
<1>1. CacheTypes'
  BY DEF Choose, CacheTypes
<1>2. RequestTypes'
  BY DEF Choose, RequestTypes
<1>3. ThreadTypes'
  BY DEF Choose, ThreadTypes, Threads, MainOnly, SweepOnly, Handling
<1>4. MainTypes'
  BY DEF Choose, MainTypes, mainVars
<1>5. NetTypes'
  BY DEF Choose, NetTypes, netVars
<1> QED BY <1>1, <1>2, <1>3, <1>4, <1>5

\* Types after the broadcast of an ARP request is tried (arp_request_send).
LEMMA TypeSend ==
    ASSUME IInv, NEW t \in Threads, Send(t)
    PROVE  TypeOK'
<1> USE DEF IInv, TypeOK, QueueSound
<1>1. CacheTypes'
  BY DEF Send, CacheTypes
<1>2. RequestTypes'
  <2>1. CASE UNCHANGED heap
    BY <2>1 DEF Send, Crash, RequestTypes
  <2>2. CASE Live(req[t]) /\ heap' = [heap EXCEPT ![req[t]].tries = @ + 1]
    <3>1. [heap[req[t]] EXCEPT !.tries = @ + 1] \in Request
      <4>1. heap[req[t]] \in Request /\ heap[req[t]].tries + 1 \in Nat
        BY <2>2 DEF Live, RequestTypes, Request
      <4> QED BY <4>1 DEF Request
    <3> QED BY <2>2, <3>1 DEF Send, Crash, Live, RequestTypes
  <2> QED BY <2>1, <2>2 DEF Send, Crash
<1>3. ThreadTypes'
  BY DEF Send, Crash, ThreadTypes, Threads, MainOnly, SweepOnly, Handling, threadVars
<1>4. MainTypes'
  BY DEF Send, Crash, MainTypes, threadVars, mainVars, ThreadTypes, Threads
<1>5. NetTypes'
  BY DEF Send, Crash, NetTypes, Faults, netVars
<1> QED BY <1>1, <1>2, <1>3, <1>4, <1>5

\* Types after a round of the host-unreachable loop of handle_arpreq.
LEMMA TypeBurstRound ==
    ASSUME IInv, NEW t \in Threads, BurstRound(t)
    PROVE  TypeOK'
<1> USE DEF IInv, TypeOK, QueueSound
<1>1. CacheTypes'
  BY DEF BurstRound, CacheTypes
<1>2. RequestTypes'
  BY DEF BurstRound, Crash, RequestTypes
<1>3. ThreadTypes'
  BY DEF BurstRound, Crash, ThreadTypes, Threads, threadVars
<1>4. MainTypes'
  BY ConstantsAssumption DEF BurstRound, Crash, MainTypes, threadVars, mainVars,
     netVars, ThreadTypes, Threads, MainOnly, SweepOnly, Handling
<1>5. NetTypes'
  <2>1. ASSUME Live(req[t])
        PROVE  Head(heap[req[t]].pkts) \in Packets
    <3>1. req[t] \in ToSet(queue)
      BY <2>1 DEF BurstRound, HandledQueued, Handling
    <3>2. heap[req[t]].pkts # << >> /\ heap[req[t]].pkts \in Seq(Packets)
      BY <2>1, <3>1 DEF ToSet, PacketsInPlace, Live, RequestTypes, Request
    <3> QED BY <3>2
  <2> QED BY <2>1 DEF BurstRound, Crash, NetTypes, Faults, netVars
<1> QED BY <1>1, <1>2, <1>3, <1>4, <1>5

\* Types after sr_arpreq_destroy by either thread.
LEMMA TypeDestroy ==
    ASSUME IInv, NEW t \in Threads, Destroy(t)
    PROVE  TypeOK'
<1> USE DEF IInv, TypeOK, QueueSound
<1>1. CacheTypes'
  BY DEF Destroy, CacheTypes
<1>2. RequestTypes'
  <2>1. CASE UNCHANGED <<queue, heap>>
    BY <2>1 DEF RequestTypes
  <2>2. CASE /\ heap' = Freed(req[t])
             /\ \E i \in DOMAIN queue : queue' = RemoveAt(queue, i)
    <3>1. queue' \in Seq(ReqIds)
      BY <2>2, RemoveAtFacts DEF RequestTypes
    <3> QED BY <2>2, <3>1 DEF Freed, RequestTypes
  <2> QED BY <2>1, <2>2 DEF Destroy, Crash
<1>3. ThreadTypes'
  <2>1. CASE Crash("double_free") /\ UNCHANGED napped
    BY <2>1 DEF Crash, ThreadTypes, threadVars
  <2>2. CASE Live(req[t])
    <3>1. nxt' \in ReqIds \cup {NoReq}
      <4>1. PICK i \in DOMAIN queue :
                nxt' = IF t = "sweep" /\ i < Len(queue) THEN queue[i + 1] ELSE nxt
        BY <2>2 DEF Destroy
      <4> QED BY <4>1 DEF RequestTypes, ThreadTypes
    <3> QED BY <2>2, <3>1 DEF Destroy, ThreadTypes, Threads, MainOnly, SweepOnly, Handling
  <2> QED BY <2>1, <2>2 DEF Destroy
<1>4. MainTypes'
  BY DEF Destroy, Crash, MainTypes, threadVars, mainVars, ThreadTypes, Threads
<1>5. NetTypes'
  BY DEF Destroy, Crash, Freed, NetTypes, Fates, Faults, netVars
<1> QED BY <1>1, <1>2, <1>3, <1>4, <1>5

\* Types after the write of req->sent in handle_arpreq.
LEMMA TypeStamp ==
    ASSUME IInv, NEW t \in Threads, Stamp(t)
    PROVE  TypeOK'
<1> USE DEF IInv, TypeOK, QueueSound
<1>1. CacheTypes'
  BY DEF Stamp, CacheTypes
<1>2. RequestTypes'
  <2>1. CASE UNCHANGED heap
    BY <2>1 DEF Stamp, Crash, RequestTypes
  <2>2. CASE Live(req[t]) /\ heap' = [heap EXCEPT ![req[t]].age = lag[t]]
    <3>1. req[t] \in DOMAIN heap /\ heap[req[t]] \in Request /\ lag[t] \in 0 .. 2
      BY <2>2 DEF Live, RequestTypes, ThreadTypes
    <3>2. [heap[req[t]] EXCEPT !.age = lag[t]] \in Request
      BY <3>1 DEF Request
    <3>3. heap' = [x \in DOMAIN heap |->
                     IF x = req[t] THEN [heap[req[t]] EXCEPT !.age = lag[t]] ELSE heap[x]]
      BY <2>2
    <3>4. heap' \in [DOMAIN heap' -> Request] /\ DOMAIN heap' = DOMAIN heap
      BY <3>2, <3>3 DEF RequestTypes
    <3>5. queue' = queue
      BY DEF Stamp, Crash
    <3> QED BY <3>4, <3>5 DEF RequestTypes
  <2> QED BY <2>1, <2>2 DEF Stamp, Crash
<1>3. ThreadTypes'
  <2>1. CASE Crash("use_after_free") /\ UNCHANGED napped
    BY <2>1 DEF Crash, ThreadTypes, threadVars
  <2>2. CASE pc' = [pc EXCEPT ![t] = "count"]
    <3>1. (IF Live(req[t]) THEN heap[req[t]].times ELSE 0) \in Nat
      BY DEF Live, RequestTypes, Request
    <3> QED BY <2>2, <3>1 DEF Stamp, Crash, threadVars, ThreadTypes, Threads, MainOnly, SweepOnly, Handling
  <2> QED BY <2>1, <2>2 DEF Stamp
<1>4. MainTypes'
  BY DEF Stamp, Crash, MainTypes, threadVars, mainVars, ThreadTypes, Threads
<1>5. NetTypes'
  BY DEF Stamp, Crash, NetTypes, Faults, netVars
<1> QED BY <1>1, <1>2, <1>3, <1>4, <1>5

\* Types after the increment of req->times_sent in handle_arpreq.
LEMMA TypeCount ==
    ASSUME IInv, NEW t \in Threads, Count(t)
    PROVE  TypeOK'
<1> USE DEF IInv, TypeOK, QueueSound
<1>1. CacheTypes'
  BY DEF Count, CacheTypes
<1>2. RequestTypes'
  <2>1. CASE UNCHANGED heap
    BY <2>1 DEF Count, Crash, RequestTypes
  <2>2. CASE Live(req[t]) /\ heap' = [heap EXCEPT ![req[t]].times = loaded[t] + 1]
    <3>1. [heap[req[t]] EXCEPT !.times = loaded[t] + 1] \in Request
      <4>1. heap[req[t]] \in Request /\ loaded[t] + 1 \in Nat
        BY <2>2 DEF Live, RequestTypes, ThreadTypes
      <4> QED BY <4>1 DEF Request
    <3> QED BY <2>2, <3>1 DEF Count, Crash, Live, RequestTypes
  <2> QED BY <2>1, <2>2 DEF Count, Crash
<1>3. ThreadTypes'
  BY DEF Count, Crash, Return, MainAfter, ThreadTypes, Threads, MainOnly, SweepOnly,
     threadVars
<1>4. MainTypes'
  BY DEF Count, Crash, Return, MainAfter, MainTypes, threadVars, mainVars, ThreadTypes,
     Threads
<1>5. NetTypes'
  BY DEF Count, Crash, Return, NetTypes, Faults, netVars
<1> QED BY <1>1, <1>2, <1>3, <1>4, <1>5

\* Types after the sweeper waking and expiring entries (sr_arpcache_timeout).
LEMMA TypeWake ==
    ASSUME IInv, Wake
    PROVE  TypeOK'
<1> USE DEF IInv, TypeOK, QueueSound
<1>1. CacheTypes'
  BY DEF Wake, ExpireEntries, CacheTypes
<1>2. RequestTypes'
  BY DEF Wake, Crash, RequestTypes
<1>3. ThreadTypes'
  <2>1. CASE UNCHANGED <<threadVars, nxt>>
    BY <2>1 DEF Wake, threadVars, ThreadTypes
  <2>2. CASE queue # << >> /\ pc' = [pc EXCEPT !["sweep"] = "check"]
                           /\ req' = [req EXCEPT !["sweep"] = Head(queue)]
    <3>1. Head(queue) \in ReqIds
      BY <2>2 DEF RequestTypes
    <3>2. pc' \in [Threads -> MainOnly \cup SweepOnly \cup Handling]
          /\ pc'["main"] \notin SweepOnly /\ pc'["sweep"] \notin MainOnly
      BY <2>2 DEF ThreadTypes, Threads, MainOnly, SweepOnly, Handling
    <3>3. req' \in [Threads -> ReqIds \cup {NoReq}]
      BY <2>2, <3>1 DEF ThreadTypes, Threads
    <3>4. lag' = lag /\ loaded' = loaded /\ nxt' = nxt /\ napped' \in BOOLEAN
      BY <2>2 DEF Wake, Crash, threadVars
    <3>5. route' = route \/ \E w \in WildReads \ {"crash"} : route' = [route EXCEPT !["sweep"] = w]
      BY <2>2 DEF Wake, Crash, threadVars
    <3>6. route' \in [Threads -> {"null", "some"}]
      BY <3>5, ConstantsAssumption DEF ThreadTypes, Threads
    <3> QED BY <3>2, <3>3, <3>4, <3>6 DEF ThreadTypes
  <2> QED BY <2>1, <2>2 DEF Wake, Crash
<1>4. MainTypes'
  BY DEF Wake, Crash, MainTypes, threadVars, mainVars, ThreadTypes, Threads
<1>5. NetTypes'
  BY DEF Wake, Crash, NetTypes, Faults, netVars
<1> QED BY <1>1, <1>2, <1>3, <1>4, <1>5

\* Types after the sweeper's step to the next request (sr_arpcache_sweepreqs).
LEMMA TypeSweepNext ==
    ASSUME IInv, SweepNext
    PROVE  TypeOK'
<1> USE DEF IInv, TypeOK, QueueSound
<1>1. CacheTypes'
  BY DEF SweepNext, CacheTypes
<1>2. RequestTypes'
  BY DEF SweepNext, Crash, SweepTo, RequestTypes
<1>3. ThreadTypes'
  <2>1. CASE Crash("stray_link") /\ UNCHANGED napped
    BY <2>1 DEF Crash, ThreadTypes, threadVars
  <2>2. ASSUME NEW r \in ReqIds \cup {NoReq}, SweepTo(r), UNCHANGED napped
        PROVE  ThreadTypes'
    BY <2>2 DEF SweepTo, ThreadTypes, Threads, MainOnly, SweepOnly, Handling
  <2>3. ASSUME NEW i \in DOMAIN queue
        PROVE  (IF i < Len(queue) THEN queue[i + 1] ELSE NoReq) \in ReqIds \cup {NoReq}
    BY DEF RequestTypes
  <2>4. ToSet(queue) \subseteq ReqIds
    BY DEF RequestTypes, ToSet
  <2> QED BY <2>1, <2>2, <2>3, <2>4 DEF SweepNext
<1>4. MainTypes'
  BY DEF SweepNext, Crash, SweepTo, MainTypes, threadVars, mainVars, ThreadTypes,
     Threads
<1>5. NetTypes'
  BY DEF SweepNext, Crash, SweepTo, NetTypes, Faults, netVars
<1> QED BY <1>1, <1>2, <1>3, <1>4, <1>5

\* Types after a second passing.
LEMMA TypeTick ==
    ASSUME IInv, Tick
    PROVE  TypeOK'
<1> USE DEF IInv, TypeOK, QueueSound
<1>1. CacheTypes'
  <2>1. ASSUME NEW i \in DOMAIN entries
        PROVE  [entries[i] EXCEPT !.age = Older(@, AgeCap)] \in Entry
    BY ConstantsAssumption DEF CacheTypes, Entry, Older
  <2> QED BY <2>1 DEF Tick, CacheTypes
<1>2. RequestTypes'
  <2>1. ASSUME NEW r \in DOMAIN heap
        PROVE  [heap[r] EXCEPT !.age = Older(@, 2)] \in Request
    <3>1. heap[r] \in Request /\ Older(heap[r].age, 2) \in 0 .. 2
      BY DEF RequestTypes, Request, Older
    <3> QED BY <3>1 DEF Request
  <2> QED BY <2>1 DEF Tick, RequestTypes
<1>3. ThreadTypes'
  <2>1. lag' \in [Threads -> 0 .. 2]
    BY DEF Tick, Older, ThreadTypes
  <2>2. napped' \in BOOLEAN
    BY DEF Tick
  <2> QED BY <2>1, <2>2 DEF Tick, ThreadTypes
<1>4. MainTypes'
  BY DEF Tick, MainTypes, mainVars
<1>5. NetTypes'
  BY DEF Tick, NetTypes, netVars
<1> QED BY <1>1, <1>2, <1>3, <1>4, <1>5

-----------------------------------------------------------------------------
(* The queue and the requests.                                             *)

\* What the steps that neither queue, unlink nor free a request keep of it.
Kept ==
    /\ UNCHANGED <<queue, detached>>
    /\ DOMAIN heap' = DOMAIN heap
    /\ \A r \in DOMAIN heap : heap'[r].ip = heap[r].ip /\ heap'[r].pkts = heap[r].pkts

\* A step that leaves queue, addresses and packet lists alone keeps the queue sound
\* and leaks nothing.
LEMMA KeptSound ==
    ASSUME IInv, Kept
    PROVE  QueueSound' /\ NoLeak'
<1>1. QueueSound'
  BY DEF IInv, Kept, QueueSound, QueueLive, OnePerAddress, PacketsInPlace, Live
<1>2. NoLeak'
  BY DEF IInv, Kept, NoLeak
<1> QED BY <1>1, <1>2

\* Unlinking one queued request leaves the others, in their order.
LEMMA QueueRemoved ==
    ASSUME IInv, NEW i \in DOMAIN queue, queue' = RemoveAt(queue, i)
    PROVE  /\ ToSet(queue') = ToSet(queue) \ {queue[i]}
           /\ \A j \in DOMAIN queue' : \E k \in DOMAIN queue \ {i} :
                 queue'[j] = queue[k] /\ k = IF j < i THEN j ELSE j + 1
<1>1. /\ queue \in Seq(ReqIds)
      /\ Len(queue) \in Nat /\ DOMAIN queue = 1 .. Len(queue)
      /\ i \in 1 .. Len(queue)
  BY DEF IInv, TypeOK, RequestTypes
<1>2. /\ queue' \in Seq(ReqIds)
      /\ Len(queue') = Len(queue) - 1
      /\ \A j \in 1 .. Len(queue) - 1 :
            queue'[j] = IF j < i THEN queue[j] ELSE queue[j + 1]
  BY <1>1, RemoveAtFacts
<1>3. DOMAIN queue' = 1 .. Len(queue) - 1
  BY <1>1, <1>2
<1>4. \A j \in DOMAIN queue' : \E k \in DOMAIN queue \ {i} :
         queue'[j] = queue[k] /\ k = IF j < i THEN j ELSE j + 1
  <2> SUFFICES ASSUME NEW j \in 1 .. Len(queue) - 1
               PROVE  \E k \in DOMAIN queue \ {i} :
                         queue'[j] = queue[k] /\ k = IF j < i THEN j ELSE j + 1
    BY <1>3
  <2>1. CASE j < i
    <3>1. j \in DOMAIN queue \ {i} /\ queue'[j] = queue[j]
      BY <1>1, <1>2, <2>1
    <3> QED BY <2>1, <3>1
  <2>2. CASE ~(j < i)
    <3>1. j + 1 \in DOMAIN queue \ {i} /\ queue'[j] = queue[j + 1]
      BY <1>1, <1>2, <2>2
    <3> QED BY <2>2, <3>1
  <2> QED BY <2>1, <2>2
<1>5. \A k \in DOMAIN queue \ {i} : queue[k] # queue[i]
  BY DEF IInv, QueueSound, OnePerAddress
<1>6. \A k \in DOMAIN queue \ {i} : \E j \in DOMAIN queue' : queue'[j] = queue[k]
  <2> SUFFICES ASSUME NEW k \in 1 .. Len(queue), k # i
               PROVE  \E j \in 1 .. Len(queue) - 1 : queue'[j] = queue[k]
    BY <1>1, <1>3
  <2>1. CASE k < i
    <3>1. k \in 1 .. Len(queue) - 1 /\ queue'[k] = queue[k]
      BY <1>1, <1>2, <2>1
    <3> QED BY <3>1
  <2>2. CASE ~(k < i)
    <3>1. k - 1 \in 1 .. Len(queue) - 1 /\ ~(k - 1 < i) /\ (k - 1) + 1 = k
      BY <1>1, <2>2
    <3>2. queue'[k - 1] = queue[k]
      BY <1>2, <3>1
    <3> QED BY <3>1, <3>2
  <2> QED BY <2>1, <2>2
<1>7. ToSet(queue') = ToSet(queue) \ {queue[i]}
  BY <1>4, <1>5, <1>6 DEF ToSet
<1> QED BY <1>4, <1>7

\* A sound queue stays sound when one request is unlinked.
LEMMA RemovedSound ==
    ASSUME IInv, NEW i \in DOMAIN queue, queue' = RemoveAt(queue, i),
           ToSet(queue') \subseteq DOMAIN heap',
           \A r \in DOMAIN heap' : r \in DOMAIN heap /\ heap'[r] = heap[r]
    PROVE  QueueSound'
<1>1. \A j \in DOMAIN queue' : \E k \in DOMAIN queue \ {i} :
         queue'[j] = queue[k] /\ k = IF j < i THEN j ELSE j + 1
  BY QueueRemoved
<1>2. \A j \in DOMAIN queue' : queue'[j] \in DOMAIN heap'
  BY DEF ToSet
<1>3. QueueLive'
  BY <1>2 DEF QueueLive, Live
<1>4. DOMAIN queue \subseteq Nat /\ DOMAIN queue' \subseteq Nat /\ i \in Nat
  <2>1. queue \in Seq(ReqIds)
    BY DEF IInv, TypeOK, RequestTypes
  <2>2. queue' \in Seq(ReqIds)
    BY <2>1, RemoveAtFacts
  <2> QED BY <2>1, <2>2
<1>5. OnePerAddress'
  <2> SUFFICES ASSUME NEW j \in DOMAIN queue', NEW l \in DOMAIN queue',
                      heap'[queue'[j]].ip = heap'[queue'[l]].ip
               PROVE  j = l
    BY DEF OnePerAddress
  <2>1. PICK k \in DOMAIN queue \ {i} :
              queue'[j] = queue[k] /\ k = IF j < i THEN j ELSE j + 1
    BY <1>1
  <2>2. PICK m \in DOMAIN queue \ {i} :
              queue'[l] = queue[m] /\ m = IF l < i THEN l ELSE l + 1
    BY <1>1
  <2>3. k = m
    BY <1>2, <2>1, <2>2 DEF IInv, QueueSound, OnePerAddress
  <2> QED BY <1>4, <2>1, <2>2, <2>3
<1>6. PacketsInPlace'
  BY <1>1, <1>2 DEF IInv, QueueSound, PacketsInPlace
<1> QED BY <1>3, <1>5, <1>6 DEF QueueSound

-----------------------------------------------------------------------------
(* The whole invariant.                                                    *)

\* The conjuncts of IInv beside the types.
Shape ==
    /\ QueueSound /\ NoLeak /\ AnswerInHand
    /\ HandledQueued /\ SweepCursorQueued /\ LinkQueued
    /\ QueuedUnresolved

\* The queue and its pointers after a packet received and checked (IP_packet):
\* what the queue holds is not touched.
LEMMA ShapeRecvIp ==
    ASSUME IInv, NEW p \in Packets, RecvIp(p)
    PROVE  Shape'
<1> USE DEF IInv
<1>1. Kept
  BY DEF RecvIp, ToOtherDest, Kept
<1>2. QueueSound' /\ NoLeak'
  BY <1>1, KeptSound
<1>3. AnswerInHand'
  BY DEF RecvIp, ToOtherDest, MainAfter, AnswerInHand, TypeOK, ThreadTypes, Threads
<1>4. HandledQueued'
  BY <1>1 DEF RecvIp, ToOtherDest, MainAfter, Kept, HandledQueued, Live, TypeOK,
     ThreadTypes, Threads, Handling
<1>5. SweepCursorQueued'
  BY <1>1 DEF RecvIp, ToOtherDest, Kept, SweepCursorQueued, TypeOK, ThreadTypes, Threads
<1>6. LinkQueued'
  BY <1>1 DEF RecvIp, ToOtherDest, Kept, LinkQueued, TypeOK, ThreadTypes, Threads
<1>7. QueuedUnresolved'
  BY <1>1 DEF RecvIp, ToOtherDest, MainAfter, Kept, QueuedUnresolved, QueueSound,
     QueueLive, Live, Matches, TypeOK, ThreadTypes, Threads
<1> QED BY <1>2, <1>3, <1>4, <1>5, <1>6, <1>7 DEF Shape

\* The queue and its pointers after a cache hit copied for main (sr_arpcache_lookup):
\* only main's place changes, away from "enqueue".
LEMMA ShapeLookupHit ==
    ASSUME IInv, LookupHit
    PROVE  Shape'
<1> USE DEF IInv
<1>1. Kept
  BY DEF LookupHit, Kept
<1>2. QueueSound' /\ NoLeak'
  BY <1>1, KeptSound
<1>3. AnswerInHand'
  BY DEF LookupHit, AnswerInHand
<1>4. HandledQueued'
  BY <1>1 DEF LookupHit, Kept, HandledQueued, Live, TypeOK, ThreadTypes, Threads,
     Handling
<1>5. SweepCursorQueued'
  BY <1>1 DEF LookupHit, SweepCursorQueued
<1>6. LinkQueued'
  BY <1>1 DEF LookupHit, LinkQueued
<1>7. QueuedUnresolved'
  BY <1>1 DEF LookupHit, Kept, QueuedUnresolved, QueueSound, QueueLive, Matches
<1> QED BY <1>2, <1>3, <1>4, <1>5, <1>6, <1>7 DEF Shape

\* The queue and its pointers after a cache miss (sr_arpcache_lookup):
\* main goes to queue a packet whose address the cache does not resolve.
LEMMA ShapeLookupMiss ==
    ASSUME IInv, LookupMiss
    PROVE  Shape'
<1> USE DEF IInv
<1>1. Kept
  BY DEF LookupMiss, mainVars, Kept
<1>2. QueueSound' /\ NoLeak'
  BY <1>1, KeptSound
<1>3. AnswerInHand'
  BY DEF LookupMiss, AnswerInHand
<1>4. HandledQueued'
  BY <1>1 DEF LookupMiss, Kept, HandledQueued, Live, TypeOK, ThreadTypes, Threads,
     Handling
<1>5. SweepCursorQueued'
  BY <1>1 DEF LookupMiss, SweepCursorQueued
<1>6. LinkQueued'
  BY <1>1 DEF LookupMiss, LinkQueued
<1>7. QueuedUnresolved'
  BY <1>1 DEF LookupMiss, mainVars, Kept, QueuedUnresolved, QueueSound, QueueLive,
     Matches
<1> QED BY <1>2, <1>3, <1>4, <1>5, <1>6, <1>7 DEF Shape

\* The queue and its pointers after a packet sent with the address found (packet_to_other_dest):
\* the queue is not touched.
LEMMA ShapeTransmit ==
    ASSUME IInv, Transmit
    PROVE  Shape'
<1> USE DEF IInv
<1>1. Kept
  BY DEF Transmit, Kept
<1>2. QueueSound' /\ NoLeak'
  BY <1>1, KeptSound
<1>3. AnswerInHand'
  BY DEF Transmit, MainAfter, AnswerInHand
<1>4. HandledQueued'
  BY <1>1 DEF Transmit, MainAfter, Kept, HandledQueued, Live, TypeOK, ThreadTypes,
     Threads, Handling
<1>5. SweepCursorQueued'
  BY <1>1 DEF Transmit, SweepCursorQueued
<1>6. LinkQueued'
  BY <1>1 DEF Transmit, LinkQueued
<1>7. QueuedUnresolved'
  BY <1>1 DEF Transmit, MainAfter, Kept, QueuedUnresolved, QueueSound, QueueLive,
     Matches
<1> QED BY <1>2, <1>3, <1>4, <1>5, <1>6, <1>7 DEF Shape

\* The queue and its pointers after one packet of an answered request sent on its way again (arp_packet):
\* the queue is not touched.
LEMMA ShapeBatchNext ==
    ASSUME IInv, BatchNext
    PROVE  Shape'
<1> USE DEF IInv
<1>1. Kept
  BY DEF BatchNext, ToOtherDest, Kept
<1>2. QueueSound' /\ NoLeak'
  BY <1>1, KeptSound
<1>3. AnswerInHand'
  BY DEF BatchNext, ToOtherDest, MainAfter, AnswerInHand, TypeOK, ThreadTypes, Threads
<1>4. HandledQueued'
  BY <1>1 DEF BatchNext, ToOtherDest, MainAfter, Kept, HandledQueued, Live, TypeOK,
     ThreadTypes, Threads, Handling
<1>5. SweepCursorQueued'
  BY <1>1 DEF BatchNext, ToOtherDest, Kept, SweepCursorQueued, TypeOK, ThreadTypes,
     Threads
<1>6. LinkQueued'
  BY <1>1 DEF BatchNext, ToOtherDest, Kept, LinkQueued, TypeOK, ThreadTypes, Threads
<1>7. QueuedUnresolved'
  BY <1>1 DEF BatchNext, ToOtherDest, MainAfter, Kept, QueuedUnresolved, QueueSound,
     QueueLive, Live, Matches, TypeOK, ThreadTypes, Threads
<1> QED BY <1>2, <1>3, <1>4, <1>5, <1>6, <1>7 DEF Shape

\* The queue and its pointers after handle_arpreq finding the request due:
\* the queue is not touched.
LEMMA ShapeCheckDue ==
    ASSUME IInv, NEW t \in Threads, CheckDue(t)
    PROVE  Shape'
<1> USE DEF IInv
<1>1. Kept
  BY DEF CheckDue, mainVars, Kept
<1>2. QueueSound' /\ NoLeak'
  BY <1>1, KeptSound
<1>3. AnswerInHand'
  BY DEF CheckDue, mainVars, AnswerInHand
<1>4. HandledQueued'
  BY <1>1 DEF CheckDue, Kept, HandledQueued, Live, TypeOK, ThreadTypes, Threads,
     MainOnly, SweepOnly
<1>5. SweepCursorQueued'
  BY <1>1 DEF CheckDue, SweepCursorQueued
<1>6. LinkQueued'
  BY <1>1 DEF CheckDue, LinkQueued
<1>7. QueuedUnresolved'
  BY <1>1 DEF CheckDue, mainVars, Kept, QueuedUnresolved, QueueSound, QueueLive, Matches
<1> QED BY <1>2, <1>3, <1>4, <1>5, <1>6, <1>7 DEF Shape

\* The queue and its pointers after handle_arpreq finding the request not due:
\* the queue is not touched.
LEMMA ShapeCheckNotDue ==
    ASSUME IInv, NEW t \in Threads, CheckNotDue(t)
    PROVE  Shape'
<1> USE DEF IInv
<1>1. Kept
  BY DEF CheckNotDue, Return, mainVars, Kept
<1>2. QueueSound' /\ NoLeak'
  BY <1>1, KeptSound
<1>3. AnswerInHand'
  BY DEF CheckNotDue, Return, MainAfter, mainVars, AnswerInHand
<1>4. HandledQueued'
  BY <1>1 DEF CheckNotDue, Return, MainAfter, Kept, HandledQueued, Live, TypeOK,
     ThreadTypes, Threads, Handling
<1>5. SweepCursorQueued'
  BY <1>1 DEF CheckNotDue, Return, Kept, SweepCursorQueued
<1>6. LinkQueued'
  BY <1>1 DEF CheckNotDue, Return, Kept, LinkQueued
<1>7. QueuedUnresolved'
  BY <1>1 DEF CheckNotDue, Return, MainAfter, mainVars, Kept, QueuedUnresolved,
     QueueSound, QueueLive, Matches
<1> QED BY <1>2, <1>3, <1>4, <1>5, <1>6, <1>7 DEF Shape

\* The queue and its pointers after handle_arpreq's test of the retry limit:
\* the queue is not touched.
LEMMA ShapeChoose ==
    ASSUME IInv, NEW t \in Threads, Choose(t)
    PROVE  Shape'
<1> USE DEF IInv
<1>1. Kept
  BY DEF Choose, mainVars, Kept
<1>2. QueueSound' /\ NoLeak'
  BY <1>1, KeptSound
<1>3. AnswerInHand'
  BY DEF Choose, mainVars, AnswerInHand
<1>4. HandledQueued'
  BY <1>1 DEF Choose, Kept, HandledQueued, Live, TypeOK, ThreadTypes, Threads, MainOnly,
     SweepOnly
<1>5. SweepCursorQueued'
  BY <1>1 DEF Choose, SweepCursorQueued
<1>6. LinkQueued'
  BY <1>1 DEF Choose, LinkQueued
<1>7. QueuedUnresolved'
  BY <1>1 DEF Choose, mainVars, Kept, QueuedUnresolved, QueueSound, QueueLive, Matches
<1> QED BY <1>2, <1>3, <1>4, <1>5, <1>6, <1>7 DEF Shape

\* The queue and its pointers after the broadcast of an ARP request is tried (arp_request_send):
\* the request keeps its address and packets.
LEMMA ShapeSend ==
    ASSUME IInv, NEW t \in Threads, Send(t)
    PROVE  Shape'
<1> USE DEF IInv
<1>1. Kept
  <2>1. CASE UNCHANGED heap
    BY <2>1 DEF Send, Crash, mainVars, Kept
  <2>2. CASE Live(req[t]) /\ heap' = [heap EXCEPT ![req[t]].tries = @ + 1]
    BY <2>2 DEF Send, Crash, mainVars, Kept, Live, TypeOK, RequestTypes, Request
  <2> QED BY <2>1, <2>2 DEF Send, Crash
<1>2. QueueSound' /\ NoLeak'
  BY <1>1, KeptSound
<1>3. AnswerInHand'
  BY DEF Send, Crash, threadVars, mainVars, AnswerInHand, TypeOK, ThreadTypes, Threads
<1>4. HandledQueued'
  BY <1>1 DEF Send, Crash, threadVars, Kept, HandledQueued, Live, TypeOK, ThreadTypes,
     Threads, MainOnly, SweepOnly
<1>5. SweepCursorQueued'
  BY <1>1 DEF Send, Crash, threadVars, SweepCursorQueued, TypeOK, ThreadTypes, Threads
<1>6. LinkQueued'
  BY <1>1 DEF Send, Crash, threadVars, LinkQueued, TypeOK, ThreadTypes, Threads
<1>7. QueuedUnresolved'
  BY <1>1 DEF Send, Crash, threadVars, mainVars, Kept, QueuedUnresolved, QueueSound,
     QueueLive, Live, Matches, TypeOK, ThreadTypes, Threads
<1> QED BY <1>2, <1>3, <1>4, <1>5, <1>6, <1>7 DEF Shape

\* The queue and its pointers after a round of the host-unreachable loop of handle_arpreq:
\* the queue is not touched.
LEMMA ShapeBurstRound ==
    ASSUME IInv, NEW t \in Threads, BurstRound(t)
    PROVE  Shape'
<1> USE DEF IInv
<1>1. Kept
  BY DEF BurstRound, Crash, mainVars, Kept
<1>2. QueueSound' /\ NoLeak'
  BY <1>1, KeptSound
<1>3. AnswerInHand'
  BY DEF BurstRound, Crash, threadVars, mainVars, AnswerInHand
<1>4. HandledQueued'
  BY <1>1 DEF BurstRound, Crash, threadVars, Kept, HandledQueued, Live
<1>5. SweepCursorQueued'
  BY <1>1 DEF BurstRound, Crash, threadVars, SweepCursorQueued
<1>6. LinkQueued'
  BY <1>1 DEF BurstRound, Crash, threadVars, LinkQueued
<1>7. QueuedUnresolved'
  BY <1>1 DEF BurstRound, Crash, threadVars, mainVars, Kept, QueuedUnresolved,
     QueueSound, QueueLive, Matches
<1> QED BY <1>2, <1>3, <1>4, <1>5, <1>6, <1>7 DEF Shape

\* The queue and its pointers after the write of req->sent in handle_arpreq:
\* the request keeps its address and packets, or was freed and is not revived.
LEMMA ShapeStamp ==
    ASSUME IInv, NEW t \in Threads, Stamp(t)
    PROVE  Shape'
<1> USE DEF IInv
<1>1. Kept
  <2>1. CASE UNCHANGED heap
    BY <2>1 DEF Stamp, Crash, mainVars, Kept
  <2>2. CASE Live(req[t]) /\ heap' = [heap EXCEPT ![req[t]].age = lag[t]]
    BY <2>2 DEF Stamp, Crash, mainVars, Kept, Live, TypeOK, RequestTypes, Request
  <2> QED BY <2>1, <2>2 DEF Stamp, Crash
<1>2. QueueSound' /\ NoLeak'
  BY <1>1, KeptSound
<1>3. AnswerInHand'
  BY DEF Stamp, Crash, threadVars, mainVars, AnswerInHand, TypeOK, ThreadTypes, Threads
<1>4. HandledQueued'
  BY <1>1 DEF Stamp, Crash, threadVars, Kept, HandledQueued, Live, TypeOK, ThreadTypes,
     Threads, MainOnly, SweepOnly
<1>5. SweepCursorQueued'
  BY <1>1 DEF Stamp, Crash, threadVars, SweepCursorQueued, TypeOK, ThreadTypes, Threads
<1>6. LinkQueued'
  BY <1>1 DEF Stamp, Crash, threadVars, LinkQueued, TypeOK, ThreadTypes, Threads
<1>7. QueuedUnresolved'
  BY <1>1 DEF Stamp, Crash, threadVars, mainVars, Kept, QueuedUnresolved, QueueSound,
     QueueLive, Live, Matches, TypeOK, ThreadTypes, Threads
<1> QED BY <1>2, <1>3, <1>4, <1>5, <1>6, <1>7 DEF Shape

\* The queue and its pointers after the increment of req->times_sent in handle_arpreq:
\* the request keeps its address and packets, or was freed and is not revived.
LEMMA ShapeCount ==
    ASSUME IInv, NEW t \in Threads, Count(t)
    PROVE  Shape'
<1> USE DEF IInv
<1>1. Kept
  <2>1. CASE UNCHANGED heap
    BY <2>1 DEF Count, Crash, mainVars, Kept
  <2>2. CASE Live(req[t]) /\ heap' = [heap EXCEPT ![req[t]].times = loaded[t] + 1]
    BY <2>2 DEF Count, Crash, mainVars, Kept, Live, TypeOK, RequestTypes, Request
  <2> QED BY <2>1, <2>2 DEF Count, Crash
<1>2. QueueSound' /\ NoLeak'
  BY <1>1, KeptSound
<1>3. AnswerInHand'
  BY DEF Count, Crash, Return, MainAfter, threadVars, mainVars, AnswerInHand, TypeOK,
     ThreadTypes, Threads
<1>4. HandledQueued'
  BY <1>1 DEF Count, Crash, Return, MainAfter, threadVars, Kept, HandledQueued, Live,
     TypeOK, ThreadTypes, Threads, Handling
<1>5. SweepCursorQueued'
  BY <1>1 DEF Count, Crash, Return, threadVars, Kept, SweepCursorQueued, TypeOK,
     ThreadTypes, Threads
<1>6. LinkQueued'
  BY <1>1 DEF Count, Crash, Return, threadVars, Kept, LinkQueued, TypeOK, ThreadTypes,
     Threads
<1>7. QueuedUnresolved'
  BY <1>1 DEF Count, Crash, Return, MainAfter, threadVars, mainVars, Kept,
     QueuedUnresolved, QueueSound, QueueLive, Live, Matches, TypeOK, ThreadTypes,
     Threads
<1> QED BY <1>2, <1>3, <1>4, <1>5, <1>6, <1>7 DEF Shape

\* The queue and its pointers after the sweeper waking and expiring entries (sr_arpcache_timeout):
\* it starts on the head of the queue, and no address becomes resolved.
LEMMA ShapeWake ==
    ASSUME IInv, Wake
    PROVE  Shape'
<1> USE DEF IInv
<1>0. queue # << >> => Head(queue) \in ToSet(queue)
  BY DEF TypeOK, RequestTypes, ToSet
<1>1. Kept
  BY DEF Wake, Crash, ExpireEntries, mainVars, Kept
<1>2. QueueSound' /\ NoLeak'
  BY <1>1, KeptSound
<1>3. AnswerInHand'
  BY DEF Wake, Crash, threadVars, mainVars, AnswerInHand, TypeOK, ThreadTypes, Threads
<1>4. HandledQueued'
  <2>1. CASE UNCHANGED <<pc, req>>
    BY <1>1, <2>1 DEF Kept, HandledQueued, Live
  <2>2. CASE /\ queue # << >>
             /\ pc' = [pc EXCEPT !["sweep"] = "check"]
             /\ req' = [req EXCEPT !["sweep"] = Head(queue)]
    BY <1>0, <1>1, <2>2 DEF Kept, HandledQueued, Live, TypeOK, ThreadTypes, Threads, MainOnly, SweepOnly, Handling
  <2> QED BY <2>1, <2>2 DEF Wake, Crash, threadVars
<1>5. SweepCursorQueued'
  <2>1. CASE UNCHANGED <<pc, req>>
    BY <1>1, <2>1 DEF Kept, SweepCursorQueued
  <2>2. CASE /\ queue # << >>
             /\ pc' = [pc EXCEPT !["sweep"] = "check"]
             /\ req' = [req EXCEPT !["sweep"] = Head(queue)]
    BY <1>0, <1>1, <2>2 DEF Kept, SweepCursorQueued, TypeOK, ThreadTypes, Threads, MainOnly, SweepOnly, Handling
  <2> QED BY <2>1, <2>2 DEF Wake, Crash, threadVars
<1>6. LinkQueued'
  BY <1>1 DEF Wake, Crash, LinkQueued
<1>7. QueuedUnresolved'
  BY <1>1 DEF Wake, Crash, ExpireEntries, threadVars, mainVars, Kept, QueuedUnresolved,
     QueueSound, QueueLive, Live, Matches, TypeOK, ThreadTypes, Threads
<1> QED BY <1>2, <1>3, <1>4, <1>5, <1>6, <1>7 DEF Shape

\* The queue and its pointers after the sweeper's step to the next request (sr_arpcache_sweepreqs):
\* the next request is queued, even when the link to it was overwritten.
LEMMA ShapeSweepNext ==
    ASSUME IInv, SweepNext
    PROVE  Shape'
<1> USE DEF IInv
<1>0. /\ \A i \in DOMAIN queue : queue[i] \in ToSet(queue) /\ queue[i] \in ReqIds
      /\ \A i \in DOMAIN queue : i < Len(queue) => i + 1 \in DOMAIN queue
  BY DEF TypeOK, RequestTypes, ToSet
<1>1. Kept
  BY DEF SweepNext, Crash, SweepTo, mainVars, Kept
<1>8. \/ UNCHANGED <<pc, req>>
      \/ \E r \in ToSet(queue) \cup {NoReq} : SweepTo(r)
  <2>1. CASE Crash("stray_link")
    BY <2>1 DEF Crash, threadVars
  <2>2. CASE SweepTo(NoReq) \/ \E r \in ToSet(queue) : SweepTo(r)
    BY <2>2
  <2>3. ASSUME NEW i \in DOMAIN queue,
               SweepTo(IF i < Len(queue) THEN queue[i + 1] ELSE NoReq)
        PROVE  \E r \in ToSet(queue) \cup {NoReq} : SweepTo(r)
    BY <1>0, <2>3
  <2> QED BY <2>1, <2>2, <2>3 DEF SweepNext
<1>2. QueueSound' /\ NoLeak'
  BY <1>1, KeptSound
<1>3. AnswerInHand'
  BY DEF SweepNext, Crash, SweepTo, threadVars, mainVars, AnswerInHand, TypeOK,
     ThreadTypes, Threads
<1>4. HandledQueued'
  <2>1. CASE UNCHANGED <<pc, req>>
    BY <1>1, <2>1 DEF Kept, HandledQueued, Live
  <2>2. ASSUME NEW r \in ToSet(queue) \cup {NoReq}, SweepTo(r)
        PROVE  HandledQueued'
    BY <1>1, <2>2, ConstantsAssumption
       DEF Kept, SweepTo, HandledQueued, Live, TypeOK, ThreadTypes, Threads, MainOnly, SweepOnly, Handling, RequestTypes
  <2> QED BY <1>8, <2>1, <2>2
<1>5. SweepCursorQueued'
  <2>1. CASE UNCHANGED <<pc, req>>
    BY <1>1, <2>1 DEF Kept, SweepCursorQueued, Live
  <2>2. ASSUME NEW r \in ToSet(queue) \cup {NoReq}, SweepTo(r)
        PROVE  SweepCursorQueued'
    BY <1>1, <2>2, ConstantsAssumption
       DEF Kept, SweepTo, SweepCursorQueued, Live, TypeOK, ThreadTypes, Threads, MainOnly, SweepOnly, Handling, RequestTypes
  <2> QED BY <1>8, <2>1, <2>2
<1>6. LinkQueued'
  BY <1>1 DEF SweepNext, Crash, SweepTo, threadVars, Kept, LinkQueued
<1>7. QueuedUnresolved'
  BY <1>1 DEF SweepNext, Crash, SweepTo, threadVars, mainVars, Kept, QueuedUnresolved,
     QueueSound, QueueLive, Live, Matches, TypeOK, ThreadTypes, Threads
<1> QED BY <1>2, <1>3, <1>4, <1>5, <1>6, <1>7 DEF Shape

\* The queue and its pointers after a second passing:
\* the queue is not touched.
LEMMA ShapeTick ==
    ASSUME IInv, Tick
    PROVE  Shape'
<1> USE DEF IInv
<1>1. Kept
  BY DEF Tick, mainVars, Kept, Live, TypeOK, RequestTypes, Request
<1>2. QueueSound' /\ NoLeak'
  BY <1>1, KeptSound
<1>3. AnswerInHand'
  BY DEF Tick, mainVars, AnswerInHand
<1>4. HandledQueued'
  BY <1>1 DEF Tick, Kept, HandledQueued, Live
<1>5. SweepCursorQueued'
  BY <1>1 DEF Tick, SweepCursorQueued
<1>6. LinkQueued'
  BY <1>1 DEF Tick, LinkQueued
<1>7. QueuedUnresolved'
  BY <1>1 DEF Tick, mainVars, Kept, QueuedUnresolved, QueueSound, QueueLive, Live,
     Matches
<1> QED BY <1>2, <1>3, <1>4, <1>5, <1>6, <1>7 DEF Shape

\* The requests of the queue after a new one was put in front.
LEMMA ConsToSet ==
    ASSUME NEW S, NEW s \in Seq(S), NEW e \in S
    PROVE  /\ DOMAIN Cons(e, s) = 1 .. Len(s) + 1
           /\ \A i \in DOMAIN Cons(e, s) \ {1} :
                 i - 1 \in DOMAIN s /\ Cons(e, s)[i] = s[i - 1]
           /\ ToSet(Cons(e, s)) = {e} \cup ToSet(s)
<1> DEFINE c == Cons(e, s)
<1>1. /\ c \in Seq(S) /\ Len(c) = Len(s) + 1 /\ c[1] = e
      /\ \A i \in 1 .. Len(s) : c[i + 1] = s[i]
  BY ConsFacts DEF Cons
<1> HIDE DEF c
<1>2. /\ Len(s) \in Nat /\ DOMAIN s = 1 .. Len(s)
      /\ DOMAIN c = 1 .. Len(s) + 1
  BY <1>1
<1>3. \A i \in DOMAIN c \ {1} : i - 1 \in DOMAIN s /\ c[i] = s[i - 1]
  <2> SUFFICES ASSUME NEW i \in 2 .. Len(s) + 1
               PROVE  i - 1 \in DOMAIN s /\ c[i] = s[i - 1]
    BY <1>2
  <2>1. i - 1 \in 1 .. Len(s) /\ (i - 1) + 1 = i
    BY <1>2
  <2> QED BY <1>1, <1>2, <2>1
<1>4. \A i \in DOMAIN s : i + 1 \in DOMAIN c /\ c[i + 1] = s[i]
  BY <1>1, <1>2
<1>5. 1 \in DOMAIN c
  BY <1>2
<1>6. ToSet(c) = {e} \cup ToSet(s)
  <2>1. ASSUME NEW i \in DOMAIN c PROVE c[i] \in {e} \cup ToSet(s)
    <3>1. CASE i = 1
      BY <1>1, <3>1
    <3>2. CASE i # 1
      BY <1>3, <3>2 DEF ToSet
    <3> QED BY <3>1, <3>2
  <2>2. e \in ToSet(c)
    BY <1>1, <1>5 DEF ToSet
  <2>3. ASSUME NEW i \in DOMAIN s PROVE s[i] \in ToSet(c)
    BY <1>4 DEF ToSet
  <2>4. ToSet(c) \subseteq {e} \cup ToSet(s)
    BY <2>1 DEF ToSet
  <2>5. ToSet(s) \subseteq ToSet(c)
    BY <2>3 DEF ToSet
  <2> QED BY <2>2, <2>4, <2>5
<1> QED BY <1>2, <1>3, <1>6 DEF c

\* Storing a mapping for one address resolves no other.
LEMMA StoreOther ==
    ASSUME NEW ip, NEW m, StoreEntry(ip, m), NEW a, a # ip, Matches(a) = {}
    PROVE  Matches(a)' = {}
<1>1. \A i \in DOMAIN entries : entries[i].ip # a
  BY DEF Matches
<1>2. CASE UNCHANGED entries
  BY <1>1, <1>2 DEF Matches
<1>3. CASE \E i \in Slots : entries' =
             [k \in DOMAIN entries \cup {i} |->
                IF k = i THEN [ip |-> ip, mac |-> m, age |-> 0] ELSE entries[k]]
  <2>1. \A k \in DOMAIN entries' : entries'[k].ip # a
    BY <1>1, <1>3
  <2> QED BY <2>1 DEF Matches
<1> QED BY <1>2, <1>3 DEF StoreEntry

\* The queue and its pointers after a packet queued (sr_arpcache_queuereq):
\* it joins the request for its address, or a new one in front of the queue.
LEMMA ShapeEnqueue ==
    ASSUME IInv, Enqueue
    PROVE  Shape'
<1> USE DEF IInv
<1>1. PICK r \in ReqIds :
         /\ \/ r \in ToSet(queue) /\ heap[r].ip = Dst[pkt] /\ PushPacket(r)
            \/ ~Asked(Dst[pkt]) /\ ~Live(r) /\ PushRequest(r)
         /\ req' = [req EXCEPT !["main"] = r]
  BY DEF Enqueue, FirstFor, ToSet
<1>2. pkt \in Packets
  BY DEF Enqueue, TypeOK, MainTypes
<1>3. /\ queue \in Seq(ReqIds) /\ DOMAIN queue \subseteq Nat
      /\ \A i \in DOMAIN queue : queue[i] \in ToSet(queue) /\ queue[i] \in DOMAIN heap
      /\ \A q \in ToSet(queue) : q \in DOMAIN heap /\ \E i \in DOMAIN queue : q = queue[i]
      /\ \A q \in DOMAIN heap : heap[q] \in Request /\ q \in ReqIds
  BY DEF TypeOK, RequestTypes, QueueSound, QueueLive, Live, ToSet
<1>4. ToSet(queue') = ToSet(queue) \cup {r} /\ DOMAIN heap' = DOMAIN heap \cup {r}
  <2>1. CASE r \in ToSet(queue) /\ PushPacket(r)
    BY <1>3, <2>1 DEF PushPacket
  <2>2. CASE PushRequest(r)
    BY <1>3, <2>2, ConsToSet DEF PushRequest
  <2> QED BY <1>1, <2>1, <2>2
\* The request main got: it waits for the packet's address and holds the packet.
<1>5. /\ heap'[r].ip = Dst[pkt]
      /\ heap'[r].pkts # << >>
      /\ \A p \in ToSet(heap'[r].pkts) : Dst[p] = Dst[pkt]
  <2>1. CASE r \in ToSet(queue) /\ heap[r].ip = Dst[pkt] /\ PushPacket(r)
    <3>1. /\ heap[r].pkts \in Seq(Packets)
          /\ \A p \in ToSet(heap[r].pkts) : Dst[p] = Dst[pkt]
      BY <1>3, <2>1 DEF Request, QueueSound, PacketsInPlace
    <3>2. heap'[r].ip = heap[r].ip /\ heap'[r].pkts = Cons(pkt, heap[r].pkts)
      BY <1>3, <2>1 DEF PushPacket, Request
    <3>3. ToSet(heap'[r].pkts) = {pkt} \cup ToSet(heap[r].pkts) /\ heap'[r].pkts # << >>
      <4>1. Len(Cons(pkt, heap[r].pkts)) = Len(heap[r].pkts) + 1
        BY <1>2, <3>1, ConsFacts
      <4> QED BY <1>2, <3>1, <3>2, <4>1, ConsToSet
    <3> QED BY <2>1, <3>1, <3>2, <3>3
  <2>2. CASE PushRequest(r)
    <3>1. heap'[r].ip = Dst[pkt] /\ heap'[r].pkts = <<pkt>>
      BY <2>2 DEF PushRequest
    <3>2. ToSet(<<pkt>>) = {pkt} /\ <<pkt>> # << >>
      BY DEF ToSet
    <3> QED BY <3>1, <3>2
  <2> QED BY <1>1, <2>1, <2>2
<1>6. \A q \in DOMAIN heap \ {r} : heap'[q] = heap[q]
  BY <1>1 DEF PushPacket, PushRequest
<1>7. QueueSound'
  <2>1. QueueLive'
    <3>1. \A i \in DOMAIN queue' : queue'[i] \in ToSet(queue')
      BY DEF ToSet
    <3> QED BY <1>3, <1>4, <3>1 DEF QueueLive, Live
  <2>2. PacketsInPlace'
    <3>1. \A i \in DOMAIN queue' : queue'[i] = r \/ queue'[i] \in ToSet(queue)
      BY <1>4 DEF ToSet
    <3>2. \A q \in ToSet(queue) \ {r} :
             /\ heap'[q].pkts # << >>
             /\ \A p \in ToSet(heap'[q].pkts) : Dst[p] = heap'[q].ip
      BY <1>3, <1>6 DEF QueueSound, PacketsInPlace
    <3> QED BY <1>5, <3>1, <3>2 DEF PacketsInPlace
  <2>3. CASE r \in ToSet(queue) /\ heap[r].ip = Dst[pkt] /\ PushPacket(r)
    <3>1. \A q \in ToSet(queue) : heap'[q].ip = heap[q].ip
      BY <1>3, <1>5, <1>6, <2>3
    <3>2. OnePerAddress'
      BY <1>3, <2>3, <3>1 DEF PushPacket, QueueSound, OnePerAddress
    <3> QED BY <2>1, <2>2, <3>2 DEF QueueSound
  <2>4. CASE ~Asked(Dst[pkt]) /\ ~Live(r) /\ PushRequest(r)
    <3>1. /\ DOMAIN queue' = 1 .. Len(queue) + 1 /\ queue'[1] = r
          /\ \A i \in DOMAIN queue' \ {1} :
                i - 1 \in DOMAIN queue /\ queue'[i] = queue[i - 1]
      <4>1. queue' = Cons(r, queue)
        BY <2>4 DEF PushRequest
      <4>2. /\ DOMAIN Cons(r, queue) = 1 .. Len(queue) + 1 /\ Cons(r, queue)[1] = r
            /\ \A i \in DOMAIN Cons(r, queue) \ {1} :
                  i - 1 \in DOMAIN queue /\ Cons(r, queue)[i] = queue[i - 1]
        BY <1>3, ConsFacts, ConsToSet
      <4> QED BY <4>1, <4>2
    <3>2. \A i \in DOMAIN queue : heap'[queue[i]].ip = heap[queue[i]].ip
                               /\ heap[queue[i]].ip # Dst[pkt]
      BY <1>3, <1>6, <2>4 DEF Live, Asked
    <3>3. ASSUME NEW i \in DOMAIN queue', NEW j \in DOMAIN queue',
                 heap'[queue'[i]].ip = heap'[queue'[j]].ip
          PROVE  i = j
      <4>1. CASE i = 1 \/ j = 1
        BY <1>5, <3>1, <3>2, <3>3, <4>1
      <4>2. CASE i # 1 /\ j # 1
        <5>1. i - 1 \in DOMAIN queue /\ j - 1 \in DOMAIN queue
          BY <3>1, <4>2
        <5>2. heap[queue[i - 1]].ip = heap[queue[j - 1]].ip
          BY <3>1, <3>2, <3>3, <4>2, <5>1
        <5>3. i - 1 = j - 1
          BY <5>1, <5>2 DEF QueueSound, OnePerAddress
        <5>4. i \in Int /\ j \in Int
          BY <1>3, <3>1
        <5> QED BY <5>3, <5>4
      <4> QED BY <4>1, <4>2
    <3>4. OnePerAddress'
      BY <3>3 DEF OnePerAddress
    <3> QED BY <2>1, <2>2, <3>4 DEF QueueSound
  <2> QED BY <1>1, <2>3, <2>4
<1>8. NoLeak'
  BY <1>1, <1>3, <1>4 DEF Enqueue, NoLeak, AnswerInHand, Live
<1>9. AnswerInHand'
  BY DEF Enqueue, AnswerInHand, TypeOK, ThreadTypes, Threads
<1>10. HandledQueued'
  BY <1>1, <1>4 DEF Enqueue, LockFree, HandledQueued, TypeOK, ThreadTypes, Threads, Handling
<1>11. SweepCursorQueued'
  BY <1>1, <1>4 DEF Enqueue, LockFree, SweepCursorQueued, TypeOK, ThreadTypes, Threads
<1>12. LinkQueued'
  BY <1>4 DEF Enqueue, LockFree, LinkQueued
<1>13. QueuedUnresolved'
  <2>1. \A i \in DOMAIN queue' : queue'[i] = r \/ queue'[i] \in ToSet(queue)
    BY <1>4 DEF ToSet
  <2>2. \A ip : Matches(ip)' = Matches(ip)
    BY DEF Enqueue, Matches
  <2>3. \A q \in ToSet(queue) \ {r} : Matches(heap'[q].ip) = {}
    <3> SUFFICES ASSUME NEW q \in ToSet(queue) \ {r} PROVE Matches(heap'[q].ip) = {}
      OBVIOUS
    <3>1. PICK i \in DOMAIN queue : q = queue[i]
      BY <1>3
    <3>2. Matches(heap[q].ip) = {}
      BY <3>1 DEF QueuedUnresolved
    <3>3. q \in DOMAIN heap \ {r}
      BY <1>3
    <3>4. heap'[q] = heap[q]
      BY <1>6, <3>3
    <3> QED BY <3>2, <3>4
  <2>4. Matches(heap'[r].ip) = {}
    BY <1>5 DEF Enqueue, QueuedUnresolved
  <2>5. pc'["main"] = "check"
    BY DEF Enqueue, TypeOK, ThreadTypes, Threads
  <2> QED BY <2>1, <2>2, <2>3, <2>4, <2>5 DEF QueuedUnresolved
<1> QED BY <1>7, <1>8, <1>9, <1>10, <1>11, <1>12, <1>13 DEF Shape

\* The queue and its pointers after an ARP reply received (sr_arpcache_insert):
\* its request leaves the queue for main's hands, and no queued address becomes resolved.
LEMMA ShapeReply ==
    ASSUME IInv, NEW ip \in IPs, NEW m \in MACs, RecvArpReply(ip, m)
    PROVE  Shape'
<1> USE DEF IInv
<1>1. \A q : q \in ToSet(queue) <=> \E i \in DOMAIN queue : q = queue[i]
  BY DEF ToSet
<1>2. CASE \E i \in DOMAIN queue : FirstFor(ip, i) /\ Unlink(i)
  <2>1. PICK i \in DOMAIN queue : heap[queue[i]].ip = ip /\ Unlink(i)
    BY <1>2 DEF FirstFor
  <2>2. /\ queue' = RemoveAt(queue, i) /\ detached' = queue[i] /\ UNCHANGED heap
        /\ pc' = [pc EXCEPT !["main"] = "batch"]
    BY <2>1 DEF Unlink, RecvArpReply
  <2>3. ToSet(queue') = ToSet(queue) \ {queue[i]}
    BY <2>2, QueueRemoved
  <2>4. detached = NoReq /\ pc["main"] = "idle" /\ pc["sweep"] = "sleep"
    BY DEF RecvArpReply, AnswerInHand, LockFree
  <2>5. queue[i] \in ReqIds /\ queue[i] \in DOMAIN heap /\ ToSet(queue) \subseteq DOMAIN heap
    BY <1>1 DEF TypeOK, RequestTypes, QueueSound, QueueLive, Live
  <2>6. QueueSound'
    BY <2>2, <2>3, <2>5, RemovedSound
  <2>7. NoLeak'
    BY <1>1, <2>2, <2>3, <2>4, <2>5, ConstantsAssumption DEF NoLeak
  <2>8. AnswerInHand'
    BY <2>2, <2>5, ConstantsAssumption DEF AnswerInHand, TypeOK, ThreadTypes, Threads
  <2>9. HandledQueued' /\ SweepCursorQueued' /\ LinkQueued'
    BY <2>2, <2>4 DEF RecvArpReply, HandledQueued, SweepCursorQueued, LinkQueued,
                      TypeOK, ThreadTypes, Threads, Handling
  <2>10. QueuedUnresolved'
    <3>1. \A j \in DOMAIN queue' : \E k \in DOMAIN queue \ {i} : queue'[j] = queue[k]
      BY <2>2, QueueRemoved
    <3>2. \A k \in DOMAIN queue \ {i} : heap[queue[k]].ip # ip
      BY <2>1 DEF QueueSound, OnePerAddress
    <3>3. \A a : a # ip /\ Matches(a) = {} => Matches(a)' = {}
      BY StoreOther DEF RecvArpReply
    <3>4. pc'["main"] = "batch"
      BY <2>2 DEF TypeOK, ThreadTypes, Threads
    <3> QED BY <2>2, <3>1, <3>2, <3>3, <3>4 DEF QueuedUnresolved
  <2> QED BY <2>6, <2>7, <2>8, <2>9, <2>10 DEF Shape
<1>3. CASE ~Asked(ip) /\ UNCHANGED <<queue, detached, batch, pc>>
  <2>1. Kept
    BY <1>3 DEF RecvArpReply, Kept
  <2>2. QueueSound' /\ NoLeak'
    BY <2>1, KeptSound
  <2>3. AnswerInHand' /\ HandledQueued' /\ SweepCursorQueued' /\ LinkQueued'
    BY <1>3 DEF RecvArpReply, AnswerInHand, HandledQueued, SweepCursorQueued, LinkQueued, Live
  <2>4. QueuedUnresolved'
    <3>1. \A j \in DOMAIN queue : heap[queue[j]].ip # ip
      BY <1>3 DEF Asked
    <3>2. \A a : a # ip /\ Matches(a) = {} => Matches(a)' = {}
      BY StoreOther DEF RecvArpReply
    <3> QED BY <1>3, <3>1, <3>2 DEF RecvArpReply, QueuedUnresolved
  <2> QED BY <2>2, <2>3, <2>4 DEF Shape
<1> QED BY <1>2, <1>3 DEF RecvArpReply, FirstFor

\* The queue and its pointers after the answered request freed (arp_packet):
\* it is the one in main's hands, and not queued.
LEMMA ShapeBatchDone ==
    ASSUME IInv, BatchDone
    PROVE  Shape'
<1> USE DEF IInv
<1>1. /\ detached # NoReq /\ detached \in DOMAIN heap /\ detached \notin ToSet(queue)
      /\ DOMAIN heap \ ToSet(queue) = {detached}
  BY DEF BatchDone, AnswerInHand, NoLeak
<1>2. /\ UNCHANGED <<queue, req, entries, nxt, pkt>> /\ detached' = NoReq
      /\ DOMAIN heap' = DOMAIN heap \ {detached}
      /\ \A q \in DOMAIN heap' : heap'[q] = heap[q]
      /\ pc' = [pc EXCEPT !["main"] = "idle"]
  BY DEF BatchDone, Freed
<1>3. \A i \in DOMAIN queue : queue[i] \in ToSet(queue)
  BY DEF ToSet
<1>4. \A i \in DOMAIN queue : queue[i] \in DOMAIN heap' /\ heap'[queue[i]] = heap[queue[i]]
  BY <1>1, <1>2, <1>3 DEF QueueSound, QueueLive, Live
<1>5. QueueSound'
  BY <1>2, <1>4 DEF QueueSound, QueueLive, OnePerAddress, PacketsInPlace, Live
<1>6. NoLeak'
  BY <1>1, <1>2 DEF NoLeak
<1>7. AnswerInHand'
  BY <1>2 DEF AnswerInHand, TypeOK, ThreadTypes, Threads
<1>8. HandledQueued' /\ SweepCursorQueued' /\ LinkQueued'
  BY <1>2 DEF HandledQueued, SweepCursorQueued, LinkQueued, Live,
              TypeOK, ThreadTypes, Threads, Handling
<1>9. QueuedUnresolved'
  BY <1>2, <1>4 DEF QueuedUnresolved, Matches, TypeOK, ThreadTypes, Threads
<1> QED BY <1>5, <1>6, <1>7, <1>8, <1>9 DEF Shape

\* The queue and its pointers after sr_arpreq_destroy by either thread:
\* the request is unlinked and freed, and the sweeper's link leads to a queued one.
LEMMA ShapeDestroy ==
    ASSUME IInv, NEW t \in Threads, Destroy(t)
    PROVE  Shape'
<1> USE DEF IInv
<1>1. CASE Crash("double_free") /\ UNCHANGED <<entries, napped>>
  <2>1. Kept
    BY <1>1 DEF Crash, Kept, mainVars
  <2>2. QueueSound' /\ NoLeak'
    BY <2>1, KeptSound
  <2>3. AnswerInHand' /\ HandledQueued' /\ SweepCursorQueued' /\ LinkQueued'
    BY <1>1 DEF Crash, threadVars, mainVars, AnswerInHand, HandledQueued,
                SweepCursorQueued, LinkQueued, Live
  <2>4. QueuedUnresolved'
    BY <1>1 DEF Crash, threadVars, mainVars, QueuedUnresolved, Matches
  <2> QED BY <2>2, <2>3, <2>4 DEF Shape
<1>2. CASE Live(req[t]) /\ heap' = Freed(req[t])
  <2>1. PICK i \in DOMAIN queue :
          /\ queue[i] = req[t] /\ queue' = RemoveAt(queue, i)
          /\ nxt' = IF t = "sweep" /\ i < Len(queue) THEN queue[i + 1] ELSE nxt
    BY <1>2 DEF Destroy, PosOf, Crash
  <2>2. /\ UNCHANGED <<entries, req, detached, pkt>>
        /\ pc[t] = "destroy" /\ pc' = [pc EXCEPT ![t] = "stamp"]
        /\ t = "main" => pc["sweep"] = "sleep"
    BY <1>2 DEF Destroy, mainVars, LockFree
  <2>3. ToSet(queue') = ToSet(queue) \ {req[t]}
    BY <2>1, QueueRemoved
  <2>4. \A q : q \in ToSet(queue) <=> \E j \in DOMAIN queue : q = queue[j]
    BY DEF ToSet
  <2>5. ToSet(queue) \subseteq DOMAIN heap
    BY <2>4 DEF QueueSound, QueueLive, Live
  <2>6. /\ DOMAIN heap' = DOMAIN heap \ {req[t]}
        /\ \A q \in DOMAIN heap' : q \in DOMAIN heap /\ heap'[q] = heap[q]
    BY <1>2 DEF Freed
  <2>7. ToSet(queue') \subseteq DOMAIN heap'
    BY <2>3, <2>5, <2>6
  <2>8. QueueSound'
    BY <2>1, <2>6, <2>7, RemovedSound
  <2>9. NoLeak'
    BY <2>1, <2>2, <2>3, <2>4, <2>6 DEF NoLeak
  <2>10. AnswerInHand'
    BY <2>2 DEF AnswerInHand, TypeOK, ThreadTypes, Threads
  <2>11. HandledQueued'
    BY <2>2, <2>3, <2>6 DEF HandledQueued, Live, TypeOK, ThreadTypes, Threads, Handling
  <2>12. SweepCursorQueued'
    BY <2>2, <2>3 DEF SweepCursorQueued, TypeOK, ThreadTypes, Threads
  <2>13. LinkQueued'
    <3>1. CASE t = "main"
      BY <2>1, <2>2, <3>1 DEF LinkQueued
    <3>2. CASE t = "sweep"
      <4>1. nxt = NoReq /\ pc'["sweep"] = "stamp"
        BY <2>2, <3>2 DEF LinkQueued, TypeOK, ThreadTypes, Threads
      <4>2. ASSUME i < Len(queue)
            PROVE  queue[i + 1] \in ToSet(queue) \ {req[t]}
        <5>1. i + 1 \in DOMAIN queue /\ i + 1 # i
          BY <4>2 DEF TypeOK, RequestTypes
        <5> QED BY <2>1, <2>4, <5>1 DEF QueueSound, OnePerAddress
      <4> QED BY <2>1, <2>3, <3>2, <4>1, <4>2 DEF LinkQueued
    <3> QED BY <3>1, <3>2 DEF Threads
  <2>14. QueuedUnresolved'
    <3>1. \A j \in DOMAIN queue' : \E k \in DOMAIN queue :
             queue'[j] = queue[k] /\ heap'[queue'[j]] = heap[queue[k]]
      <4>1. \A j \in DOMAIN queue' : queue'[j] \in ToSet(queue')
        BY DEF ToSet
      <4> QED BY <2>1, <2>6, <2>7, <4>1, QueueRemoved
    <3>2. pc'["main"] = "enqueue" => pc["main"] = "enqueue"
      BY <2>2 DEF TypeOK, ThreadTypes, Threads
    <3> QED BY <2>2, <3>1, <3>2 DEF QueuedUnresolved, Matches
  <2> QED BY <2>8, <2>9, <2>10, <2>11, <2>12, <2>13, <2>14 DEF Shape
<1> QED BY <1>1, <1>2 DEF Destroy

-----------------------------------------------------------------------------
\* The empty cache and queue of sr_arpcache_init are sound.
LEMMA ShapeInit == Init => Shape
<1> SUFFICES ASSUME Init PROVE Shape
  OBVIOUS
<1>1. DOMAIN queue = {} /\ DOMAIN heap = {} /\ ToSet(queue) = {} /\ DOMAIN entries = {}
  BY DEF Init, ToSet
<1>2. pc["main"] = "idle" /\ pc["sweep"] = "sleep"
  BY DEF Init, Threads
<1>3. QueueSound /\ NoLeak
  BY <1>1 DEF Init, QueueSound, QueueLive, OnePerAddress, PacketsInPlace, NoLeak
<1>4. AnswerInHand /\ LinkQueued /\ SweepCursorQueued /\ QueuedUnresolved
  BY <1>1, <1>2 DEF Init, AnswerInHand, LinkQueued, SweepCursorQueued, QueuedUnresolved
<1>5. HandledQueued
  BY <1>1 DEF HandledQueued, Live
<1> QED BY <1>3, <1>4, <1>5 DEF Shape

\* Every step keeps the invariant: one case per action.
LEMMA IInvStep == IInv /\ [Next]_vars => IInv'
<1> SUFFICES ASSUME IInv, [Next]_vars PROVE TypeOK' /\ Shape'
  BY DEF IInv, Shape
<1>1. ASSUME NEW p \in Packets, RecvIp(p) PROVE TypeOK' /\ Shape'
  BY <1>1, TypeRecvIp, ShapeRecvIp
<1>2. ASSUME NEW ip \in IPs, NEW m \in MACs, RecvArpReply(ip, m) PROVE TypeOK' /\ Shape'
  BY <1>2, TypeReply, ShapeReply
<1>3. CASE LookupHit
  BY <1>3, TypeLookupHit, ShapeLookupHit
<1>4. CASE LookupMiss
  BY <1>4, TypeLookupMiss, ShapeLookupMiss
<1>5. CASE Transmit
  BY <1>5, TypeTransmit, ShapeTransmit
<1>6. CASE Enqueue
  BY <1>6, TypeEnqueue, ShapeEnqueue
<1>7. CASE BatchNext
  BY <1>7, TypeBatchNext, ShapeBatchNext
<1>8. CASE BatchDone
  BY <1>8, TypeBatchDone, ShapeBatchDone
<1>9. ASSUME NEW t \in Threads, Handle(t) PROVE TypeOK' /\ Shape'
  <2>1. CASE CheckDue(t)
    BY <2>1, TypeCheckDue, ShapeCheckDue
  <2>2. CASE CheckNotDue(t)
    BY <2>2, TypeCheckNotDue, ShapeCheckNotDue
  <2>3. CASE Choose(t)
    BY <2>3, TypeChoose, ShapeChoose
  <2>4. CASE Send(t)
    BY <2>4, TypeSend, ShapeSend
  <2>5. CASE BurstRound(t)
    BY <2>5, TypeBurstRound, ShapeBurstRound
  <2>6. CASE Destroy(t)
    BY <2>6, TypeDestroy, ShapeDestroy
  <2>7. CASE Stamp(t)
    BY <2>7, TypeStamp, ShapeStamp
  <2>8. CASE Count(t)
    BY <2>8, TypeCount, ShapeCount
  <2> QED BY <1>9, <2>1, <2>2, <2>3, <2>4, <2>5, <2>6, <2>7, <2>8 DEF Handle
<1>10. CASE Wake
  BY <1>10, TypeWake, ShapeWake
<1>11. CASE SweepNext
  BY <1>11, TypeSweepNext, ShapeSweepNext
<1>12. CASE Tick
  BY <1>12, TypeTick, ShapeTick
<1>13. CASE UNCHANGED vars
  <2>1. TypeOK'
    BY <1>13 DEF vars, threadVars, mainVars, netVars, IInv, TypeOK, CacheTypes,
                 RequestTypes, ThreadTypes, MainTypes, NetTypes
  <2>2. Shape'
    BY <1>13 DEF vars, threadVars, mainVars, netVars, IInv, Shape, QueueSound, QueueLive,
                 OnePerAddress, PacketsInPlace, NoLeak, AnswerInHand, HandledQueued,
                 SweepCursorQueued, LinkQueued, QueuedUnresolved, Matches, Live
  <2> QED BY <2>1, <2>2
<1> QED
  BY <1>1, <1>2, <1>3, <1>4, <1>5, <1>6, <1>7, <1>8, <1>9, <1>10, <1>11, <1>12, <1>13
     DEF Next, Receive, MainStep, SweepStep, Dead, Threads

\* The invariant of the cache, its queue and the two threads over them.
THEOREM Invariance == Spec => []IInv
<1>1. Init => IInv
  BY TypeInit, ShapeInit DEF IInv, Shape
<1>2. IInv /\ [Next]_vars => IInv'
  BY IInvStep
<1> QED BY <1>1, <1>2, PTL DEF Spec

\* Types: no slot past the end of the table is written, and main has a packet in
\* hand wherever packet_to_other_dest uses one.
THEOREM TypeCorrect == Spec => []TypeOK
<1>1. IInv => TypeOK
  BY DEF IInv
<1> QED BY <1>1, Invariance, PTL

\* The list cache->requests stays well formed under both threads: allocated
\* requests, one per address, each with packets for its address.
THEOREM QueueStaysSound == Spec => []QueueSound
<1>1. IInv => QueueSound
  BY DEF IInv
<1> QED BY <1>1, Invariance, PTL

\* sr_arpreq_destroy and arp_packet leak no request.
THEOREM RequestsNotLeaked == Spec => []NoLeak
<1>1. IInv => NoLeak
  BY DEF IInv
<1> QED BY <1>1, Invariance, PTL

\* No request waits for an address the cache resolves.
THEOREM QueuedStaysUnresolved == Spec => []QueuedUnresolved
<1>1. IInv => QueuedUnresolved
  BY DEF IInv
<1> QED BY <1>1, Invariance, PTL

\* What a step that leaves main's packet in transmission may do to the queue: its
\* requests keep their addresses, and none is added.
NoneAdded ==
    /\ pc["main"] = "transmit" /\ pkt' = pkt
    /\ \A i \in DOMAIN queue' :
          \E j \in DOMAIN queue : heap'[queue'[i]].ip = heap[queue[j]].ip

\* Such a step keeps main's packet from overtaking.
LEMMA NoneAddedKeeps ==
    ASSUME OvertakeOnlyInBatch, NoneAdded
    PROVE  OvertakeOnlyInBatch'
BY DEF OvertakeOnlyInBatch, NoneAdded, Asked

\* A queued request is an allocated one.
LEMMA QueuedAllocated ==
    ASSUME IInv
    PROVE  \A i \in DOMAIN queue : queue[i] \in DOMAIN heap
BY DEF IInv, QueueSound, QueueLive, Live

\* A step of handle_arpreq by the sweeper adds no request to the queue and changes no
\* address; main's steps of it do not lead to a transmission.
LEMMA HandleAddsNone ==
    ASSUME IInv, NEW t \in Threads, Handle(t), pc'["main"] = "transmit"
    PROVE  NoneAdded
<1>1. pc[t] \in Handling
  BY DEF Handle, CheckDue, CheckNotDue, Choose, Send, BurstRound, Destroy, Stamp, Count, Handling
<1>2. t = "sweep" /\ pc["main"] = "transmit" /\ pkt' = pkt
  <2>1. pc \in [Threads -> MainOnly \cup SweepOnly \cup Handling]
    BY DEF IInv, TypeOK, ThreadTypes
  <2>2. t = "main" => pc'["main"] \in Handling \cup {"idle", "batch"}
    BY <1>1, <2>1 DEF Handle, CheckDue, CheckNotDue, Choose, Send, BurstRound, Destroy, Stamp,
       Count, AfterChoice, Return, MainAfter, Crash, threadVars, Handling, Threads
  <2>3. t = "sweep" => pc'["main"] = pc["main"]
    BY <2>1 DEF Handle, CheckDue, CheckNotDue, Choose, Send, BurstRound, Destroy, Stamp,
       Count, AfterChoice, Return, Crash, threadVars, Threads
  <2>4. pkt' = pkt
    BY DEF Handle, CheckDue, CheckNotDue, Choose, Send, BurstRound, Destroy, Stamp,
       Count, Crash, mainVars
  <2> QED BY <2>2, <2>3, <2>4 DEF Handling, Threads
<1>3. CASE Destroy(t)
  <2>1. CASE UNCHANGED <<queue, heap>>
    BY <1>2, <2>1 DEF NoneAdded
  <2>2. CASE Live(req[t]) /\ heap' = Freed(req[t])
    <3>1. PICK i \in DOMAIN queue : queue[i] = req[t] /\ queue' = RemoveAt(queue, i)
      BY <1>3, <2>2 DEF Destroy, PosOf, Crash
    <3>2. \A j \in DOMAIN queue' : \E k \in DOMAIN queue \ {i} : queue'[j] = queue[k]
      BY <3>1, QueueRemoved DEF IInv
    <3>3. \A k \in DOMAIN queue \ {i} : heap'[queue[k]] = heap[queue[k]]
      BY <2>2, <3>1, QueuedAllocated DEF Freed, IInv, QueueSound, OnePerAddress
    <3> QED BY <1>2, <3>2, <3>3 DEF NoneAdded
  <2> QED BY <1>3, <2>1, <2>2 DEF Destroy, Crash
<1>4. CASE ~Destroy(t)
  <2>1. UNCHANGED queue
    BY <1>4 DEF Handle, CheckDue, CheckNotDue, Choose, Send, BurstRound, Stamp, Count, Crash
  <2>2. \A q \in DOMAIN heap : heap[q] \in Request
    BY DEF IInv, TypeOK, RequestTypes
  <2>3. \A q \in DOMAIN heap : heap'[q].ip = heap[q].ip
    <3>1. CASE UNCHANGED heap
      BY <3>1
    <3>2. CASE Send(t)
      BY <2>2, <3>2 DEF Send, Crash, Request
    <3>3. CASE Stamp(t)
      BY <2>2, <3>3 DEF Stamp, Crash, Request
    <3>4. CASE Count(t)
      BY <2>2, <3>4 DEF Count, Crash, Request
    <3>5. Send(t) \/ Stamp(t) \/ Count(t) \/ UNCHANGED heap
      BY <1>4 DEF Handle, CheckDue, CheckNotDue, Choose, BurstRound, Crash
    <3> QED BY <3>1, <3>2, <3>3, <3>4, <3>5
  <2> QED BY <1>2, <2>1, <2>3, QueuedAllocated DEF NoneAdded
<1> QED BY <1>3, <1>4

\* One step: main comes to a transmission from a hit, which only an address without a
\* request can have, and no step of the sweeper puts a request on the queue.
LEMMA OvertakeStep ==
    ASSUME IInv, OvertakeOnlyInBatch, [Next]_vars
    PROVE  OvertakeOnlyInBatch'
<1> SUFFICES ASSUME pc'["main"] = "transmit" PROVE OvertakeOnlyInBatch'
  BY DEF OvertakeOnlyInBatch
<1>1. pc \in [Threads -> MainOnly \cup SweepOnly \cup Handling]
  BY DEF IInv, TypeOK, ThreadTypes
<1>2. CASE LookupHit
  <2>1. Matches(Dst[pkt]) # {}
    BY <1>2 DEF LookupHit, LookupResult
  <2>2. ~Asked(Dst[pkt])
    BY <2>1 DEF IInv, QueuedUnresolved, Asked
  <2> QED BY <1>2, <2>2 DEF LookupHit, OvertakeOnlyInBatch, Asked
<1>3. CASE Receive \/ LookupMiss \/ Transmit \/ Enqueue \/ BatchNext \/ BatchDone
  <2>1. pc'["main"] # "transmit"
    BY <1>1, <1>3 DEF Receive, RecvIp, RecvArpReply, Unlink, ToOtherDest, LookupMiss, Transmit,
       Enqueue, BatchNext, BatchDone, MainAfter, Threads
  <2> QED BY <2>1
<1>4. ASSUME NEW t \in Threads, Handle(t) PROVE OvertakeOnlyInBatch'
  BY <1>4, HandleAddsNone, NoneAddedKeeps
<1>5. CASE Wake \/ SweepNext
  <2>1. pc["main"] = "transmit" /\ pkt' = pkt
    BY <1>1, <1>5 DEF Wake, SweepNext, SweepTo, Crash, threadVars, mainVars, Threads
  <2>2. UNCHANGED <<queue, heap>>
    BY <1>5 DEF Wake, SweepNext, SweepTo, Crash
  <2> QED BY <2>1, <2>2, NoneAddedKeeps DEF NoneAdded
<1>6. CASE Tick
  <2>1. pc["main"] = "transmit" /\ UNCHANGED <<pkt, queue>>
    BY <1>6 DEF Tick, mainVars
  <2>2. \A q \in DOMAIN heap : heap[q] \in Request /\ heap'[q] = [heap[q] EXCEPT !.age = Older(@, 2)]
    BY <1>6 DEF Tick, IInv, TypeOK, RequestTypes
  <2>3. \A q \in DOMAIN heap : heap'[q].ip = heap[q].ip
    BY <2>2 DEF Request
  <2> QED BY <2>1, <2>3, QueuedAllocated, NoneAddedKeeps DEF NoneAdded
<1>7. CASE UNCHANGED vars
  BY <1>7 DEF vars, threadVars, mainVars, OvertakeOnlyInBatch, Asked
<1> QED
  BY <1>2, <1>3, <1>4, <1>5, <1>6, <1>7 DEF Next, MainStep, SweepStep, Dead, Threads

\* Packets to one next hop overtake each other only when they are released together.
THEOREM OvertakingOnlyInBatch == Spec => []OvertakeOnlyInBatch
<1>1. Init => OvertakeOnlyInBatch
  BY DEF Init, OvertakeOnlyInBatch, Threads
<1>2. IInv /\ OvertakeOnlyInBatch /\ [Next]_vars => OvertakeOnlyInBatch'
  BY OvertakeStep
<1> QED BY <1>1, <1>2, Invariance, PTL DEF Spec
=============================================================================

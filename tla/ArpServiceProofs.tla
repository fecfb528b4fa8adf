-------------------------- MODULE ArpServiceProofs --------------------------
(***************************************************************************)
(* Proofs of what ArpCache does with its packets, for every value of its   *)
(* constants: each is in one place, it is given up after its retries, sent *)
(* to an announced address, and so the promises of ArpService are kept.    *)
(***************************************************************************)
EXTENDS ArpCacheProofs

\* main holds a packet only within packet_to_other_dest, and the rest of an answered
\* request only until the request is freed.
InHand ==
    /\ pkt # NoPkt => pc["main"] \in {"lookup", "transmit", "enqueue"}
    /\ detached = NoReq => batch = << >>

\* A packet the router holds passed the tests that packet_to_other_dest starts with.
Routable == \A p \in Packets : fate[p] = "held" => Ttl[p] > 1 /\ Dst[p] \in Routed

\* What HeldOnce needs to be inductive, beside IInv.
HInv == HeldOnce /\ InHand /\ Routable

-----------------------------------------------------------------------------
(* Sequences without repetition.                                           *)

\* A new packet put before a list keeps the list free of repetitions.
LEMMA ConsInjective ==
    ASSUME NEW S, NEW s \in Seq(S), NEW e \in S, IsInjective(s), e \notin ToSet(s)
    PROVE  IsInjective(Cons(e, s))
<1> DEFINE c == Cons(e, s)
<1>1. /\ DOMAIN c = 1 .. Len(s) + 1 /\ c[1] = e
      /\ \A i \in DOMAIN c \ {1} : i - 1 \in DOMAIN s /\ c[i] = s[i - 1]
  BY ConsFacts, ConsToSet
<1> HIDE DEF c
<1>2. \A i \in DOMAIN s : s[i] # e
  BY DEF ToSet
<1> SUFFICES ASSUME NEW a \in DOMAIN c, NEW b \in DOMAIN c, c[a] = c[b] PROVE a = b
  BY DEF IsInjective, c
<1>3. CASE a = 1 \/ b = 1
  BY <1>1, <1>2, <1>3
<1>4. CASE a # 1 /\ b # 1
  <2>1. a - 1 \in DOMAIN s /\ b - 1 \in DOMAIN s /\ s[a - 1] = s[b - 1]
    BY <1>1, <1>4
  <2>2. a - 1 = b - 1
    BY <2>1 DEF IsInjective
  <2>3. a \in Int /\ b \in Int /\ Len(s) \in Nat
    BY <1>1
  <2> QED BY <2>2, <2>3
<1> QED BY <1>3, <1>4

\* The first of a list that repeats nothing is not in the rest of it.
LEMMA HeadOnce ==
    ASSUME NEW S, NEW s \in Seq(S), s # << >>, IsInjective(s)
    PROVE  /\ Head(s) \in S /\ Tail(s) \in Seq(S)
           /\ ToSet(s) = {Head(s)} \cup ToSet(Tail(s))
           /\ Head(s) \notin ToSet(Tail(s))
           /\ IsInjective(Tail(s))
<1> DEFINE t == Tail(s)
<1>1. /\ Len(s) \in Nat /\ Len(s) >= 1 /\ DOMAIN s = 1 .. Len(s) /\ Head(s) = s[1]
      /\ t \in Seq(S) /\ DOMAIN t = 1 .. Len(s) - 1
      /\ \A i \in 1 .. Len(s) - 1 : t[i] = s[i + 1]
  OBVIOUS
<1> HIDE DEF t
<1>2. \A i \in DOMAIN s \ {1} : i - 1 \in DOMAIN t /\ t[i - 1] = s[i]
  <2> SUFFICES ASSUME NEW i \in 2 .. Len(s) PROVE i - 1 \in DOMAIN t /\ t[i - 1] = s[i]
    BY <1>1
  <2>1. i - 1 \in 1 .. Len(s) - 1 /\ (i - 1) + 1 = i
    BY <1>1
  <2> QED BY <1>1, <2>1
<1>3. \A i \in DOMAIN t : i + 1 \in DOMAIN s \ {1} /\ t[i] = s[i + 1]
  BY <1>1
<1>4. ToSet(s) = {Head(s)} \cup ToSet(t)
  <2>1. \A i \in DOMAIN s : s[i] \in {Head(s)} \cup ToSet(t)
    BY <1>1, <1>2 DEF ToSet
  <2>2. 1 \in DOMAIN s /\ Head(s) \in ToSet(s)
    BY <1>1 DEF ToSet
  <2>3. \A i \in DOMAIN t : t[i] \in ToSet(s)
    BY <1>3 DEF ToSet
  <2>4. ToSet(s) \subseteq {Head(s)} \cup ToSet(t) /\ ToSet(t) \subseteq ToSet(s)
    BY <2>1, <2>3 DEF ToSet
  <2> QED BY <2>2, <2>4
<1>5. Head(s) \notin ToSet(t)
  <2>1. \A i \in DOMAIN t : t[i] # s[1]
    BY <1>1, <1>3 DEF IsInjective
  <2> QED BY <1>1, <2>1 DEF ToSet
<1>6. IsInjective(t)
  <2> SUFFICES ASSUME NEW a \in DOMAIN t, NEW b \in DOMAIN t, t[a] = t[b] PROVE a = b
    BY DEF IsInjective
  <2>1. a + 1 = b + 1
    BY <1>3 DEF IsInjective
  <2> QED BY <1>1, <2>1
<1> QED BY <1>1, <1>4, <1>5, <1>6 DEF t

-----------------------------------------------------------------------------
(* Every packet in its place.                                              *)

\* What a step that leaves the packets where they are does.
Calm ==
    /\ Kept
    /\ UNCHANGED <<pkt, batch, detached, fate>>
    /\ pkt # NoPkt => pc'["main"] \in {"lookup", "transmit", "enqueue"}

\* The facts about the queue that the steps below rest on.
LEMMA QueueFacts ==
    ASSUME IInv
    PROVE  /\ queue \in Seq(ReqIds) /\ batch \in Seq(Packets)
           /\ pc \in [Threads -> MainOnly \cup SweepOnly \cup Handling]
           /\ \A r \in ToSet(queue) : r \in DOMAIN heap
           /\ \A r \in DOMAIN heap : heap[r] \in Request /\ heap[r].pkts \in Seq(Packets)
           /\ \A r \in ToSet(queue) : ToSet(heap[r].pkts) \subseteq Packets
<1>1. /\ queue \in Seq(ReqIds) /\ batch \in Seq(Packets)
      /\ pc \in [Threads -> MainOnly \cup SweepOnly \cup Handling]
      /\ \A r \in DOMAIN heap : heap[r] \in Request /\ heap[r].pkts \in Seq(Packets)
  BY DEF IInv, TypeOK, RequestTypes, MainTypes, ThreadTypes, Request
<1>2. \A r \in ToSet(queue) : r \in DOMAIN heap
  BY DEF IInv, QueueSound, QueueLive, Live, ToSet
<1>3. \A r \in ToSet(queue) : ToSet(heap[r].pkts) \subseteq Packets
  <2> SUFFICES ASSUME NEW r \in ToSet(queue), NEW i \in DOMAIN heap[r].pkts
               PROVE  heap[r].pkts[i] \in Packets
    BY DEF ToSet
  <2>1. heap[r].pkts \in Seq(Packets)
    BY <1>1, <1>2
  <2> QED BY <2>1
<1> QED BY <1>1, <1>2, <1>3

\* Such a step keeps each packet in its place.
LEMMA CalmHeld ==
    ASSUME IInv, HInv, Calm
    PROVE  HInv'
<1>1. \A r \in ToSet(queue) : heap'[r].pkts = heap[r].pkts
  BY QueueFacts DEF Calm, Kept
<1>2. UNCHANGED queue
  BY DEF Calm, Kept
<1>3. \A p : Waits(p)' <=> Waits(p)
  BY <1>1, <1>2 DEF Waits
<1>4. HeldSomewhere'
  BY <1>3 DEF Calm, HInv, HeldOnce, HeldSomewhere
<1>5. NotHeldTwice'
  BY <1>1, <1>2, <1>3 DEF Calm, HInv, HeldOnce, NotHeldTwice
<1>6. InHand' /\ Routable'
  BY DEF Calm, HInv, InHand, Routable
<1> QED BY <1>4, <1>5, <1>6 DEF HInv, HeldOnce

\* The steps of handle_arpreq but sr_arpreq_destroy leave the packets alone.
LEMMA CalmHandle ==
    ASSUME IInv, HInv, NEW t \in Threads, Handle(t), ~Destroy(t)
    PROVE  Calm
<1>1. UNCHANGED <<queue, pkt, batch, detached, fate>>
  BY DEF Handle, CheckDue, CheckNotDue, Choose, Send, BurstRound, Stamp, Count, Crash, mainVars
<1>2. Kept
  <2>1. CASE UNCHANGED heap
    BY <1>1, <2>1 DEF Kept
  <2>0. \A q \in DOMAIN heap : heap[q] \in Request
    BY QueueFacts
  <2>2. CASE Send(t)
    <3>1. \A q \in DOMAIN heap : heap'[q].ip = heap[q].ip /\ heap'[q].pkts = heap[q].pkts
      <4>1. CASE Live(req[t]) /\ heap' = [heap EXCEPT ![req[t]].tries = @ + 1]
        <5>1. \A q \in DOMAIN heap : heap[q] \in
                [ip : IPs, age : 0 .. 2, times : Nat, tries : Nat, pkts : Seq(Packets)]
          BY <2>0 DEF Request
        <5> QED BY <4>1, <5>1 DEF Live
      <4> QED BY <2>2, <4>1 DEF Send, Crash
    <3>2. DOMAIN heap' = DOMAIN heap
      BY <2>2 DEF Send, Crash
    <3> QED BY <1>1, <3>1, <3>2 DEF Kept
  <2>3. CASE Stamp(t)
    <3>1. \A q \in DOMAIN heap : heap'[q].ip = heap[q].ip /\ heap'[q].pkts = heap[q].pkts
      BY <2>0, <2>3 DEF Stamp, Crash, Request
    <3>2. DOMAIN heap' = DOMAIN heap
      BY <2>3 DEF Stamp, Crash
    <3> QED BY <1>1, <3>1, <3>2 DEF Kept
  <2>4. CASE Count(t)
    <3>1. \A q \in DOMAIN heap : heap'[q].ip = heap[q].ip /\ heap'[q].pkts = heap[q].pkts
      BY <2>0, <2>4 DEF Count, Crash, Request
    <3>2. DOMAIN heap' = DOMAIN heap
      BY <2>4 DEF Count, Crash
    <3> QED BY <1>1, <3>1, <3>2 DEF Kept
  <2>5. Send(t) \/ Stamp(t) \/ Count(t) \/ UNCHANGED heap
    BY DEF Handle, CheckDue, CheckNotDue, Choose, BurstRound, Crash
  <2> QED BY <2>1, <2>2, <2>3, <2>4, <2>5
<1>3. pc[t] \in Handling
  BY DEF Handle, CheckDue, CheckNotDue, Choose, Send, BurstRound, Stamp, Count, Handling
<1>4. t = "sweep" => pc'["main"] = pc["main"]
  BY QueueFacts DEF Handle, CheckDue, CheckNotDue, Choose, Send, BurstRound, Stamp,
     Count, AfterChoice, Return, Crash, threadVars, Threads
<1>5. pkt # NoPkt => t = "sweep"
  BY <1>3 DEF HInv, InHand, Handling, Threads
<1> QED BY <1>1, <1>2, <1>4, <1>5 DEF Calm, HInv, InHand

\* A lookup, the sweeper's own steps and the clock leave the packets alone.
LEMMA CalmOther ==
    ASSUME IInv, HInv, LookupHit \/ LookupMiss \/ Wake \/ SweepNext \/ Tick \/ UNCHANGED vars
    PROVE  Calm
<1>1. UNCHANGED <<queue, pkt, batch, detached, fate>>
  BY DEF LookupHit, LookupMiss, Wake, SweepNext, SweepTo, Tick, Crash, vars, mainVars
<1>2. Kept
  <2>1. CASE UNCHANGED heap
    BY <1>1, <2>1 DEF Kept
  <2>2. CASE Tick
    BY <1>1, <2>2, QueueFacts DEF Tick, Request, Kept
  <2>3. Tick \/ UNCHANGED heap
    BY DEF LookupHit, LookupMiss, Wake, SweepNext, SweepTo, Crash, vars
  <2> QED BY <2>1, <2>2, <2>3
<1>3. pkt # NoPkt => pc'["main"] \in {"lookup", "transmit", "enqueue"}
  BY QueueFacts DEF HInv, InHand, LookupHit, LookupMiss, Wake, SweepNext, SweepTo, Tick, Crash,
     vars, threadVars, Threads
<1> QED BY <1>1, <1>2, <1>3 DEF Calm

\* A packet that is received has no place yet; it is refused, or main takes it in hand.
LEMMA HeldRecvIp ==
    ASSUME IInv, HInv, NEW p \in Packets, RecvIp(p)
    PROVE  HInv'
<1>1. /\ UNCHANGED <<queue, heap, batch, detached>> /\ pkt = NoPkt /\ fate[p] = "new"
      /\ fate \in [Packets -> Fates]
  BY DEF RecvIp, HInv, InHand, IInv, TypeOK, NetTypes
<1>2. \A q : Waits(q)' <=> Waits(q)
  BY <1>1 DEF Waits
<1>3. ~Waits(p) /\ p \notin ToSet(batch) /\ p # NoPkt
  BY <1>1, ConstantsAssumption DEF HInv, HeldOnce, HeldSomewhere
<1>4. /\ \/ fate' = [fate EXCEPT ![p] = "exceeded"] /\ UNCHANGED pkt
         \/ fate' = [fate EXCEPT ![p] = "unreachable"] /\ UNCHANGED pkt
         \/ /\ Ttl[p] > 1 /\ Dst[p] \in Routed
            /\ fate' = [fate EXCEPT ![p] = "held"] /\ pkt' = p
            /\ pc'["main"] = "lookup"
  BY QueueFacts DEF RecvIp, ToOtherDest, Threads
<1>5. HeldSomewhere'
  BY <1>1, <1>2, <1>3, <1>4, ConstantsAssumption DEF HInv, HeldOnce, HeldSomewhere
<1>6. NotHeldTwice'
  BY <1>1, <1>2, <1>3, <1>4 DEF HInv, HeldOnce, NotHeldTwice
<1>7. InHand'
  BY <1>1, <1>4 DEF HInv, InHand
<1>8. Routable'
  BY <1>1, <1>4 DEF HInv, Routable
<1> QED BY <1>5, <1>6, <1>7, <1>8 DEF HInv, HeldOnce

\* A packet that is transmitted leaves main's hands, and was nowhere else.
LEMMA HeldTransmit ==
    ASSUME IInv, HInv, Transmit
    PROVE  HInv'
<1>1. /\ UNCHANGED <<queue, heap, batch, detached>> /\ pkt' = NoPkt
      /\ pkt \in Packets /\ fate \in [Packets -> Fates] /\ fate' = [fate EXCEPT ![pkt] = "sent"]
  BY DEF Transmit, IInv, TypeOK, NetTypes, MainTypes
<1>2. \A q : Waits(q)' <=> Waits(q)
  BY <1>1 DEF Waits
<1>3. ~Waits(NoPkt) /\ NoPkt \notin ToSet(batch)
  <2>1. ~Waits(NoPkt)
    BY QueueFacts, ConstantsAssumption DEF Waits
  <2>2. NoPkt \notin ToSet(batch)
    BY QueueFacts, ConstantsAssumption DEF ToSet
  <2> QED BY <2>1, <2>2
<1>4. HeldSomewhere'
  BY <1>1, <1>2, ConstantsAssumption DEF HInv, HeldOnce, HeldSomewhere, NotHeldTwice
<1>5. NotHeldTwice'
  BY <1>1, <1>2, <1>3 DEF HInv, HeldOnce, NotHeldTwice
<1>6. InHand' /\ Routable'
  BY <1>1 DEF HInv, InHand, Routable
<1> QED BY <1>4, <1>5, <1>6 DEF HInv, HeldOnce

\* sr_arpcache_queuereq: the packet joins a queued request, or a new one that it is
\* the only packet of; the other requests are as they were.
LEMMA Enqueued ==
    ASSUME IInv, Enqueue
    PROVE  \E r \in ReqIds :
              /\ ToSet(queue') = ToSet(queue) \cup {r}
              /\ \A q \in ToSet(queue) \ {r} : heap'[q] = heap[q]
              /\ \A q \in DOMAIN heap \ {r} : heap'[q] = heap[q]
              /\ DOMAIN heap' = DOMAIN heap \cup {r}
              /\ req' = [req EXCEPT !["main"] = r]
              /\ \/ /\ r \in ToSet(queue)
                    /\ heap'[r] = [heap[r] EXCEPT !.pkts = Cons(pkt, @)]
                 \/ /\ r \notin DOMAIN heap
                    /\ heap'[r] = [ip |-> Dst[pkt], age |-> 2, times |-> 0, tries |-> 0, pkts |-> <<pkt>>]
<1>1. PICK r \in ReqIds :
         /\ \/ r \in ToSet(queue) /\ PushPacket(r)
            \/ ~Live(r) /\ PushRequest(r)
         /\ req' = [req EXCEPT !["main"] = r]
  BY DEF Enqueue, ToSet
<1>2. \A q \in ToSet(queue) : q \in DOMAIN heap
  BY QueueFacts
<1>3. CASE r \in ToSet(queue) /\ PushPacket(r)
  <2>1. r \in DOMAIN heap /\ DOMAIN heap = DOMAIN heap \cup {r} /\ ToSet(queue) = ToSet(queue) \cup {r}
    BY <1>2, <1>3
  <2> QED BY <1>1, <1>2, <1>3, <2>1 DEF PushPacket
<1>4. CASE ~Live(r) /\ PushRequest(r)
  <2>1. ToSet(queue') = ToSet(queue) \cup {r}
    BY <1>4, QueueFacts, ConsToSet DEF PushRequest
  <2>2. r \notin DOMAIN heap
    BY <1>4 DEF Live
  <2> QED BY <1>1, <1>2, <1>4, <2>1, <2>2 DEF PushRequest
<1> QED BY <1>1, <1>3, <1>4

\* A packet that is queued goes from main's hands to one request.
LEMMA HeldEnqueue ==
    ASSUME IInv, HInv, Enqueue
    PROVE  HInv'
<1>1. PICK r \in ReqIds :
         /\ ToSet(queue') = ToSet(queue) \cup {r}
         /\ \A q \in ToSet(queue) \ {r} : heap'[q] = heap[q]
         /\ \/ /\ r \in ToSet(queue)
               /\ heap'[r] = [heap[r] EXCEPT !.pkts = Cons(pkt, @)]
            \/ /\ r \notin DOMAIN heap
               /\ heap'[r] = [ip |-> Dst[pkt], age |-> 2, times |-> 0, tries |-> 0, pkts |-> <<pkt>>]
  BY Enqueued
<1>2. /\ UNCHANGED <<batch, detached, fate>> /\ pkt' = NoPkt /\ pkt \in Packets
  BY DEF Enqueue, IInv, TypeOK, MainTypes
<1>3. ~Waits(pkt) /\ pkt \notin ToSet(batch)
  BY DEF HInv, HeldOnce, NotHeldTwice
<1>4. /\ IsInjective(heap'[r].pkts)
      /\ ToSet(heap'[r].pkts) = {pkt} \cup (IF r \in ToSet(queue) THEN ToSet(heap[r].pkts) ELSE {})
  <2>1. CASE r \in ToSet(queue) /\ heap'[r] = [heap[r] EXCEPT !.pkts = Cons(pkt, @)]
    <3>1. heap[r] \in Request /\ heap[r].pkts \in Seq(Packets)
      BY <2>1, QueueFacts
    <3>2. heap'[r].pkts = Cons(pkt, heap[r].pkts)
      BY <2>1, <3>1 DEF Request
    <3>3. IsInjective(heap[r].pkts) /\ pkt \notin ToSet(heap[r].pkts)
      BY <1>3, <2>1 DEF HInv, HeldOnce, NotHeldTwice, Waits
    <3> QED BY <1>2, <2>1, <3>1, <3>2, <3>3, ConsInjective, ConsToSet
  <2>2. CASE r \notin DOMAIN heap /\ heap'[r].pkts = <<pkt>>
    <3>1. r \notin ToSet(queue)
      BY <2>2, QueueFacts
    <3>2. IsInjective(<<pkt>>) /\ ToSet(<<pkt>>) = {pkt}
      BY DEF IsInjective, ToSet
    <3> QED BY <2>2, <3>1, <3>2
  <2> QED BY <1>1, <2>1, <2>2
<1>5. \A p : Waits(p)' <=> Waits(p) \/ p = pkt
  BY <1>1, <1>4 DEF Waits
<1>6. HeldSomewhere'
  BY <1>2, <1>5, ConstantsAssumption DEF HInv, HeldOnce, HeldSomewhere
<1>7. NotHeldTwice'
  <2>1. NoPkt \notin ToSet(batch) /\ ~Waits(NoPkt) /\ NoPkt # pkt
    <3>1. ~Waits(NoPkt)
      BY QueueFacts, ConstantsAssumption DEF Waits
    <3>2. NoPkt \notin ToSet(batch)
      BY QueueFacts, ConstantsAssumption DEF ToSet
    <3> QED BY <1>2, <3>1, <3>2, ConstantsAssumption
  <2>2. \A p \in ToSet(batch') \cup {pkt'} : ~Waits(p)'
    BY <1>2, <1>3, <1>5, <2>1 DEF HInv, HeldOnce, NotHeldTwice
  <2>3. \A q \in ToSet(queue') : IsInjective(heap'[q].pkts)
    BY <1>1, <1>4 DEF HInv, HeldOnce, NotHeldTwice
  <2>4. \A q \in ToSet(queue) \ {r} : ToSet(heap'[r].pkts) \cap ToSet(heap'[q].pkts) = {}
    BY <1>1, <1>3, <1>4 DEF HInv, HeldOnce, NotHeldTwice, Waits
  <2>5. \A q, s \in ToSet(queue') : q # s => ToSet(heap'[q].pkts) \cap ToSet(heap'[s].pkts) = {}
    BY <1>1, <2>4 DEF HInv, HeldOnce, NotHeldTwice
  <2> QED BY <1>2, <2>1, <2>2, <2>3, <2>5 DEF HInv, HeldOnce, NotHeldTwice
<1>8. InHand' /\ Routable'
  BY <1>2 DEF HInv, InHand, Routable
<1> QED BY <1>6, <1>7, <1>8 DEF HInv, HeldOnce

\* A reply takes the packets of one request from the queue to main.
LEMMA HeldReply ==
    ASSUME IInv, HInv, NEW ip \in IPs, NEW m \in MACs, RecvArpReply(ip, m)
    PROVE  HInv'
<1>1. /\ UNCHANGED <<heap, pkt, fate>> /\ pc["main"] = "idle"
      /\ pkt = NoPkt /\ batch = << >>
  BY DEF RecvArpReply, HInv, InHand, IInv, AnswerInHand
<1>2. CASE \E i \in DOMAIN queue : Unlink(i)
  <2>1. PICK i \in DOMAIN queue : Unlink(i)
    BY <1>2
  <2>2. /\ queue' = RemoveAt(queue, i) /\ detached' = queue[i] /\ batch' = heap[queue[i]].pkts
    BY <2>1 DEF Unlink
  <2> DEFINE r == queue[i]
  <2>3. ToSet(queue') = ToSet(queue) \ {r} /\ r \in ToSet(queue) /\ r \in ReqIds
    <3>1. ToSet(queue') = ToSet(queue) \ {queue[i]}
      BY <2>2, QueueRemoved
    <3>2. queue[i] \in ToSet(queue)
      BY DEF ToSet
    <3>3. queue[i] \in ReqIds
      BY QueueFacts
    <3> QED BY <3>1, <3>2, <3>3
  <2> HIDE DEF r
  <2>4. \A p : Waits(p) <=> Waits(p)' \/ p \in ToSet(batch')
    BY <1>1, <2>2, <2>3 DEF Waits, r
  <2>5. \A p \in ToSet(batch') : ~Waits(p)'
    BY <1>1, <2>2, <2>3 DEF Waits, r, HInv, HeldOnce, NotHeldTwice
  <2>6. ToSet(batch) = {}
    BY <1>1 DEF ToSet
  <2>7. HeldSomewhere'
    BY <1>1, <2>4, <2>6 DEF HInv, HeldOnce, HeldSomewhere
  <2>8. ~Waits(NoPkt)
    BY QueueFacts, ConstantsAssumption DEF Waits
  <2>9. NotHeldTwice'
    BY <1>1, <2>2, <2>3, <2>4, <2>5, <2>8 DEF r, HInv, HeldOnce, NotHeldTwice
  <2>10. InHand'
    BY <1>1, <2>2, <2>3, ConstantsAssumption DEF InHand, r
  <2> QED BY <1>1, <2>7, <2>9, <2>10 DEF HInv, HeldOnce, Routable
<1>3. CASE UNCHANGED <<queue, detached, batch, pc>>
  <2>1. Calm
    BY <1>1, <1>3 DEF Calm, Kept
  <2> QED BY <2>1, CalmHeld
<1> QED BY <1>2, <1>3 DEF RecvArpReply

\* The next packet of an answered request comes to main's hands again; it passes the
\* tests of packet_to_other_dest as it did before.
LEMMA HeldBatchNext ==
    ASSUME IInv, HInv, BatchNext
    PROVE  HInv'
<1> DEFINE p == Head(batch)
<1>1. /\ UNCHANGED <<queue, heap, detached>> /\ batch # << >> /\ batch' = Tail(batch)
      /\ pc["main"] = "batch" /\ pkt = NoPkt /\ fate \in [Packets -> Fates]
      /\ detached # NoReq
  BY DEF BatchNext, HInv, InHand, IInv, TypeOK, NetTypes, AnswerInHand
<1>2. /\ p \in Packets
      /\ ToSet(batch) = {p} \cup ToSet(batch') /\ p \notin ToSet(batch')
      /\ IsInjective(batch') /\ ToSet(batch') \subseteq ToSet(batch)
  BY <1>1, QueueFacts, HeadOnce DEF HInv, HeldOnce, NotHeldTwice
<1> HIDE DEF p
<1>3. fate[p] = "held" /\ Ttl[p] > 1 /\ Dst[p] \in Routed
  BY <1>2 DEF HInv, HeldOnce, HeldSomewhere, Routable
<1>4. pkt' = p /\ fate' = [fate EXCEPT ![p] = "held"] /\ pc'["main"] = "lookup"
  <2>1. ToOtherDest(p)
    BY DEF BatchNext, p
  <2>2. ~(Ttl[p] <= 1)
    BY <1>2, <1>3, ConstantsAssumption
  <2> QED BY <1>3, <2>1, <2>2, QueueFacts DEF ToOtherDest, Threads
<1>5. fate' = fate
  BY <1>1, <1>2, <1>3, <1>4
<1>6. \A q : Waits(q)' <=> Waits(q)
  BY <1>1 DEF Waits
<1>7. HeldSomewhere'
  BY <1>1, <1>2, <1>4, <1>5, <1>6, ConstantsAssumption DEF HInv, HeldOnce, HeldSomewhere
<1>8. NotHeldTwice'
  BY <1>1, <1>2, <1>4, <1>6 DEF HInv, HeldOnce, NotHeldTwice
<1>9. InHand' /\ Routable'
  BY <1>1, <1>4, <1>5 DEF HInv, InHand, Routable
<1> QED BY <1>7, <1>8, <1>9 DEF HInv, HeldOnce

\* The answered request is freed when no packet of it is left.
LEMMA HeldBatchDone ==
    ASSUME IInv, HInv, BatchDone
    PROVE  HInv'
<1>1. /\ UNCHANGED <<queue, pkt, batch, fate>> /\ batch = << >> /\ pkt = NoPkt
      /\ \A r \in DOMAIN heap \ {detached} : heap'[r] = heap[r]
  BY DEF BatchDone, Freed, HInv, InHand
<1>2. \A r \in ToSet(queue) : heap'[r] = heap[r]
  BY <1>1, QueueFacts DEF IInv, NoLeak, AnswerInHand, BatchDone
<1>3. \A q : Waits(q)' <=> Waits(q)
  BY <1>1, <1>2 DEF Waits
<1>4. HeldSomewhere'
  BY <1>1, <1>3 DEF HInv, HeldOnce, HeldSomewhere
<1>5. NotHeldTwice'
  BY <1>1, <1>2, <1>3 DEF HInv, HeldOnce, NotHeldTwice
<1> QED BY <1>1, <1>4, <1>5 DEF HInv, HeldOnce, InHand, Routable

\* sr_arpreq_destroy unlinks one request, frees it and drops its packets.
LEMMA Destroyed ==
    ASSUME IInv, NEW t \in Threads, Destroy(t), ~Crash("double_free")
    PROVE  /\ req[t] \in ToSet(queue) /\ ToSet(queue') = ToSet(queue) \ {req[t]}
           /\ DOMAIN heap' = DOMAIN heap \ {req[t]}
           /\ \A r \in DOMAIN heap \ {req[t]} : heap'[r] = heap[r]
           /\ fate' = [p \in Packets |->
                         IF p \in ToSet(heap[req[t]].pkts) THEN "dropped" ELSE fate[p]]
           /\ UNCHANGED <<pkt, batch, detached, req>>
           /\ pc[t] = "destroy" /\ pc' = [pc EXCEPT ![t] = "stamp"]
<1>1. PICK i \in DOMAIN queue : queue[i] = req[t] /\ queue' = RemoveAt(queue, i)
  BY DEF Destroy, PosOf
<1>2. ToSet(queue') = ToSet(queue) \ {req[t]}
  BY <1>1, QueueRemoved
<1>3. req[t] \in ToSet(queue)
  BY <1>1 DEF ToSet
<1> QED BY <1>2, <1>3 DEF Destroy, Freed, mainVars

\* The packets of a request that is given up are dropped and held no more.
LEMMA HeldDestroy ==
    ASSUME IInv, HInv, NEW t \in Threads, Destroy(t)
    PROVE  HInv'
<1>1. CASE Crash("double_free")
  <2>1. Calm
    BY <1>1 DEF Crash, Calm, Kept, threadVars, mainVars, HInv, InHand
  <2> QED BY <2>1, CalmHeld
<1>2. CASE ~Crash("double_free")
  <2> DEFINE r == req[t]
  <2>1. /\ r \in ToSet(queue) /\ ToSet(queue') = ToSet(queue) \ {r}
        /\ \A q \in ToSet(queue) \ {r} : heap'[q] = heap[q]
        /\ fate' = [p \in Packets |-> IF p \in ToSet(heap[r].pkts) THEN "dropped" ELSE fate[p]]
        /\ UNCHANGED <<pkt, batch, detached>>
        /\ pc[t] = "destroy" /\ pc' = [pc EXCEPT ![t] = "stamp"]
    BY <1>2, Destroyed, QueueFacts
  <2> HIDE DEF r
  <2>2. \A p : Waits(p) <=> Waits(p)' \/ p \in ToSet(heap[r].pkts)
    BY <2>1 DEF Waits
  <2>3. \A p \in ToSet(heap[r].pkts) :
           /\ ~Waits(p)' /\ p \notin ToSet(batch) /\ pkt # p
    BY <2>1 DEF HInv, HeldOnce, NotHeldTwice, Waits
  <2>4. HeldSomewhere'
    BY <2>1, <2>2, <2>3 DEF HInv, HeldOnce, HeldSomewhere
  <2>5. NotHeldTwice'
    BY <2>1, <2>2 DEF HInv, HeldOnce, NotHeldTwice
  <2>6. InHand'
    <3>1. t = "main" => pkt = NoPkt
      BY <2>1 DEF HInv, InHand
    <3>2. t = "sweep" => pc'["main"] = pc["main"]
      BY <2>1, QueueFacts DEF Threads
    <3> QED BY <2>1, <3>1, <3>2 DEF HInv, InHand, Threads
  <2>7. Routable'
    BY <2>1 DEF HInv, Routable
  <2> QED BY <2>4, <2>5, <2>6, <2>7 DEF HInv, HeldOnce
<1> QED BY <1>1, <1>2

\* Every step keeps each packet in its place.
LEMMA HeldStep ==
    ASSUME IInv, HInv, [Next]_vars
    PROVE  HInv'
<1>1. ASSUME NEW t \in Threads, Handle(t) PROVE HInv'
  BY <1>1, HeldDestroy, CalmHandle, CalmHeld
<1>2. ASSUME NEW p \in Packets, RecvIp(p) PROVE HInv'
  BY <1>2, HeldRecvIp
<1>3. ASSUME NEW ip \in IPs, NEW m \in MACs, RecvArpReply(ip, m) PROVE HInv'
  BY <1>3, HeldReply
<1>4. CASE LookupHit \/ LookupMiss \/ Wake \/ SweepNext \/ Tick \/ UNCHANGED vars
  BY <1>4, CalmOther, CalmHeld
<1>5. CASE Transmit
  BY <1>5, HeldTransmit
<1>6. CASE Enqueue
  BY <1>6, HeldEnqueue
<1>7. CASE BatchNext
  BY <1>7, HeldBatchNext
<1>8. CASE BatchDone
  BY <1>8, HeldBatchDone
<1> QED BY <1>1, <1>2, <1>3, <1>4, <1>5, <1>6, <1>7, <1>8
     DEF Next, Receive, MainStep, SweepStep, Dead, Threads

\* At the start the router has no packet.
LEMMA HeldInit == Init => HInv
<1> SUFFICES ASSUME Init PROVE HInv
  OBVIOUS
<1>1. ToSet(queue) = {} /\ ToSet(batch) = {} /\ pkt = NoPkt /\ batch = << >>
  BY DEF Init, ToSet
<1>2. \A p : ~Waits(p)
  BY <1>1 DEF Waits
<1>3. HeldSomewhere
  BY <1>1, <1>2, ConstantsAssumption DEF Init, HeldSomewhere
<1>4. NotHeldTwice
  BY <1>1, <1>2 DEF NotHeldTwice, IsInjective
<1>5. InHand /\ Routable
  BY <1>1 DEF Init, InHand, Routable
<1> QED BY <1>3, <1>4, <1>5 DEF HInv, HeldOnce

\* What holds of the packets whatever the threads and the network do.
LEMMA HeldInvariance == Spec => []HInv
<1>1. IInv /\ HInv /\ [Next]_vars => HInv'
  BY HeldStep
<1> QED BY <1>1, HeldInit, Invariance, PTL DEF Spec

\* A packet the router holds is on one queued request, in main's hands or in the rest
\* of one answered request: sr_arpcache_queuereq, sr_arpcache_insert, arp_packet and
\* sr_arpreq_destroy neither lose one nor keep it twice.
THEOREM PacketsHeldOnce == Spec => []HeldOnce
<1>1. HInv => HeldOnce
  BY DEF HInv
<1> QED BY <1>1, HeldInvariance, PTL

-----------------------------------------------------------------------------
(* Addresses.                                                              *)

\* The cache holds only what replies announced, and so does main's copy of an entry,
\* for the destination of the packet in its hands.
EntriesAnnounced == \A i \in DOMAIN entries : <<entries[i].ip, entries[i].mac>> \in learned
CopyAnnounced == pc["main"] = "transmit" => <<Dst[pkt], mac>> \in learned
AInv == EntriesAnnounced /\ CopyAnnounced /\ NoMisdelivery

\* Announcements are never forgotten.
LEMMA LearnedGrows ==
    ASSUME [Next]_vars
    PROVE  learned \subseteq learned'
<1>1. ASSUME NEW t \in Threads, Handle(t) PROVE learned' = learned
  BY <1>1 DEF Handle, CheckDue, CheckNotDue, Choose, Send, BurstRound, Destroy, Stamp, Count,
     Crash, netVars
<1>2. ASSUME NEW p \in Packets, RecvIp(p) PROVE learned' = learned
  BY <1>2 DEF RecvIp, netVars
<1>3. ASSUME NEW ip \in IPs, NEW m \in MACs, RecvArpReply(ip, m) PROVE learned \subseteq learned'
  BY <1>3 DEF RecvArpReply
<1>4. CASE LookupHit \/ LookupMiss \/ Transmit \/ Enqueue \/ BatchNext \/ BatchDone
  BY <1>4 DEF LookupHit, LookupMiss, Transmit, Enqueue, BatchNext, BatchDone, netVars
<1>5. CASE Wake \/ SweepNext \/ Tick \/ UNCHANGED vars
  BY <1>5 DEF Wake, SweepNext, SweepTo, Tick, Crash, netVars, vars
<1> QED BY <1>1, <1>2, <1>3, <1>4, <1>5 DEF Next, Receive, MainStep, SweepStep, Dead, Threads

\* Where the entries of the cache come from: sr_arpcache_insert stores what the reply
\* announced, the sweep only removes, and time makes older.
LEMMA EntriesKept ==
    ASSUME IInv, AInv, [Next]_vars
    PROVE  EntriesAnnounced'
<1>0. learned \subseteq learned'
  BY LearnedGrows
<1>1. CASE UNCHANGED entries
  BY <1>0, <1>1 DEF AInv, EntriesAnnounced
<1>2. CASE \E ip \in IPs, m \in MACs : RecvArpReply(ip, m)
  <2>1. PICK ip \in IPs, m \in MACs : RecvArpReply(ip, m)
    BY <1>2
  <2>2. <<ip, m>> \in learned' /\ StoreEntry(ip, m)
    BY <2>1 DEF RecvArpReply
  <2>3. CASE \E i \in Slots : entries' =
               [k \in DOMAIN entries \cup {i} |->
                  IF k = i THEN [ip |-> ip, mac |-> m, age |-> 0] ELSE entries[k]]
    BY <1>0, <2>2, <2>3 DEF AInv, EntriesAnnounced
  <2> QED BY <1>1, <2>2, <2>3 DEF StoreEntry
<1>3. CASE Wake
  BY <1>0, <1>3 DEF Wake, ExpireEntries, AInv, EntriesAnnounced
<1>4. CASE Tick
  <2>1. \A i \in DOMAIN entries : entries[i] \in Entry
    BY DEF IInv, TypeOK, CacheTypes
  <2>2. DOMAIN entries' = DOMAIN entries
    BY <1>4 DEF Tick
  <2>3. \A i \in DOMAIN entries : entries'[i].ip = entries[i].ip /\ entries'[i].mac = entries[i].mac
    BY <1>4, <2>1 DEF Tick, Entry
  <2> QED BY <1>0, <2>2, <2>3 DEF AInv, EntriesAnnounced
<1>5. \/ UNCHANGED entries \/ Wake \/ Tick
      \/ \E ip \in IPs, m \in MACs : RecvArpReply(ip, m)
  <2>1. ASSUME NEW t \in Threads, Handle(t) PROVE UNCHANGED entries
    BY <2>1 DEF Handle, CheckDue, CheckNotDue, Choose, Send, BurstRound, Destroy, Stamp, Count
  <2>2. ASSUME NEW p \in Packets, RecvIp(p) PROVE UNCHANGED entries
    BY <2>2 DEF RecvIp
  <2>3. CASE LookupHit \/ LookupMiss \/ Transmit \/ Enqueue \/ BatchNext \/ BatchDone
    BY <2>3 DEF LookupHit, LookupMiss, Transmit, Enqueue, BatchNext, BatchDone
  <2>4. CASE SweepNext \/ UNCHANGED vars
    BY <2>4 DEF SweepNext, vars
  <2> QED BY <2>1, <2>2, <2>3, <2>4 DEF Next, Receive, MainStep, SweepStep, Dead, Threads
<1> QED BY <1>1, <1>2, <1>3, <1>4, <1>5

\* A step that leaves main between the lookup and the transmission is of somebody else.
LEMMA StaysInTransmit ==
    ASSUME IInv, [Next]_vars, pc'["main"] = "transmit"
    PROVE  LookupHit \/ (pc["main"] = "transmit" /\ UNCHANGED <<pkt, mac>>)
<1>0. pc \in [Threads -> MainOnly \cup SweepOnly \cup Handling]
  BY QueueFacts
<1>1. ASSUME NEW t \in Threads, Handle(t)
      PROVE  pc["main"] = "transmit" /\ UNCHANGED <<pkt, mac>>
  <2>1. pc[t] \in Handling
    BY <1>1 DEF Handle, CheckDue, CheckNotDue, Choose, Send, BurstRound, Destroy, Stamp, Count, Handling
  <2>2. t = "main" => pc'["main"] \in Handling \cup {"idle", "batch"}
    BY <1>0, <1>1, <2>1 DEF Handle, CheckDue, CheckNotDue, Choose, Send, BurstRound, Destroy, Stamp,
       Count, AfterChoice, Return, MainAfter, Crash, threadVars, Handling, Threads
  <2>3. t = "sweep" => pc'["main"] = pc["main"]
    BY <1>0, <1>1 DEF Handle, CheckDue, CheckNotDue, Choose, Send, BurstRound, Destroy, Stamp,
       Count, AfterChoice, Return, Crash, threadVars, Threads
  <2>4. UNCHANGED <<pkt, mac>>
    BY <1>1 DEF Handle, CheckDue, CheckNotDue, Choose, Send, BurstRound, Destroy, Stamp, Count,
       Crash, mainVars
  <2> QED BY <2>2, <2>3, <2>4 DEF Handling, Threads
<1>2. CASE Receive \/ LookupMiss \/ Transmit \/ Enqueue \/ BatchNext \/ BatchDone
  <2>1. pc'["main"] # "transmit"
    BY <1>0, <1>2 DEF Receive, RecvIp, RecvArpReply, Unlink, ToOtherDest, LookupMiss, Transmit,
       Enqueue, BatchNext, BatchDone, MainAfter, Threads
  <2> QED BY <2>1
<1>3. CASE Wake \/ SweepNext \/ Tick \/ UNCHANGED vars
  BY <1>0, <1>3 DEF Wake, SweepNext, SweepTo, Tick, Crash, threadVars, mainVars, vars, Threads
<1> QED BY <1>1, <1>2, <1>3 DEF Next, MainStep, SweepStep, Dead, Threads

\* What becomes "sent" in a step: main's packet, when it is transmitted.
LEMMA SentByTransmit ==
    ASSUME IInv, [Next]_vars
    PROVE  \/ Transmit
           \/ /\ sentTo' = sentTo
              /\ \A p \in Packets : fate'[p] = "sent" => fate[p] = "sent"
<1>0. fate \in [Packets -> Fates]
  BY DEF IInv, TypeOK, NetTypes
<1>1. ASSUME NEW t \in Threads, Handle(t)
      PROVE  sentTo' = sentTo /\ \A p \in Packets : fate'[p] = "sent" => fate[p] = "sent"
  <2>1. CASE Destroy(t)
    BY <2>1 DEF Destroy, Crash, netVars
  <2>2. CASE ~Destroy(t)
    BY <1>1, <2>2 DEF Handle, CheckDue, CheckNotDue, Choose, Send, BurstRound, Stamp, Count,
       Crash, netVars
  <2> QED BY <2>1, <2>2
<1>2. ASSUME NEW q \in Packets, RecvIp(q)
      PROVE  sentTo' = sentTo /\ \A p \in Packets : fate'[p] = "sent" => fate[p] = "sent"
  BY <1>0, <1>2 DEF RecvIp, ToOtherDest, netVars
<1>3. ASSUME BatchNext
      PROVE  sentTo' = sentTo /\ \A p \in Packets : fate'[p] = "sent" => fate[p] = "sent"
  BY <1>0, <1>3 DEF BatchNext, ToOtherDest, netVars
<1>4. CASE \E ip \in IPs, m \in MACs : RecvArpReply(ip, m)
  BY <1>4 DEF RecvArpReply
<1>5. CASE LookupHit \/ LookupMiss \/ Enqueue \/ BatchDone
  BY <1>5 DEF LookupHit, LookupMiss, Enqueue, BatchDone, netVars
<1>6. CASE Wake \/ SweepNext \/ Tick \/ UNCHANGED vars
  BY <1>6 DEF Wake, SweepNext, SweepTo, Tick, Crash, netVars, vars
<1> QED BY <1>1, <1>2, <1>3, <1>4, <1>5, <1>6 DEF Next, Receive, MainStep, SweepStep, Dead, Threads

\* No step sends to, stores or copies an address that was not announced.
LEMMA AnnouncedStep ==
    ASSUME IInv, AInv, [Next]_vars
    PROVE  AInv'
<1>0. learned \subseteq learned'
  BY LearnedGrows
<1>1. EntriesAnnounced'
  BY EntriesKept
<1>2. CopyAnnounced'
  <2> SUFFICES ASSUME pc'["main"] = "transmit" PROVE <<Dst[pkt'], mac'>> \in learned'
    BY DEF CopyAnnounced
  <2>1. CASE LookupHit
    <3>1. PICK i \in DOMAIN entries : entries[i].ip = Dst[pkt] /\ mac' = entries[i].mac
      BY <2>1 DEF LookupHit, LookupResult, Matches
    <3>2. <<Dst[pkt], mac'>> \in learned /\ pkt' = pkt
      BY <2>1, <3>1 DEF LookupHit, AInv, EntriesAnnounced
    <3> QED BY <1>0, <3>2
  <2>2. CASE pc["main"] = "transmit" /\ UNCHANGED <<pkt, mac>>
    BY <1>0, <2>2 DEF AInv, CopyAnnounced
  <2> QED BY <2>1, <2>2, StaysInTransmit
<1>3. NoMisdelivery'
  <2>1. CASE Transmit
    <3>1. /\ fate' = [fate EXCEPT ![pkt] = "sent"] /\ sentTo' = [sentTo EXCEPT ![pkt] = mac]
          /\ pc["main"] = "transmit" /\ fate \in [Packets -> Fates]
          /\ sentTo \in [Packets -> MACs \cup {NoMac}]
      BY <2>1 DEF Transmit, IInv, TypeOK, NetTypes
    <3> QED BY <1>0, <3>1 DEF AInv, CopyAnnounced, NoMisdelivery
  <2>2. CASE ~Transmit
    BY <1>0, <2>2, SentByTransmit DEF AInv, NoMisdelivery
  <2> QED BY <2>1, <2>2
<1> QED BY <1>1, <1>2, <1>3 DEF AInv

\* What holds of the addresses whatever expires and whatever is announced.
LEMMA AnnouncedInvariance == Spec => []AInv
<1>1. Init => AInv
  BY DEF Init, AInv, EntriesAnnounced, CopyAnnounced, NoMisdelivery, Threads
<1>2. IInv /\ AInv /\ [Next]_vars => AInv'
  BY AnnouncedStep
<1> QED BY <1>1, <1>2, Invariance, PTL DEF Spec

\* Every packet that was sent went to an address some reply announced for its next
\* hop, although sr_arpcache_lookup's copy is used after the lock is given back.
THEOREM PacketsSentAsAnnounced == Spec => []NoMisdelivery
<1>1. AInv => NoMisdelivery
  BY DEF AInv
<1> QED BY <1>1, AnnouncedInvariance, PTL

-----------------------------------------------------------------------------
(* Tries and their count.                                                  *)

\* The increments of times_sent a thread still owes a request: it has called
\* arp_request_send and is on its way to the write of req->times_sent++.
Increments(t, r) == IF pc[t] \in {"stamp", "count"} /\ req[t] = r THEN 1 ELSE 0
Owed(r) == Increments("main", r) + Increments("sweep", r)

\* times_sent and the increments owed are covered by tries; so is what a thread
\* read for its increment, which the other thread may have overtaken since.
Paid(r) ==
    /\ heap[r].times + Owed(r) <= heap[r].tries
    /\ \A t \in Threads : pc[t] = "count" /\ req[t] = r => loaded[t] + Owed(r) <= heap[r].tries
TInv == \A r \in DOMAIN heap : Paid(r)

\* The numbers that TInv is about.
LEMMA CountTypes ==
    ASSUME IInv
    PROVE  /\ pc \in [Threads -> MainOnly \cup SweepOnly \cup Handling]
           /\ req \in [Threads -> ReqIds \cup {NoReq}]
           /\ loaded \in [Threads -> Nat] /\ lag \in [Threads -> 0 .. 2]
           /\ \A r \in DOMAIN heap :
                 heap[r] \in [ip : IPs, age : 0 .. 2, times : Nat, tries : Nat, pkts : Seq(Packets)]
BY DEF IInv, TypeOK, ThreadTypes, RequestTypes, Request

\* A step that writes no count, and takes no thread to or from the increment, keeps
\* the counts paid for.
LEMMA PaidKept ==
    ASSUME TInv, DOMAIN heap' \subseteq DOMAIN heap,
           \A r \in DOMAIN heap' : heap'[r].times = heap[r].times /\ heap'[r].tries = heap[r].tries,
           \A t \in Threads :
              \/ pc'[t] = pc[t] /\ req'[t] = req[t] /\ loaded'[t] = loaded[t]
              \/ pc[t] \notin {"stamp", "count"} /\ pc'[t] \notin {"stamp", "count"}
    PROVE  TInv'
<1>1. \A r : Owed(r)' = Owed(r)
  BY DEF Owed, Increments, Threads
<1>2. \A r \in DOMAIN heap' : Paid(r)'
  BY <1>1 DEF TInv, Paid, Threads
<1> QED BY <1>2 DEF TInv

\* arp_request_send: one try more, and one increment more owed for it.
LEMMA PaidSend ==
    ASSUME IInv, TInv, NEW t \in Threads, Send(t)
    PROVE  TInv'
<1>1. CASE Crash("null_route")
  BY <1>1, PaidKept DEF Crash, threadVars
<1>2. CASE ~Crash("null_route")
  <2>1. /\ heap' = IF Live(req[t]) THEN [heap EXCEPT ![req[t]].tries = @ + 1] ELSE heap
        /\ pc[t] = "send" /\ pc' = [pc EXCEPT ![t] = "stamp"] /\ UNCHANGED <<req, loaded>>
    BY <1>2 DEF Send
  <2>2. DOMAIN heap' = DOMAIN heap
    BY <2>1
  <2>3. \A r \in DOMAIN heap : heap'[r].times = heap[r].times
          /\ heap'[r].tries = IF r = req[t] THEN heap[r].tries + 1 ELSE heap[r].tries
    BY <2>1, CountTypes DEF Live
  <2>4. \A r \in DOMAIN heap : Owed(r)' = IF r = req[t] THEN Owed(r) + 1 ELSE Owed(r)
    BY <2>1, CountTypes DEF Owed, Increments, Threads
  <2>5. \A r : Owed(r) \in Nat
    BY DEF Owed, Increments
  <2>6. \A r \in DOMAIN heap : Paid(r)'
    BY <2>1, <2>3, <2>4, <2>5, CountTypes DEF TInv, Paid
  <2> QED BY <2>2, <2>6 DEF TInv
<1> QED BY <1>1, <1>2

\* The read of req->times_sent++.
LEMMA PaidStamp ==
    ASSUME IInv, TInv, NEW t \in Threads, Stamp(t)
    PROVE  TInv'
<1>1. CASE Crash("use_after_free")
  BY <1>1, PaidKept DEF Crash, threadVars
<1>2. CASE ~Crash("use_after_free")
  <2>1. /\ heap' = IF Live(req[t]) THEN [heap EXCEPT ![req[t]].age = lag[t]] ELSE heap
        /\ loaded' = [loaded EXCEPT ![t] = IF Live(req[t]) THEN heap[req[t]].times ELSE 0]
        /\ pc[t] = "stamp" /\ pc' = [pc EXCEPT ![t] = "count"] /\ UNCHANGED req
    BY <1>2 DEF Stamp
  <2>2. DOMAIN heap' = DOMAIN heap
    BY <2>1
  <2>3. \A r \in DOMAIN heap : heap'[r].times = heap[r].times /\ heap'[r].tries = heap[r].tries
    BY <2>1, CountTypes DEF Live
  <2>4. \A r \in DOMAIN heap : Owed(r)' = Owed(r)
    BY <2>1, CountTypes DEF Owed, Increments, Threads
  <2>5. \A r \in DOMAIN heap : Paid(r)'
    BY <2>1, <2>3, <2>4, CountTypes DEF TInv, Paid, Live
  <2> QED BY <2>2, <2>5 DEF TInv
<1> QED BY <1>1, <1>2

\* The write of req->times_sent++: the other thread's increments are still covered.
LEMMA PaidCount ==
    ASSUME IInv, TInv, NEW t \in Threads, Count(t)
    PROVE  TInv'
<1>1. CASE Crash("use_after_free")
  BY <1>1, PaidKept DEF Crash, threadVars
<1>2. CASE ~Crash("use_after_free")
  <2>1. /\ heap' = IF Live(req[t]) THEN [heap EXCEPT ![req[t]].times = loaded[t] + 1] ELSE heap
        /\ pc[t] = "count" /\ Return(t)
    BY <1>2 DEF Count
  <2>2. DOMAIN heap' = DOMAIN heap
    BY <2>1
  <2>3. \A r \in DOMAIN heap : heap'[r].tries = heap[r].tries
          /\ heap'[r].times = IF r = req[t] THEN loaded[t] + 1 ELSE heap[r].times
    BY <2>1, CountTypes DEF Live
  <2>4. /\ pc'[t] \notin {"stamp", "count"}
        /\ \A u \in Threads \ {t} : pc'[u] = pc[u] /\ req'[u] = req[u] /\ loaded'[u] = loaded[u]
    BY <2>1, CountTypes DEF Return, MainAfter
  <2>5. \A r \in DOMAIN heap : Owed(r)' = IF r = req[t] THEN Owed(r) - 1 ELSE Owed(r)
    BY <2>1, <2>4 DEF Owed, Increments, Threads
  <2>6. \A r : Owed(r) \in Nat
    BY DEF Owed, Increments
  <2>7. ASSUME NEW r \in DOMAIN heap
        PROVE  Paid(r)'
    <3>1. /\ heap[r].times + Owed(r) <= heap[r].tries
          /\ \A u \in Threads : pc[u] = "count" /\ req[u] = r => loaded[u] + Owed(r) <= heap[r].tries
      BY DEF TInv, Paid
    <3>2. /\ heap[r].times \in Nat /\ heap[r].tries \in Nat
          /\ \A u \in Threads : loaded[u] \in Nat
          /\ Owed(r) \in Nat /\ Owed(r)' \in Nat
      BY <2>6, CountTypes DEF Owed, Increments
    <3>3. \A u \in Threads : pc'[u] = "count" /\ req'[u] = r
                           => pc[u] = "count" /\ req[u] = r /\ loaded'[u] = loaded[u]
      BY <2>4
    <3>4. CASE r = req[t]
      <4>1. /\ Owed(r)' = Owed(r) - 1 /\ heap'[r].tries = heap[r].tries
            /\ heap'[r].times = loaded[t] + 1
        BY <2>3, <2>5, <3>4
      <4>2. heap'[r].times + Owed(r)' <= heap'[r].tries
        BY <2>1, <3>1, <3>2, <3>4, <4>1
      <4>3. \A u \in Threads : pc'[u] = "count" /\ req'[u] = r
                             => loaded'[u] + Owed(r)' <= heap'[r].tries
        BY <3>1, <3>2, <3>3, <4>1
      <4> QED BY <4>2, <4>3 DEF Paid
    <3>5. CASE r # req[t]
      <4>1. Owed(r)' = Owed(r) /\ heap'[r].tries = heap[r].tries /\ heap'[r].times = heap[r].times
        BY <2>3, <2>5, <3>5
      <4> QED BY <3>1, <3>3, <4>1 DEF Paid
    <3> QED BY <3>4, <3>5
  <2> QED BY <2>2, <2>7 DEF TInv
<1> QED BY <1>1, <1>2

\* A request that is freed has no count; those of the others are untouched.
LEMMA PaidDestroy ==
    ASSUME IInv, TInv, NEW t \in Threads, Destroy(t)
    PROVE  TInv'
<1>1. CASE Crash("double_free")
  BY <1>1, PaidKept DEF Crash, threadVars
<1>2. CASE ~Crash("double_free")
  <2>1. /\ DOMAIN heap' = DOMAIN heap \ {req[t]}
        /\ \A r \in DOMAIN heap' : heap'[r] = heap[r]
        /\ pc[t] = "destroy" /\ pc' = [pc EXCEPT ![t] = "stamp"] /\ UNCHANGED <<req, loaded>>
    BY <1>2, Destroyed DEF Destroy
  <2>2. \A r \in DOMAIN heap' : Owed(r)' = Owed(r)
    BY <2>1, CountTypes DEF Owed, Increments, Threads
  <2>3. \A r \in DOMAIN heap' : Paid(r)'
    BY <2>1, <2>2, CountTypes DEF TInv, Paid
  <2> QED BY <2>3 DEF TInv
<1> QED BY <1>1, <1>2

\* A new request starts with a count of 0, and no thread works on it: the sweeper, who
\* could hold an address that malloc returns again, waits for the lock.
LEMMA PaidEnqueue ==
    ASSUME IInv, TInv, Enqueue
    PROVE  TInv'
<1>1. PICK r \in ReqIds :
         /\ \A q \in DOMAIN heap \ {r} : heap'[q] = heap[q]
         /\ DOMAIN heap' = DOMAIN heap \cup {r}
         /\ req' = [req EXCEPT !["main"] = r]
         /\ \/ /\ r \in ToSet(queue)
               /\ heap'[r] = [heap[r] EXCEPT !.pkts = Cons(pkt, @)]
            \/ /\ r \notin DOMAIN heap
               /\ heap'[r] = [ip |-> Dst[pkt], age |-> 2, times |-> 0, tries |-> 0, pkts |-> <<pkt>>]
  BY Enqueued
<1>2. /\ pc["main"] = "enqueue" /\ pc["sweep"] = "sleep" /\ pc'["main"] = "check"
      /\ pc'["sweep"] = "sleep"
  BY CountTypes DEF Enqueue, LockFree, Threads
<1>3. \A q : Owed(q)' = 0 /\ Owed(q) = 0
  BY <1>2 DEF Owed, Increments
<1>4. \A q \in DOMAIN heap' : heap'[q].times <= heap'[q].tries
  <2>1. \A q \in DOMAIN heap : heap[q].times <= heap[q].tries
    BY <1>3, CountTypes DEF TInv, Paid
  <2>2. heap'[r].times <= heap'[r].tries
    <3>1. CASE r \in ToSet(queue) /\ heap'[r] = [heap[r] EXCEPT !.pkts = Cons(pkt, @)]
      <4>1. r \in DOMAIN heap
        BY <3>1, QueueFacts
      <4> QED BY <2>1, <3>1, <4>1, CountTypes
    <3> QED BY <1>1, <3>1
  <2> QED BY <1>1, <2>1, <2>2
<1>5. \A q \in DOMAIN heap' : heap'[q].times \in Nat /\ heap'[q].tries \in Nat
  BY TypeEnqueue DEF TypeOK, RequestTypes, Request
<1>6. \A q \in DOMAIN heap' : Paid(q)'
  BY <1>2, <1>3, <1>4, <1>5 DEF Paid, Threads
<1> QED BY <1>6 DEF TInv

\* The other steps.
LEMMA PaidOther ==
    ASSUME IInv, TInv, [Next]_vars, ~Enqueue,
           \A t \in Threads : ~(Send(t) \/ Stamp(t) \/ Count(t) \/ Destroy(t))
    PROVE  TInv'
<1>1. CASE Receive \/ LookupHit \/ LookupMiss \/ Transmit \/ BatchNext \/ BatchDone
  <2>1. DOMAIN heap' \subseteq DOMAIN heap /\ \A r \in DOMAIN heap' : heap'[r] = heap[r]
    BY <1>1 DEF Receive, RecvIp, RecvArpReply, LookupHit, LookupMiss, Transmit, BatchNext, BatchDone, Freed
  <2>2. UNCHANGED <<req, loaded>> /\ pc["main"] \in MainOnly
    BY <1>1 DEF Receive, RecvIp, RecvArpReply, LookupHit, LookupMiss, Transmit, BatchNext, BatchDone, MainOnly
  <2>3. pc'["sweep"] = pc["sweep"] /\ pc'["main"] \in MainOnly
    BY <1>1, CountTypes DEF Receive, RecvIp, RecvArpReply, Unlink, ToOtherDest, LookupHit, LookupMiss,
       Transmit, BatchNext, BatchDone, MainAfter, MainOnly, Threads
  <2> QED BY <2>1, <2>2, <2>3, PaidKept DEF MainOnly, Threads
<1>2. ASSUME NEW t \in Threads, CheckDue(t) \/ CheckNotDue(t) \/ Choose(t) \/ BurstRound(t)
      PROVE  TInv'
  <2>1. UNCHANGED heap /\ pc[t] \in {"check", "choose", "burst"}
    BY <1>2 DEF CheckDue, CheckNotDue, Choose, BurstRound, Crash
  <2>2. /\ pc'[t] \notin {"stamp", "count"}
        /\ \A u \in Threads \ {t} : pc'[u] = pc[u] /\ req'[u] = req[u] /\ loaded'[u] = loaded[u]
    BY <1>2, CountTypes DEF CheckDue, CheckNotDue, Choose, BurstRound, Crash, Return, MainAfter,
       threadVars
  <2> QED BY <2>1, <2>2, PaidKept
<1>3. CASE Wake \/ SweepNext
  <2>1. UNCHANGED heap /\ pc["sweep"] \in {"sleep", "next"}
    BY <1>3 DEF Wake, SweepNext, SweepTo, Crash
  <2>2. /\ pc'["sweep"] \notin {"stamp", "count"} /\ UNCHANGED loaded
        /\ pc'["main"] = pc["main"] /\ req'["main"] = req["main"]
    BY <1>3, CountTypes DEF Wake, SweepNext, SweepTo, Crash, threadVars, Threads
  <2> QED BY <2>1, <2>2, PaidKept DEF Threads
<1>4. CASE Tick
  <2>1. UNCHANGED <<pc, req, loaded>> /\ DOMAIN heap' = DOMAIN heap
    BY <1>4 DEF Tick
  <2>2. \A r \in DOMAIN heap : heap'[r].times = heap[r].times /\ heap'[r].tries = heap[r].tries
    BY <1>4, CountTypes DEF Tick
  <2> QED BY <2>1, <2>2, PaidKept
<1>5. CASE UNCHANGED vars
  BY <1>5, PaidKept DEF vars, threadVars
<1> QED BY <1>1, <1>2, <1>3, <1>4, <1>5 DEF Next, MainStep, SweepStep, Handle, Dead, Threads

\* Every step keeps the counts paid for.
LEMMA PaidStep ==
    ASSUME IInv, TInv, [Next]_vars
    PROVE  TInv'
BY PaidEnqueue, PaidSend, PaidStamp, PaidCount, PaidDestroy, PaidOther

\* What holds of the counts whatever the two threads do.
LEMMA PaidInvariance == Spec => []TInv
<1>1. Init => TInv
  BY DEF Init, TInv
<1>2. IInv /\ TInv /\ [Next]_vars => TInv'
  BY PaidStep
<1> QED BY <1>1, <1>2, Invariance, PTL DEF Spec

\* times_sent never claims a call of arp_request_send that was not made, although both
\* threads increment it without synchronisation; whether the call got a frame out is
\* not in it, as handle_arpreq counts failed tries as well.
THEOREM CountsAreHonest == Spec => []TimesHonest
<1>1. IInv /\ TInv => TimesHonest
  <2> SUFFICES ASSUME IInv, TInv, NEW r \in DOMAIN heap PROVE heap[r].times <= heap[r].tries
    BY DEF TimesHonest
  <2>1. Owed(r) \in Nat
    BY DEF Owed, Increments
  <2> QED BY <2>1, CountTypes DEF TInv, Paid
<1> QED BY <1>1, PaidInvariance, Invariance, PTL
-----------------------------------------------------------------------------
(* Giving up.                                                              *)

\* A request that handle_arpreq is about to destroy was tried often enough,
\* and has one packet: with a second one the loop that never ends comes first.
Exhausted(r) == heap[r].tries >= MaxSends /\ Len(heap[r].pkts) = 1
DInv == \A t \in Threads : pc[t] = "destroy" /\ Live(req[t]) => Exhausted(req[t])

\* A step that adds no packet and takes back no try keeps that, unless it
\* brings a thread there.
LEMMA ExhaustedKept ==
    ASSUME IInv, DInv, DOMAIN heap' \subseteq DOMAIN heap,
           \A r \in DOMAIN heap' : heap'[r].pkts = heap[r].pkts /\ heap'[r].tries \in Nat
                                     /\ heap'[r].tries >= heap[r].tries,
           \A t \in Threads : pc'[t] = "destroy" => pc[t] = "destroy" /\ req'[t] = req[t]
    PROVE  DInv'
<1> SUFFICES ASSUME NEW t \in Threads, pc'[t] = "destroy", req'[t] \in DOMAIN heap'
             PROVE  heap'[req'[t]].tries >= MaxSends /\ Len(heap'[req'[t]].pkts) = 1
  BY DEF DInv, Exhausted, Live
<1>1. req'[t] = req[t] /\ pc[t] = "destroy" /\ req[t] \in DOMAIN heap
  OBVIOUS
<1>2. heap[req[t]].tries >= MaxSends /\ Len(heap[req[t]].pkts) = 1
  BY <1>1 DEF DInv, Exhausted, Live
<1>3. heap[req[t]].tries \in Nat /\ MaxSends \in Nat
  BY <1>1, CountTypes, ConstantsAssumption
<1> QED BY <1>1, <1>2, <1>3

\* The choice to destroy: times_sent has reached the limit, it is covered by
\* tries, and packets->next is NULL.
LEMMA ExhaustedChoose ==
    ASSUME IInv, TInv, DInv, NEW t \in Threads, Choose(t)
    PROVE  DInv'
<1>1. /\ UNCHANGED <<heap, req>> /\ pc[t] = "choose"
      /\ \A u \in Threads \ {t} : pc'[u] = pc[u]
  BY CountTypes DEF Choose
<1>2. pc'[t] = "destroy" /\ Live(req[t]) => Exhausted(req[t])
  <2> SUFFICES ASSUME pc'[t] = "destroy", Live(req[t]) PROVE Exhausted(req[t])
    OBVIOUS
  <2> DEFINE r == req[t]
  <2>1. AfterChoice(r) = "destroy"
    BY CountTypes DEF Choose
  <2>2. r \in DOMAIN heap /\ r \in ToSet(queue)
    BY <1>1 DEF IInv, HandledQueued, Handling, Live
  <2>3. heap[r].pkts # << >>
    BY <2>2 DEF IInv, QueueSound, PacketsInPlace, ToSet
  <2>4. /\ heap[r].times \in Nat /\ heap[r].tries \in Nat /\ heap[r].pkts \in Seq(Packets)
        /\ MaxSends \in Nat
    BY <2>2, CountTypes, ConstantsAssumption
  <2>5. heap[r].times <= heap[r].tries
    <3>1. heap[r].times + Owed(r) <= heap[r].tries
      BY <2>2 DEF TInv, Paid
    <3>2. Owed(r) \in Nat
      BY DEF Owed, Increments
    <3> QED BY <2>4, <3>1, <3>2
  <2> HIDE DEF r
  <2>6. ~(heap[r].times < MaxSends) /\ ~(Len(heap[r].pkts) > 1)
    BY <2>1 DEF AfterChoice
  <2>7. Len(heap[r].pkts) \in Nat /\ Len(heap[r].pkts) # 0
    BY <2>3, <2>4
  <2>8. Exhausted(r)
    <3>1. heap[r].tries >= MaxSends
      BY <2>4, <2>5, <2>6
    <3>2. Len(heap[r].pkts) = 1
      <4>1. \A n \in Nat : n # 0 /\ ~(n > 1) => n = 1
        OBVIOUS
      <4> QED BY <2>6, <2>7, <4>1
    <3> QED BY <3>1, <3>2 DEF Exhausted
  <2> QED BY <2>8 DEF r
<1>3. \A u \in Threads : pc'[u] = "destroy" /\ Live(req[u]) => Exhausted(req[u])
  BY <1>1, <1>2 DEF DInv
<1>4. \A r : (Live(r)' <=> Live(r)) /\ (Exhausted(r)' <=> Exhausted(r))
  BY <1>1 DEF Live, Exhausted
<1> QED BY <1>1, <1>3, <1>4 DEF DInv

\* The other steps of the two threads.
LEMMA ExhaustedOther ==
    ASSUME IInv, DInv, [Next]_vars, ~\E t \in Threads : Choose(t)
    PROVE  DInv'
<1>0. /\ \A r \in DOMAIN heap : heap[r].tries >= heap[r].tries
      /\ pc \in [Threads -> MainOnly \cup SweepOnly \cup Handling]
      /\ req \in [Threads -> ReqIds \cup {NoReq}]
  BY CountTypes
<1>1. ASSUME NEW t \in Threads, CheckDue(t) \/ CheckNotDue(t) \/ BurstRound(t)
      PROVE  DInv'
  <2>1. UNCHANGED heap
    BY <1>1 DEF CheckDue, CheckNotDue, BurstRound, Crash
  <2>2. \A u \in Threads : pc'[u] = "destroy" => pc[u] = "destroy" /\ req'[u] = req[u]
    BY <1>0, <1>1 DEF CheckDue, CheckNotDue, BurstRound, Return, MainAfter, Crash, threadVars
  <2> QED BY <1>0, <2>1, <2>2, CountTypes, ExhaustedKept
<1>2. ASSUME NEW t \in Threads, Send(t) \/ Stamp(t) \/ Count(t) \/ Destroy(t)
      PROVE  DInv'
  <2>1. DOMAIN heap' \subseteq DOMAIN heap
    BY <1>2 DEF Send, Stamp, Count, Destroy, Freed, Crash
  <2>2. \A r \in DOMAIN heap' : heap'[r].pkts = heap[r].pkts /\ heap'[r].tries \in Nat
                                  /\ heap'[r].tries >= heap[r].tries
    <3>1. CASE Send(t)
      <4>1. CASE Live(req[t]) /\ heap' = [heap EXCEPT ![req[t]].tries = @ + 1]
        BY <4>1, CountTypes DEF Live
      <4> QED BY <3>1, <4>1, <1>0, CountTypes DEF Send, Crash
    <3>2. CASE Stamp(t)
      <4>1. CASE Live(req[t]) /\ heap' = [heap EXCEPT ![req[t]].age = lag[t]]
        BY <4>1, CountTypes DEF Live
      <4> QED BY <3>2, <4>1, <1>0, CountTypes DEF Stamp, Crash
    <3>3. CASE Count(t)
      <4>1. CASE Live(req[t]) /\ heap' = [heap EXCEPT ![req[t]].times = loaded[t] + 1]
        BY <4>1, CountTypes DEF Live
      <4> QED BY <3>3, <4>1, <1>0, CountTypes DEF Count, Crash
    <3>4. CASE Destroy(t)
      BY <3>4, <1>0, CountTypes DEF Destroy, Freed, Crash
    <3> QED BY <1>2, <3>1, <3>2, <3>3, <3>4
  <2>3. \A u \in Threads : pc'[u] = "destroy" => pc[u] = "destroy" /\ req'[u] = req[u]
    BY <1>0, <1>2 DEF Send, Stamp, Count, Destroy, Return, MainAfter, Crash, threadVars
  <2> QED BY <2>1, <2>2, <2>3, ExhaustedKept
<1>3. CASE Receive \/ LookupHit \/ LookupMiss \/ Transmit \/ BatchNext \/ BatchDone
  <2>1. DOMAIN heap' \subseteq DOMAIN heap /\ \A r \in DOMAIN heap' : heap'[r] = heap[r]
    BY <1>3 DEF Receive, RecvIp, RecvArpReply, LookupHit, LookupMiss, Transmit, BatchNext, BatchDone, Freed
  <2>2. \A u \in Threads : pc'[u] = "destroy" => pc[u] = "destroy" /\ req'[u] = req[u]
    BY <1>0, <1>3 DEF Receive, RecvIp, RecvArpReply, Unlink, ToOtherDest, LookupHit, LookupMiss,
       Transmit, BatchNext, BatchDone, MainAfter, Threads
  <2> QED BY <1>0, <2>1, <2>2, CountTypes, ExhaustedKept
<1>4. CASE Wake \/ SweepNext \/ UNCHANGED vars
  <2>1. UNCHANGED heap
    BY <1>4 DEF Wake, SweepNext, SweepTo, Crash, vars
  <2>2. \A u \in Threads : pc'[u] = "destroy" => pc[u] = "destroy" /\ req'[u] = req[u]
    BY <1>0, <1>4 DEF Wake, SweepNext, SweepTo, Crash, vars, threadVars, Threads
  <2> QED BY <1>0, <2>1, <2>2, CountTypes, ExhaustedKept
<1>5. CASE Tick
  <2>1. DOMAIN heap' = DOMAIN heap /\ UNCHANGED <<pc, req>>
    BY <1>5 DEF Tick
  <2>2. \A r \in DOMAIN heap : heap'[r].pkts = heap[r].pkts /\ heap'[r].tries = heap[r].tries
    BY <1>5, CountTypes DEF Tick
  <2> QED BY <1>0, <2>1, <2>2, CountTypes, ExhaustedKept
<1>6. CASE Enqueue
  <2>1. \A u \in Threads : pc'[u] # "destroy"
    BY <1>0, <1>6 DEF Enqueue, LockFree, Threads
  <2> QED BY <2>1 DEF DInv
<1> QED BY <1>1, <1>2, <1>3, <1>4, <1>5, <1>6
     DEF Next, Receive, MainStep, SweepStep, Handle, Dead, Threads

\* What holds of the requests about to be destroyed.
LEMMA ExhaustedInvariance == Spec => []DInv
<1>1. Init => DInv
  BY DEF Init, DInv, Threads
<1>2. IInv /\ TInv /\ DInv /\ [Next]_vars => DInv'
  BY ExhaustedChoose, ExhaustedOther
<1> QED BY <1>1, <1>2, PaidInvariance, Invariance, PTL DEF Spec

\* The fate of a packet becomes "dropped" in sr_arpreq_destroy only.
LEMMA DroppedByDestroy ==
    ASSUME IInv, [Next]_vars, NEW p \in Packets, fate[p] # "dropped", fate'[p] = "dropped"
    PROVE  \E t \in Threads : Destroy(t) /\ ~Crash("double_free")
<1>0. fate \in [Packets -> Fates]
  BY DEF IInv, TypeOK, NetTypes
<1>1. ASSUME NEW t \in Threads, Handle(t), ~Destroy(t) PROVE UNCHANGED fate
  BY <1>1 DEF Handle, CheckDue, CheckNotDue, Choose, Send, BurstRound, Stamp, Count, Crash
<1>2. CASE Receive \/ Transmit \/ BatchNext
  BY <1>0, <1>2 DEF Receive, RecvIp, RecvArpReply, Transmit, BatchNext, ToOtherDest
<1>3. CASE LookupHit \/ LookupMiss \/ Enqueue \/ BatchDone \/ Wake \/ SweepNext \/ Tick \/ UNCHANGED vars
  BY <1>3 DEF LookupHit, LookupMiss, Enqueue, BatchDone, Wake, SweepNext, SweepTo, Tick, Crash, vars
<1>4. ~Crash("double_free")
  BY DEF Crash
<1> QED BY <1>1, <1>2, <1>3, <1>4 DEF Next, MainStep, SweepStep, Dead, Threads

\* handle_arpreq gives a packet up only when its request was tried MaxSends times, although the count it compares is incremented by two threads without a lock.
THEOREM GivenUpLate == Spec => GivenUpAfterRetries
<1>1. ASSUME IInv, DInv, [Next]_vars, NEW p \in Packets, fate[p] # "dropped", fate'[p] = "dropped"
      PROVE  \E r \in ToSet(queue) : p \in ToSet(heap[r].pkts) /\ heap[r].tries >= MaxSends
  <2>1. PICK t \in Threads : Destroy(t) /\ ~Crash("double_free")
    BY <1>1, DroppedByDestroy
  <2>2. req[t] \in ToSet(queue) /\ p \in ToSet(heap[req[t]].pkts) /\ pc[t] = "destroy"
    BY <1>1, <2>1, Destroyed
  <2>3. heap[req[t]].tries >= MaxSends
    BY <1>1, <2>2, QueueFacts DEF DInv, Exhausted, Live
  <2> QED BY <2>2, <2>3
<1>2. IInv /\ DInv /\ [Next]_vars
        => [\A p \in Packets :
              fate[p] # "dropped" /\ fate'[p] = "dropped"
                => \E r \in ToSet(queue) :
                      p \in ToSet(heap[r].pkts) /\ heap[r].tries >= MaxSends]_vars
  BY <1>1
<1> QED BY <1>2, ExhaustedInvariance, Invariance, PTL DEF Spec, GivenUpAfterRetries

-----------------------------------------------------------------------------
(* Notices.                                                                *)

\* A packet that a host-unreachable was sent for is still on the queue or was given
\* up, and the thread that sent it is in the loop that never ends.
BInv == \A p \in bounced : Spinning /\ (Waits(p) \/ fate[p] = "dropped")

\* The loop is never left.
LEMMA SpinsOn ==
    ASSUME IInv, [Next]_vars, NEW u \in Threads, pc[u] = "burst"
    PROVE  pc'[u] = "burst"
<1>0. pc \in [Threads -> MainOnly \cup SweepOnly \cup Handling]
  BY QueueFacts
<1>1. ASSUME NEW t \in Threads, Handle(t) PROVE pc'[u] = "burst"
  BY <1>0, <1>1 DEF Handle, CheckDue, CheckNotDue, Choose, Send, BurstRound, Destroy, Stamp, Count,
     Return, Crash, threadVars
<1>2. CASE Receive \/ LookupHit \/ LookupMiss \/ Transmit \/ Enqueue \/ BatchNext \/ BatchDone
  BY <1>0, <1>2 DEF Receive, RecvIp, RecvArpReply, Unlink, ToOtherDest, LookupHit, LookupMiss,
     Transmit, Enqueue, BatchNext, BatchDone, Threads
<1>3. CASE Wake \/ SweepNext \/ Tick \/ UNCHANGED vars
  BY <1>0, <1>3 DEF Wake, SweepNext, SweepTo, Tick, Crash, vars, threadVars, Threads
<1> QED BY <1>1, <1>2, <1>3 DEF Next, MainStep, SweepStep, Dead, Threads

\* While a thread spins, a packet leaves the queue only by being given up: a reply is
\* read by a main thread that has the lock, and one of the two is lost.
LEMMA WaitsOn ==
    ASSUME IInv, HInv, [Next]_vars, Spinning, NEW p, Waits(p)
    PROVE  Waits(p)' \/ fate'[p] = "dropped"
<1>1. PICK r \in ToSet(queue) : p \in ToSet(heap[r].pkts)
  BY DEF Waits
<1>2. p \in Packets /\ r \in DOMAIN heap
  BY <1>1, QueueFacts
<1>3. CASE Calm
  <2>1. ToSet(queue') = ToSet(queue) /\ heap'[r].pkts = heap[r].pkts
    BY <1>2, <1>3 DEF Calm, Kept
  <2> QED BY <1>1, <2>1 DEF Waits
<1>4. CASE UNCHANGED <<queue, heap>>
  BY <1>1, <1>4 DEF Waits
<1>5. CASE BatchDone
  <2>1. heap'[r] = heap[r] /\ UNCHANGED queue
    BY <1>1, <1>5, <1>2 DEF BatchDone, Freed, IInv, NoLeak, AnswerInHand
  <2> QED BY <1>1, <2>1 DEF Waits
<1>6. CASE Enqueue
  <2>1. PICK q \in ReqIds :
           /\ ToSet(queue') = ToSet(queue) \cup {q}
           /\ \A x \in ToSet(queue) \ {q} : heap'[x] = heap[x]
           /\ \/ /\ q \in ToSet(queue)
                 /\ heap'[q] = [heap[q] EXCEPT !.pkts = Cons(pkt, @)]
              \/ q \notin DOMAIN heap
    BY <1>6, Enqueued
  <2>2. CASE r = q
    <3>1. heap'[r] = [heap[r] EXCEPT !.pkts = Cons(pkt, @)]
      BY <1>2, <2>1, <2>2
    <3>2. heap'[r].pkts = Cons(pkt, heap[r].pkts)
      BY <1>2, <3>1, CountTypes
    <3>3. heap[r].pkts \in Seq(Packets) /\ pkt \in Packets
      BY <1>2, <1>6, CountTypes DEF IInv, TypeOK, MainTypes, Enqueue
    <3>4. p \in ToSet(heap'[r].pkts)
      BY <1>1, <3>2, <3>3, ConsToSet
    <3> QED BY <1>1, <2>1, <3>4 DEF Waits
  <2>3. CASE r # q
    BY <1>1, <2>1, <2>3 DEF Waits
  <2> QED BY <2>2, <2>3
<1>7. ASSUME NEW t \in Threads, Destroy(t) PROVE Waits(p)' \/ fate'[p] = "dropped"
  <2>1. CASE Crash("double_free")
    BY <1>4, <2>1 DEF Crash
  <2>2. CASE ~Crash("double_free")
    <3>1. /\ ToSet(queue') = ToSet(queue) \ {req[t]}
          /\ \A x \in DOMAIN heap \ {req[t]} : heap'[x] = heap[x]
          /\ p \in ToSet(heap[req[t]].pkts) => fate'[p] = "dropped"
      BY <1>2, <1>7, <2>2, Destroyed
    <3> QED BY <1>1, <1>2, <3>1 DEF Waits
  <2> QED BY <2>1, <2>2
<1>8. ASSUME NEW ip \in IPs, NEW m \in MACs, RecvArpReply(ip, m) PROVE FALSE
  BY <1>8 DEF Spinning, RecvArpReply, LockFree, Threads
<1>9. ASSUME NEW t \in Threads, Handle(t), ~Destroy(t) PROVE Calm
  BY <1>9, CalmHandle
<1>10. CASE LookupHit \/ LookupMiss \/ Wake \/ SweepNext \/ Tick \/ UNCHANGED vars
  BY <1>3, <1>10, CalmOther
<1>11. ASSUME NEW q \in Packets, RecvIp(q) PROVE UNCHANGED <<queue, heap>>
  BY <1>11 DEF RecvIp
<1>12. CASE Transmit \/ BatchNext
  BY <1>4, <1>12 DEF Transmit, BatchNext
<1> QED BY <1>3, <1>4, <1>5, <1>6, <1>7, <1>8, <1>9, <1>10, <1>11, <1>12
     DEF Next, Receive, MainStep, SweepStep, Dead, Threads

\* A packet that was given up stays so.
LEMMA StaysDropped ==
    ASSUME IInv, HInv, [Next]_vars, NEW p \in Packets, fate[p] = "dropped"
    PROVE  fate'[p] = "dropped"
<1>0. fate \in [Packets -> Fates]
  BY DEF IInv, TypeOK, NetTypes
<1>1. ASSUME NEW t \in Threads, Handle(t), ~Destroy(t) PROVE UNCHANGED fate
  BY <1>1 DEF Handle, CheckDue, CheckNotDue, Choose, Send, BurstRound, Stamp, Count, Crash
<1>2. ASSUME NEW t \in Threads, Destroy(t) PROVE fate'[p] = "dropped"
  BY <1>2 DEF Destroy, Crash
<1>3. ASSUME NEW q \in Packets, RecvIp(q) PROVE fate'[p] = "dropped"
  BY <1>0, <1>3 DEF RecvIp, ToOtherDest
<1>4. CASE Transmit
  <2>1. pkt # p
    BY DEF HInv, HeldOnce, HeldSomewhere
  <2> QED BY <1>0, <1>4, <2>1 DEF Transmit
<1>5. CASE BatchNext
  <2>1. Head(batch) \in ToSet(batch)
    BY <1>5, QueueFacts, HeadOnce DEF BatchNext, HInv, HeldOnce, NotHeldTwice
  <2>2. Head(batch) # p
    BY <2>1 DEF HInv, HeldOnce, HeldSomewhere
  <2> QED BY <1>0, <1>5, <2>2 DEF BatchNext, ToOtherDest
<1>6. CASE \/ \E ip \in IPs, m \in MACs : RecvArpReply(ip, m)
           \/ LookupHit \/ LookupMiss \/ Enqueue \/ BatchDone
           \/ Wake \/ SweepNext \/ Tick \/ UNCHANGED vars
  BY <1>6 DEF RecvArpReply, LookupHit, LookupMiss, Enqueue, BatchDone, Wake, SweepNext, SweepTo,
     Tick, Crash, vars
<1> QED BY <1>1, <1>2, <1>3, <1>4, <1>5, <1>6
     DEF Next, Receive, MainStep, SweepStep, Dead, Threads

\* A notice goes out for the first packet of the request the spinning thread handles.
LEMMA BouncedStep ==
    ASSUME IInv, HInv, BInv, [Next]_vars, NEW p \in bounced'
    PROVE  p \in Packets /\ Spinning /\ (Waits(p) \/ fate[p] = "dropped")
<1>0. bounced \subseteq Packets
  BY DEF IInv, TypeOK, NetTypes
<1>1. CASE p \in bounced
  BY <1>0, <1>1 DEF BInv
<1>2. ASSUME NEW t \in Threads, BurstRound(t), p \notin bounced
      PROVE  p \in Packets /\ Spinning /\ Waits(p)
  <2>1. pc[t] = "burst" /\ Live(req[t]) /\ p = Head(heap[req[t]].pkts)
    BY <1>2 DEF BurstRound, Crash, netVars
  <2>2. req[t] \in ToSet(queue)
    BY <2>1 DEF IInv, HandledQueued, Handling
  <2>3. heap[req[t]].pkts \in Seq(Packets) /\ heap[req[t]].pkts # << >>
    BY <2>2, QueueFacts DEF IInv, QueueSound, PacketsInPlace, ToSet
  <2>4. p \in ToSet(heap[req[t]].pkts) /\ p \in Packets
    BY <2>1, <2>2, <2>3, HeadOnce DEF HInv, HeldOnce, NotHeldTwice
  <2> QED BY <2>1, <2>2, <2>4 DEF Waits, Spinning
<1>3. ASSUME NEW t \in Threads, Handle(t), ~BurstRound(t) PROVE UNCHANGED bounced
  BY <1>3 DEF Handle, CheckDue, CheckNotDue, Choose, Send, Destroy, Stamp, Count, Crash, netVars
<1>4. CASE Receive \/ LookupHit \/ LookupMiss \/ Transmit \/ Enqueue \/ BatchNext \/ BatchDone
           \/ Wake \/ SweepNext \/ Tick \/ UNCHANGED vars
  <2>1. UNCHANGED bounced
    BY <1>4 DEF Receive, RecvIp, RecvArpReply, LookupHit, LookupMiss, Transmit, Enqueue, BatchNext,
       BatchDone, Wake, SweepNext, SweepTo, Tick, Crash, netVars, vars
  <2> QED BY <1>1, <2>1
<1> QED BY <1>1, <1>2, <1>3, <1>4 DEF Next, MainStep, SweepStep, Dead, Threads

\* What holds of the notices whatever the other thread does.
LEMMA NoticesInvariance == Spec => []BInv
<1>1. Init => BInv
  BY DEF Init, BInv
<1>2. ASSUME IInv, HInv, BInv, [Next]_vars PROVE BInv'
  <2> SUFFICES ASSUME NEW p \in bounced'
               PROVE  Spinning' /\ (Waits(p)' \/ fate'[p] = "dropped")
    BY DEF BInv
  <2>1. p \in Packets /\ Spinning /\ (Waits(p) \/ fate[p] = "dropped")
    BY <1>2, BouncedStep
  <2>2. Spinning'
    BY <1>2, <2>1, SpinsOn DEF Spinning
  <2> QED BY <1>2, <2>1, <2>2, WaitsOn, StaysDropped
<1> QED BY <1>1, <1>2, HeldInvariance, Invariance, PTL DEF Spec

\* Whoever was told that a host is unreachable is not proved wrong: while
\* handle_arpreq bounces the packets of a request, no reply takes them off the queue.
THEOREM NoticesAreFinal == Spec => []NoticeFinal
<1>1. IInv /\ HInv /\ BInv => NoticeFinal
  <2> SUFFICES ASSUME IInv, HInv, BInv, NEW p \in bounced PROVE fate[p] # "sent"
    BY DEF NoticeFinal
  <2>1. p \in Packets
    BY DEF IInv, TypeOK, NetTypes
  <2>2. CASE Waits(p)
    BY <2>1, <2>2 DEF HInv, HeldOnce, HeldSomewhere
  <2> QED BY <2>2 DEF BInv
<1> QED BY <1>1, NoticesInvariance, HeldInvariance, Invariance, PTL

-----------------------------------------------------------------------------
(* The promises of ArpService.                                             *)

\* A step that the promises say nothing of.
Silent == UNCHANGED <<fate, sentTo, learned, fault>>

\* Such a step is a stutter of the service.
LEMMA SilentStutters ==
    ASSUME Silent
    PROVE  UNCHANGED Service!vars
BY DEF Silent, Service!vars, Running

\* The death of the process is the router's halt.
LEMMA CrashHalts ==
    ASSUME Running, NEW why \in Faults \ {"none"}, Crash(why)
    PROVE  Service!Next
BY DEF Running, Crash, netVars, Service!Next, Service!Halt

\* A packet that is received is accepted or refused.
LEMMA ReceiveServes ==
    ASSUME IInv, NEW p \in Packets, RecvIp(p)
    PROVE  Service!Next
<1>1. /\ fate[p] = "new" /\ Running /\ UNCHANGED <<sentTo, learned, fault>>
      /\ \/ fate' = [fate EXCEPT ![p] = "exceeded"]
         \/ fate' = [fate EXCEPT ![p] = "unreachable"]
         \/ fate' = [fate EXCEPT ![p] = "held"]
  BY DEF RecvIp, ToOtherDest, netVars
<1>2. Service!Accept(p) \/ Service!Refuse(p)
  BY <1>1 DEF Service!Accept, Service!Refuse, Service!Become, Running
<1> QED BY <1>1, <1>2 DEF Service!Next

\* Main sends what it holds, to the address it copied out of the cache.
LEMMA TransmitServes ==
    ASSUME IInv, HInv, AInv, Transmit
    PROVE  Service!Next
<1>1. /\ pkt \in Packets /\ mac \in MACs /\ Running /\ UNCHANGED <<learned, fault>>
      /\ fate' = [fate EXCEPT ![pkt] = "sent"] /\ sentTo' = [sentTo EXCEPT ![pkt] = mac]
  BY DEF Transmit, IInv, TypeOK, MainTypes
<1>2. fate[pkt] = "held"
  BY <1>1 DEF HInv, HeldOnce, HeldSomewhere
<1>3. <<Dst[pkt], mac>> \in learned
  BY DEF Transmit, AInv, CopyAnnounced
<1>4. Service!Forward(pkt)
  BY <1>1, <1>2, <1>3 DEF Service!Forward, Service!Become, Running
<1> QED BY <1>1, <1>4 DEF Service!Next

\* The next packet of an answered request was accepted before, and stays so.
LEMMA BatchNextServes ==
    ASSUME IInv, HInv, BatchNext
    PROVE  Silent
<1>1. /\ Head(batch) \in Packets /\ Head(batch) \in ToSet(batch)
      /\ fate \in [Packets -> Fates]
  BY QueueFacts, HeadOnce DEF BatchNext, HInv, HeldOnce, NotHeldTwice, IInv, TypeOK, NetTypes
<1>2. /\ fate[Head(batch)] = "held" /\ Ttl[Head(batch)] > 1 /\ Dst[Head(batch)] \in Routed
  BY <1>1 DEF HInv, HeldOnce, HeldSomewhere, Routable
<1>3. ~(Ttl[Head(batch)] <= 1)
  BY <1>1, <1>2, ConstantsAssumption
<1>4. fate' = [fate EXCEPT ![Head(batch)] = "held"]
  BY <1>2, <1>3 DEF BatchNext, ToOtherDest
<1> QED BY <1>1, <1>2, <1>4 DEF BatchNext, netVars, Silent

\* The request that is destroyed has one packet, which is given up.
LEMMA DestroyServes ==
    ASSUME IInv, HInv, DInv, NEW t \in Threads, Destroy(t)
    PROVE  Service!Next
<1>0. Running
  BY DEF Destroy
<1>1. CASE Crash("double_free")
  BY <1>0, <1>1, CrashHalts DEF Faults
<1>2. CASE ~Crash("double_free")
  <2> DEFINE s == heap[req[t]].pkts
  <2>1. /\ req[t] \in ToSet(queue) /\ pc[t] = "destroy" /\ Live(req[t])
        /\ fate' = [p \in Packets |-> IF p \in ToSet(s) THEN "dropped" ELSE fate[p]]
        /\ UNCHANGED <<sentTo, learned, fault>>
    BY <1>2, Destroyed DEF Destroy, netVars
  <2>2. s \in Seq(Packets) /\ Len(s) = 1
    BY <2>1, QueueFacts DEF DInv, Exhausted
  <2> HIDE DEF s
  <2> DEFINE p == s[1]
  <2>3. ToSet(s) = {p} /\ p \in Packets
    <3>1. DOMAIN s = {1}
      BY <2>2
    <3>2. s[1] \in Packets
      BY <2>2
    <3> QED BY <3>1, <3>2 DEF ToSet
  <2> HIDE DEF p
  <2>4. fate[p] = "held"
    BY <2>1, <2>3 DEF HInv, HeldOnce, HeldSomewhere, Waits, s
  <2>5. fate' = [fate EXCEPT ![p] = "dropped"]
    <3>1. fate \in [Packets -> Fates]
      BY DEF IInv, TypeOK, NetTypes
    <3> QED BY <2>1, <2>3, <3>1
  <2>6. Service!GiveUp(p)
    BY <2>1, <2>4, <2>5 DEF Service!GiveUp, Service!Become, Running
  <2> QED BY <1>0, <2>3, <2>6 DEF Service!Next
<1> QED BY <1>1, <1>2

\* The other steps of handle_arpreq kill the process or are silent.
LEMMA HandleServes ==
    ASSUME IInv, NEW t \in Threads, Handle(t), ~Destroy(t)
    PROVE  Service!Next \/ Silent
<1>1. Running
  BY DEF Handle, CheckDue, CheckNotDue, Choose, Send, BurstRound, Stamp, Count
<1>2. \/ \E why \in {"use_after_free", "wild_read", "null_route"} : Crash(why)
      \/ Silent
  BY DEF Handle, CheckDue, CheckNotDue, Choose, Send, BurstRound, Stamp, Count, Return, netVars, Silent
<1> QED BY <1>1, <1>2, CrashHalts DEF Faults

\* A reply announces an address.
LEMMA ReplyServes ==
    ASSUME NEW ip \in IPs, NEW m \in MACs, RecvArpReply(ip, m)
    PROVE  Service!Next
<1>1. Running /\ Service!Learn(ip, m)
  BY DEF RecvArpReply, Service!Learn, Running
<1> QED BY <1>1 DEF Service!Next

\* The steps of the sweeper between two requests, of the clock, and of main around the
\* queue: sr_arpcache_queuereq and the lookups say nothing to the network.
LEMMA OthersServe ==
    ASSUME \/ LookupHit \/ LookupMiss \/ Enqueue \/ BatchDone
           \/ Wake \/ SweepNext \/ Tick \/ UNCHANGED vars
    PROVE  Service!Next \/ Silent
<1>1. CASE Wake \/ SweepNext
  <2>1. Running /\ (Silent \/ Crash("wild_read") \/ Crash("stray_link"))
    BY <1>1 DEF Wake, SweepNext, SweepTo, netVars, Silent
  <2> QED BY <2>1, CrashHalts DEF Faults
<1>2. CASE LookupHit \/ LookupMiss \/ Enqueue \/ BatchDone \/ Tick \/ UNCHANGED vars
  BY <1>2 DEF LookupHit, LookupMiss, Enqueue, BatchDone, Tick, vars, netVars, Silent
<1> QED BY <1>1, <1>2

\* The cache, its queue and the two threads keep the promises of ArpService: every step
\* of sr_arpcache.c, sr_arp.c and packet_to_other_dest is one that the service may take
\* with its packets, or is hidden from its user.
THEOREM CacheServes == Spec => ImplementsService
<1>1. Init => Service!Init
  BY DEF Init, Service!Init, Running
<1>2. IInv /\ HInv /\ AInv /\ DInv /\ [Next]_vars => [Service!Next]_(Service!vars)
  <2> SUFFICES ASSUME IInv, HInv, AInv, DInv, [Next]_vars
               PROVE  Service!Next \/ UNCHANGED Service!vars
    OBVIOUS
  <2>1. ASSUME NEW t \in Threads, Handle(t) PROVE Service!Next \/ Silent
    BY <2>1, DestroyServes, HandleServes
  <2>2. ASSUME NEW p \in Packets, RecvIp(p) PROVE Service!Next
    BY <2>2, ReceiveServes
  <2>3. ASSUME NEW ip \in IPs, NEW m \in MACs, RecvArpReply(ip, m) PROVE Service!Next
    BY <2>3, ReplyServes
  <2>4. Transmit => Service!Next
    BY TransmitServes
  <2>5. BatchNext => Silent
    BY BatchNextServes
  <2>6. Service!Next \/ Silent
    BY <2>1, <2>2, <2>3, <2>4, <2>5, OthersServe
       DEF Next, Receive, MainStep, SweepStep, Dead, Threads
  <2> QED BY <2>6, SilentStutters
<1> QED BY <1>1, <1>2, ExhaustedInvariance, AnnouncedInvariance, HeldInvariance, Invariance, PTL
        DEF Spec, ImplementsService, Service!Spec

=============================================================================

-------------------------- MODULE ArpTimingProofs --------------------------
(***************************************************************************)
(* Proofs about ArpTiming, for every value of the constants: while the     *)
(* machine keeps up, the copy of a cache entry is young when it is used,   *)
(* and main's request stays allocated as long as handle_arpreq uses it.    *)
(***************************************************************************)
EXTENDS ArpServiceProofs, ArpTiming

\* A machine that keeps up takes no step that another could not take, so what was
\* proved so far holds as well.
LEMMA TimedIsSpec == TimedSpec => Spec
<1>1. TimedInit => Init
  BY DEF TimedInit
<1>2. [TimedNext]_timedVars => [Next]_vars
  BY DEF TimedNext, TimedMain, TimedSweep, TimedTick, Next, timedVars
<1> QED BY <1>1, <1>2, PTL DEF TimedSpec, Spec

-----------------------------------------------------------------------------
(* The clocks.                                                             *)

\* How far time goes in a handler and from one pass to the next.
ClocksBounded ==
    /\ elapsed \in [Threads -> 0 .. 2]
    /\ elapsed["main"] <= 1
    /\ copied \in 0 .. AgeCap

\* Every step keeps the clocks within their bounds.
LEMMA ClocksStep ==
    ASSUME IInv, ClocksBounded, [TimedNext]_timedVars
    PROVE  ClocksBounded'
<1>1. CASE TimedMain
  <2>1. \A i \in DOMAIN entries : entries[i].age \in 0 .. AgeCap
    BY DEF IInv, TypeOK, CacheTypes, Entry
  <2>2. copied' \in 0 .. AgeCap
    BY <1>1, <2>1, ConstantsAssumption DEF TimedMain
  <2>3. elapsed' \in [Threads -> 0 .. 2] /\ elapsed'["main"] <= 1
    BY <1>1 DEF TimedMain, ClocksBounded, Threads
  <2> QED BY <2>2, <2>3 DEF ClocksBounded
<1>2. CASE TimedSweep
  BY <1>2 DEF TimedSweep, ClocksBounded, Threads
<1>3. CASE TimedTick
  <2>1. elapsed' \in [Threads -> 0 .. 2] /\ elapsed'["main"] <= 1
    BY <1>3 DEF TimedTick, ClocksBounded, Threads
  <2>2. copied' \in 0 .. AgeCap
    BY <1>3, ConstantsAssumption DEF TimedTick, ClocksBounded, Older
  <2> QED BY <2>1, <2>2 DEF ClocksBounded
<1>4. CASE UNCHANGED <<elapsed, copied>>
  BY <1>4 DEF ClocksBounded
<1> QED BY <1>1, <1>2, <1>3, <1>4 DEF TimedNext, timedVars

-----------------------------------------------------------------------------
(* Entries and the copy of one.                                            *)

\* A pass leaves no entry older than SR_ARPCACHE_TO, and entries age with the clocks.
FInv ==
    /\ \A i \in DOMAIN entries : entries[i].age <= Timeout + elapsed["sweep"]
    /\ pc["main"] = "transmit" => copied <= Timeout + 2 + elapsed["main"]

\* The entries and the clock of the sweeper.
LEMMA EntriesStep ==
    ASSUME IInv, ClocksBounded, FInv, [TimedNext]_timedVars
    PROVE  \A i \in DOMAIN entries' : entries'[i].age <= Timeout + elapsed'["sweep"]
<1>0. /\ \A i \in DOMAIN entries : entries[i].age \in 0 .. AgeCap
      /\ AgeCap \in Nat /\ Timeout \in Nat /\ elapsed["sweep"] \in 0 .. 2
  BY ConstantsAssumption DEF IInv, TypeOK, CacheTypes, Entry, ClocksBounded, Threads
<1>1. CASE TimedMain
  <2>1. elapsed'["sweep"] = elapsed["sweep"]
    BY <1>1 DEF TimedMain, ClocksBounded, Threads
  <2>2. CASE UNCHANGED entries
    BY <2>1, <2>2 DEF FInv
  <2>3. CASE \E ip \in IPs, m \in MACs : RecvArpReply(ip, m)
    <3>1. PICK ip \in IPs, m \in MACs : StoreEntry(ip, m)
      BY <2>3 DEF RecvArpReply
    <3>2. \A k \in DOMAIN entries' :
             entries'[k].age = 0 \/ (k \in DOMAIN entries /\ entries'[k] = entries[k])
      <4>1. CASE \E i \in Slots : entries' =
                   [k \in DOMAIN entries \cup {i} |->
                      IF k = i THEN [ip |-> ip, mac |-> m, age |-> 0] ELSE entries[k]]
        BY <4>1
      <4> QED BY <3>1, <4>1 DEF StoreEntry
    <3> QED BY <1>0, <2>1, <3>2 DEF FInv
  <2>4. UNCHANGED entries \/ \E ip \in IPs, m \in MACs : RecvArpReply(ip, m)
    <3>1. ASSUME Handle("main") PROVE UNCHANGED entries
      BY <3>1 DEF Handle, CheckDue, CheckNotDue, Choose, Send, BurstRound, Destroy, Stamp, Count
    <3>2. ASSUME NEW p \in Packets, RecvIp(p) PROVE UNCHANGED entries
      BY <3>2 DEF RecvIp
    <3>3. ASSUME LookupHit \/ LookupMiss \/ Transmit \/ Enqueue \/ BatchNext \/ BatchDone
          PROVE  UNCHANGED entries
      BY <3>3 DEF LookupHit, LookupMiss, Transmit, Enqueue, BatchNext, BatchDone
    <3> QED BY <1>1, <3>1, <3>2, <3>3 DEF TimedMain, Receive, MainStep
  <2> QED BY <2>2, <2>3, <2>4
<1>2. CASE TimedSweep
  <2>1. CASE Wake
    <3>1. \A i \in DOMAIN entries' :
             i \in DOMAIN entries /\ entries'[i] = entries[i] /\ entries[i].age <= Timeout
      BY <2>1 DEF Wake, ExpireEntries
    <3>2. elapsed'["sweep"] = 0
      BY <1>2, <2>1 DEF TimedSweep, Wake, ClocksBounded, Threads
    <3> QED BY <1>0, <3>1, <3>2
  <2>2. CASE SweepNext \/ Handle("sweep")
    <3>1. UNCHANGED entries /\ pc["sweep"] # "sleep"
      BY <2>2 DEF SweepNext, Handle, CheckDue, CheckNotDue, Choose, Send, BurstRound, Destroy,
         Stamp, Count
    <3>2. elapsed'["sweep"] = elapsed["sweep"]
      BY <1>2, <3>1 DEF TimedSweep, ClocksBounded, Threads
    <3> QED BY <3>1, <3>2 DEF FInv
  <2> QED BY <1>2, <2>1, <2>2 DEF TimedSweep, SweepStep
<1>3. CASE TimedTick
  <2>1. /\ DOMAIN entries' = DOMAIN entries
        /\ \A i \in DOMAIN entries : entries'[i].age = Older(entries[i].age, AgeCap)
    BY <1>3 DEF TimedTick, Tick, IInv, TypeOK, CacheTypes, Entry
  <2>2. \A a \in 0 .. AgeCap : Older(a, AgeCap) <= a + 1
    BY <1>0 DEF Older
  <2>3. elapsed'["sweep"] = elapsed["sweep"] + 1
    BY <1>3 DEF TimedTick, Threads
  <2>4. \A i \in DOMAIN entries : Older(entries[i].age, AgeCap) \in 0 .. AgeCap
    BY <1>0 DEF Older
  <2> QED BY <1>0, <2>1, <2>2, <2>3, <2>4 DEF FInv
<1>4. CASE UNCHANGED <<entries, elapsed>>
  BY <1>4 DEF FInv
<1> QED BY <1>1, <1>2, <1>3, <1>4 DEF TimedNext, Dead, vars, timedVars

\* The copy ages in main's hands, but not for long.
LEMMA CopyStep ==
    ASSUME IInv, ClocksBounded, FInv, [TimedNext]_timedVars, pc'["main"] = "transmit"
    PROVE  copied' <= Timeout + 2 + elapsed'["main"]
<1>0. /\ \A i \in DOMAIN entries : entries[i].age \in 0 .. AgeCap
      /\ AgeCap \in Nat /\ Timeout \in Nat /\ elapsed \in [Threads -> 0 .. 2] /\ copied \in 0 .. AgeCap
      /\ elapsed["main"] \in 0 .. 2 /\ elapsed["sweep"] \in 0 .. 2
  BY ConstantsAssumption DEF IInv, TypeOK, CacheTypes, Entry, ClocksBounded, Threads
<1>1. CASE TimedMain
  <2>1. PICK i \in DOMAIN entries : copied' = entries[i].age
    BY <1>1 DEF TimedMain
  <2>2. copied' <= Timeout + 2
    BY <1>0, <2>1 DEF FInv
  <2>3. elapsed'["main"] \in 0 .. 2
    BY <1>0, <1>1 DEF TimedMain, Threads
  <2> QED BY <1>0, <2>1, <2>2, <2>3
<1>2. CASE TimedSweep
  <2>1. copied' = copied /\ elapsed'["main"] = elapsed["main"]
    BY <1>0, <1>2 DEF TimedSweep
  <2>2. pc'["main"] = pc["main"]
    BY <1>2, CountTypes DEF TimedSweep, SweepStep, Wake, SweepNext, SweepTo, Crash, threadVars, Handle,
       CheckDue, CheckNotDue, Choose, Send, BurstRound, Destroy, Stamp, Count, Return, Threads
  <2> QED BY <2>1, <2>2 DEF FInv
<1>3. CASE TimedTick
  <2>1. pc'["main"] = pc["main"]
    BY <1>3 DEF TimedTick, Tick
  <2>2. elapsed'["main"] = elapsed["main"] + 1 /\ copied' = Older(copied, AgeCap)
    BY <1>3, <2>1 DEF TimedTick, Threads
  <2>3. copied' \in 0 .. AgeCap /\ copied' <= copied + 1
    BY <1>0, <2>2 DEF Older
  <2> QED BY <1>0, <2>1, <2>2, <2>3 DEF FInv
<1>4. CASE UNCHANGED <<pc, elapsed, copied>>
  BY <1>4 DEF FInv
<1> QED BY <1>1, <1>2, <1>3, <1>4 DEF TimedNext, Dead, vars, threadVars, timedVars

\* What holds of the clocks while the machine keeps up.
LEMMA ClocksInvariance == TimedSpec => []ClocksBounded
<1>1. TimedInit => ClocksBounded
  BY ConstantsAssumption DEF TimedInit, ClocksBounded, Threads
<1>2. IInv /\ ClocksBounded /\ [TimedNext]_timedVars => ClocksBounded'
  BY ClocksStep
<1> QED BY <1>1, <1>2, TimedIsSpec, Invariance, PTL DEF TimedSpec

\* While the machine keeps up, a packet never leaves for an address whose entry is more
\* than three seconds past SR_ARPCACHE_TO, although main uses a copy of the entry when
\* the lock is long released and the entry may have been removed since.
THEOREM CopyStaysFresh == TimedSpec => []CopyFresh
<1>1. TimedInit => FInv
  BY DEF TimedInit, Init, FInv, Threads
<1>2. IInv /\ ClocksBounded /\ FInv /\ [TimedNext]_timedVars => FInv'
  BY EntriesStep, CopyStep DEF FInv
<1>3. ClocksBounded /\ FInv => CopyFresh
  <2> SUFFICES ASSUME ClocksBounded, FInv, pc["main"] = "transmit" PROVE copied <= Timeout + 3
    BY DEF CopyFresh
  <2>1. /\ Timeout \in Nat /\ AgeCap \in Nat /\ copied \in 0 .. AgeCap /\ elapsed["main"] \in 0 .. 2
        /\ elapsed["main"] <= 1 /\ copied <= Timeout + 2 + elapsed["main"]
    BY ConstantsAssumption DEF ClocksBounded, FInv, Threads
  <2> QED BY <2>1
<1> QED BY <1>1, <1>2, <1>3, TimedIsSpec, ClocksInvariance, Invariance, PTL DEF TimedSpec

-----------------------------------------------------------------------------
(* main's request.                                                         *)

\* A thread that has yet to read "now" in handle_arpreq is not behind the time.
NowRead == \A t \in Threads : pc[t] \in Handling \ {"check"} \/ lag[t] = 0

\* Every step keeps that, as the return from handle_arpreq forgets "now".
LEMMA NowReadStep ==
    ASSUME IInv, NowRead, [Next]_vars
    PROVE  NowRead'
<1>0. /\ pc \in [Threads -> MainOnly \cup SweepOnly \cup Handling] /\ lag \in [Threads -> 0 .. 2]
      /\ "main" \in Threads /\ "sweep" \in Threads
  BY CountTypes DEF Threads
<1>1. CASE Receive \/ LookupHit \/ LookupMiss \/ Transmit \/ Enqueue \/ BatchNext \/ BatchDone
  <2>1. UNCHANGED lag /\ pc["main"] \in MainOnly
    BY <1>1 DEF Receive, RecvIp, RecvArpReply, LookupHit, LookupMiss, Transmit, Enqueue, BatchNext,
       BatchDone, MainOnly
  <2>2. pc'["sweep"] = pc["sweep"]
    BY <1>0, <1>1 DEF Receive, RecvIp, RecvArpReply, Unlink, ToOtherDest, LookupHit, LookupMiss,
       Transmit, Enqueue, BatchNext, BatchDone
  <2> QED BY <2>1, <2>2 DEF NowRead, MainOnly, Handling, Threads
<1>2. ASSUME NEW t \in Threads, Handle(t) PROVE NowRead'
  <2>1. \A u \in Threads \ {t} : pc'[u] = pc[u] /\ lag'[u] = lag[u]
    BY <1>0, <1>2 DEF Handle, CheckDue, CheckNotDue, Choose, Send, BurstRound, Destroy, Stamp, Count,
       Return, Crash, threadVars
  <2>2. lag'[t] = 0 \/ (lag'[t] = lag[t] /\ pc'[t] \in Handling \ {"check"})
    <3>1. CASE CheckDue(t) \/ Choose(t)
      BY <1>0, <3>1 DEF CheckDue, Choose, Handling
    <3>2. CASE CheckNotDue(t)
      BY <1>0, <3>2 DEF CheckNotDue, Return
    <3>3. CASE Send(t) \/ BurstRound(t) \/ Destroy(t) \/ Stamp(t)
      BY <1>0, <3>3 DEF Send, BurstRound, Destroy, Stamp, Crash, threadVars, Handling
    <3>4. CASE Count(t)
      BY <1>0, <3>4 DEF Count, Return, Crash, threadVars, Handling
    <3> QED BY <1>2, <3>1, <3>2, <3>3, <3>4 DEF Handle
  <2> QED BY <2>1, <2>2 DEF NowRead
<1>3. CASE Wake \/ SweepNext
  BY <1>0, <1>3 DEF Wake, SweepNext, SweepTo, Crash, threadVars, NowRead, Handling, Threads
<1>4. CASE Tick
  BY <1>4 DEF Tick, NowRead, Handling, Older
<1>5. CASE UNCHANGED vars
  BY <1>5 DEF vars, threadVars, NowRead
<1> QED BY <1>1, <1>2, <1>3, <1>4, <1>5 DEF Next, MainStep, SweepStep, Dead, Threads

\* How main comes to work on a request, or goes on working on it.
LEMMA HandlingStep ==
    ASSUME IInv, [Next]_vars, pc'["main"] \in Handling
    PROVE  \/ Enqueue
           \/ /\ pc["main"] \in Handling /\ req'["main"] = req["main"]
              /\ Handle("main") \/ SweepStep \/ Tick \/ UNCHANGED vars
<1>0. /\ pc \in [Threads -> MainOnly \cup SweepOnly \cup Handling]
      /\ req \in [Threads -> ReqIds \cup {NoReq}]
  BY CountTypes
<1>1. CASE Receive \/ LookupHit \/ LookupMiss \/ Transmit \/ BatchNext \/ BatchDone
  BY <1>0, <1>1 DEF Receive, RecvIp, RecvArpReply, Unlink, ToOtherDest, LookupHit, LookupMiss,
     Transmit, BatchNext, BatchDone, MainAfter, Handling, Threads
<1>2. CASE Tick
  BY <1>2 DEF Tick
<1>3. CASE Handle("main")
  <2>1. CASE CheckNotDue("main")
    BY <1>0, <2>1 DEF CheckNotDue, Return, MainAfter, Handling, Threads
  <2>2. CASE ~CheckNotDue("main")
    BY <1>0, <1>3, <2>2 DEF Handle, CheckDue, Choose, Send, BurstRound, Destroy, Stamp, Count, Return,
       MainAfter, Crash, threadVars, Handling, Threads
  <2> QED BY <1>3, <2>1, <2>2
<1>4. CASE SweepStep
  BY <1>0, <1>4 DEF SweepStep, Wake, SweepNext, SweepTo, Handle, CheckDue, CheckNotDue, Choose, Send,
     BurstRound, Destroy, Stamp, Count, Return, Crash, threadVars, Threads
<1>5. CASE UNCHANGED vars
  BY <1>5 DEF vars, threadVars
<1> QED BY <1>1, <1>2, <1>3, <1>4, <1>5 DEF Next, MainStep, Dead

\* A request with one packet that main works on is new: it was counted once at most, and
\* then so lately that nobody counts it again before main is done with it.
Lately(r) ==
    \/ heap[r].times = 0
    \/ heap[r].times = 1 /\ heap[r].age <= elapsed["main"]

\* The sweeper at such a request has to send for it, or is about to count that.
Sending(r) ==
    pc["sweep"] \in Handling \ {"check"} /\ req["sweep"] = r =>
        /\ heap[r].times = 0
        /\ \/ pc["sweep"] \in {"choose", "send", "stamp"} /\ lag["sweep"] <= elapsed["main"]
           \/ pc["sweep"] = "count" /\ loaded["sweep"] = 0 /\ heap[r].age <= elapsed["main"]

\* A request with more packets is not one that handle_arpreq destroys (DInv).
Attended(r) ==
    /\ r \in ToSet(queue)
    /\ Len(heap[r].pkts) = 1 => Lately(r) /\ Sending(r) /\ pc["main"] # "destroy"
MInv ==
    pc["main"] \in Handling => Attended(req["main"]) /\ lag["main"] <= elapsed["main"]

\* sr_arpcache_queuereq hands main a new request, or one that has a second packet now.
LEMMA AttendedEnqueue ==
    ASSUME IInv, HInv, NowRead, ClocksBounded, Enqueue, elapsed'["main"] = elapsed["main"]
    PROVE  MInv'
<1>1. PICK r \in ReqIds :
         /\ \/ r \in ToSet(queue) /\ PushPacket(r)
            \/ r \notin DOMAIN heap /\ PushRequest(r)
         /\ req'["main"] = r
  BY CountTypes DEF Enqueue, ToSet, Live, Threads
<1>2. /\ pkt \in Packets /\ pc["main"] = "enqueue"
      /\ pc'["sweep"] = "sleep" /\ pc'["main"] = "check"
  BY CountTypes DEF Enqueue, IInv, TypeOK, MainTypes, LockFree, Threads
<1>3. lag'["main"] <= elapsed'["main"]
  <2>1. lag'["main"] = 0
    BY <1>2 DEF Enqueue, NowRead, Handling, Threads
  <2>2. elapsed["main"] \in 0 .. 2
    BY DEF ClocksBounded, Threads
  <2> QED BY <2>1, <2>2
<1>4. Sending(r)' /\ pc'["main"] # "destroy"
  BY <1>2 DEF Sending, Handling
<1>5. CASE r \in ToSet(queue) /\ PushPacket(r)
  <2>1. r \in DOMAIN heap /\ heap[r].pkts \in Seq(Packets) /\ heap[r].pkts # << >>
    BY <1>5, QueueFacts DEF IInv, QueueSound, PacketsInPlace, ToSet
  <2>2. heap'[r].pkts = Cons(pkt, heap[r].pkts) /\ UNCHANGED queue
    BY <1>5, <2>1, CountTypes DEF PushPacket
  <2>3. Len(heap'[r].pkts) = Len(heap[r].pkts) + 1
    <3>1. \A s \in Seq(Packets) : Len(Cons(pkt, s)) = Len(s) + 1
      BY <1>2, ConsFacts
    <3> QED BY <2>1, <2>2, <3>1
  <2>4. Len(heap[r].pkts) \in Nat /\ Len(heap[r].pkts) # 0
    BY <2>1
  <2>5. Len(heap'[r].pkts) # 1
    BY <2>3, <2>4
  <2> QED BY <1>1, <1>3, <1>5, <2>2, <2>5 DEF Attended, MInv
<1>6. CASE r \notin DOMAIN heap /\ PushRequest(r)
  <2>1. queue \in Seq(ReqIds) /\ queue' = Cons(r, queue) /\ heap'[r].times = 0
    BY <1>6, QueueFacts DEF PushRequest
  <2>2. r \in ToSet(queue')
    <3>0. \A s \in Seq(ReqIds) :
             Len(Cons(r, s)) = Len(s) + 1 /\ Cons(r, s)[1] = r /\ Cons(r, s) \in Seq(ReqIds)
      BY ConsFacts
    <3>1. Len(queue') = Len(queue) + 1 /\ queue'[1] = r /\ queue' \in Seq(ReqIds)
      BY <2>1, <3>0
    <3>2. Len(queue) \in Nat /\ DOMAIN queue' = 1 .. Len(queue')
      BY <2>1, <3>1
    <3>3. 1 \in DOMAIN queue'
      BY <3>1, <3>2
    <3> QED BY <3>1, <3>3 DEF ToSet
  <2>3. Lately(r)'
    BY <2>1 DEF Lately
  <2> QED BY <1>1, <1>3, <1>4, <2>2, <2>3 DEF Attended, MInv
<1> QED BY <1>1, <1>5, <1>6

\* What writing through a pointer to a request does to request r.
LEMMA WrittenThrough ==
    ASSUME IInv, NEW t \in Threads, NEW r \in DOMAIN heap,
           Send(t) \/ Stamp(t) \/ Count(t)
    PROVE  /\ UNCHANGED queue /\ r \in DOMAIN heap' /\ heap'[r].pkts = heap[r].pkts
           /\ req[t] # r => heap'[r] = heap[r]
           /\ ~Count(t) => heap'[r].times = heap[r].times
           /\ ~Stamp(t) => heap'[r].age = heap[r].age
           /\ Stamp(t) /\ req[t] = r => heap'[r].age = lag[t]
           /\ Count(t) /\ req[t] = r => heap'[r].times = loaded[t] + 1
<1>1. CASE Send(t)
  <2>1. CASE Live(req[t]) /\ heap' = [heap EXCEPT ![req[t]].tries = @ + 1]
    BY <1>1, <2>1, CountTypes DEF Live, Send, Stamp, Count, Crash
  <2> QED BY <1>1, <2>1 DEF Send, Stamp, Count, Crash
<1>2. CASE Stamp(t)
  <2>1. CASE Live(req[t]) /\ heap' = [heap EXCEPT ![req[t]].age = lag[t]]
    BY <1>2, <2>1, CountTypes DEF Live, Send, Stamp, Count, Crash
  <2> QED BY <1>2, <2>1 DEF Send, Stamp, Count, Crash, Live
<1>3. CASE Count(t)
  <2>1. CASE Live(req[t]) /\ heap' = [heap EXCEPT ![req[t]].times = loaded[t] + 1]
    BY <1>3, <2>1, CountTypes DEF Live, Send, Stamp, Count, Crash
  <2> QED BY <1>3, <2>1 DEF Send, Stamp, Count, Crash, Live
<1> QED BY <1>1, <1>2, <1>3

\* main's own steps on its request.
LEMMA AttendedMain ==
    ASSUME IInv, DInv, NowRead, MInv, ClocksBounded, pc["main"] \in Handling, Handle("main"),
           pc'["main"] \in Handling, req'["main"] = req["main"], elapsed'["main"] = elapsed["main"]
    PROVE  MInv'
<1> DEFINE r == req["main"]
<1>0. /\ pc \in [Threads -> MainOnly \cup SweepOnly \cup Handling] /\ "main" \in Threads
      /\ lag \in [Threads -> 0 .. 2] /\ elapsed["main"] \in 0 .. 2
      /\ r \in DOMAIN heap /\ Attended(r) /\ lag["main"] <= elapsed["main"]
      /\ heap[r].times \in Nat /\ heap[r].age \in 0 .. 2
  BY CountTypes, QueueFacts DEF Threads, MInv, Attended, ClocksBounded
<1>1. ~Destroy("main")
  <2> SUFFICES ASSUME Destroy("main") PROVE FALSE
    OBVIOUS
  <2>1. Len(heap[r].pkts) = 1
    BY <1>0 DEF Destroy, DInv, Exhausted, Live
  <2> QED BY <1>0, <2>1 DEF Destroy, Attended
<1>2. ~Count("main") /\ ~CheckNotDue("main")
  BY <1>0 DEF Count, CheckNotDue, Return, Crash, MainAfter, Handling, Live
<1>3. UNCHANGED <<queue, loaded>> \/ Stamp("main")
  BY <1>1, <1>2 DEF Handle, CheckDue, Choose, Send, BurstRound, Crash, threadVars
<1>4. /\ pc'["sweep"] = pc["sweep"] /\ req'["sweep"] = req["sweep"] /\ lag'["sweep"] = lag["sweep"]
      /\ loaded'["sweep"] = loaded["sweep"] /\ lag'["main"] = lag["main"] /\ UNCHANGED queue
  BY <1>0, <1>1, <1>2, CountTypes DEF Handle, CheckDue, Choose, Send, BurstRound, Stamp, Crash,
     threadVars, Threads
<1>5. /\ heap'[r].pkts = heap[r].pkts /\ heap'[r].times = heap[r].times
      /\ heap'[r].age = heap[r].age \/ heap'[r].age <= elapsed["main"]
  <2>1. CASE Send("main") \/ Stamp("main")
    BY <1>0, <1>2, <2>1, WrittenThrough
  <2>2. CASE CheckDue("main") \/ Choose("main") \/ BurstRound("main")
    BY <2>2 DEF CheckDue, Choose, BurstRound, Crash
  <2> QED BY <1>1, <1>2, <2>1, <2>2 DEF Handle
<1>6. Len(heap[r].pkts) = 1 => pc'["main"] # "destroy"
  <2>1. CASE Choose("main")
    <3>1. heap[r].times < MaxSends => AfterChoice(r) = "send"
      BY DEF AfterChoice
    <3>2. Len(heap[r].pkts) = 1 => heap[r].times < MaxSends
      BY <1>0, ConstantsAssumption, TimingAssumption DEF Attended, Lately
    <3> QED BY <1>0, <2>1, <3>1, <3>2 DEF Choose, Live
  <2>2. CASE ~Choose("main")
    BY <1>0, <1>1, <1>2, <2>2 DEF Handle, CheckDue, Send, BurstRound, Stamp, Crash, threadVars
  <2> QED BY <2>1, <2>2
<1>7. Len(heap[r].pkts) = 1 => Lately(r)' /\ Sending(r)'
  BY <1>0, <1>4, <1>5 DEF Attended, Lately, Sending
<1>8. Attended(r)'
  BY <1>0, <1>4, <1>5, <1>6, <1>7 DEF Attended
<1> QED BY <1>0, <1>4, <1>8 DEF MInv, Attended, Lately, Sending

\* handle_arpreq, run by the sweeper: what it does to main's request, while that has one
\* packet, is to send for it once and to count that.
LEMMA AttendedHandle ==
    ASSUME IInv, NowRead, NEW r \in ReqIds, Attended(r), ClocksBounded, elapsed'["main"] = elapsed["main"],
           pc'["main"] = pc["main"], Handle("sweep"), ~Destroy("sweep")
    PROVE  Attended(r)'
<1>0. /\ pc \in [Threads -> MainOnly \cup SweepOnly \cup Handling] /\ "sweep" \in Threads
      /\ req \in [Threads -> ReqIds \cup {NoReq}]
      /\ lag \in [Threads -> 0 .. 2] /\ loaded \in [Threads -> Nat]
      /\ elapsed["main"] \in 0 .. 2 /\ elapsed["main"] <= 1
      /\ r \in DOMAIN heap /\ heap[r].times \in Nat /\ heap[r].age \in 0 .. 2
  BY CountTypes, QueueFacts DEF Threads, Attended, ClocksBounded
<1>1. /\ r \in ToSet(queue') /\ heap'[r].pkts = heap[r].pkts
      /\ req["sweep"] # r => heap'[r] = heap[r]
      /\ req'["sweep"] = req["sweep"]
  <2>1. CASE Send("sweep") \/ Stamp("sweep") \/ Count("sweep")
    BY <1>0, <2>1, WrittenThrough DEF Attended, Send, Stamp, Count, Return, Crash, threadVars, Threads
  <2>2. CASE CheckDue("sweep") \/ CheckNotDue("sweep") \/ Choose("sweep") \/ BurstRound("sweep")
    BY <1>0, <2>2 DEF Attended, CheckDue, CheckNotDue, Choose, BurstRound, Return, Crash, threadVars,
       Threads
  <2> QED BY <2>1, <2>2 DEF Handle
<1> SUFFICES ASSUME Len(heap[r].pkts) = 1 PROVE Lately(r)' /\ Sending(r)'
  BY <1>1 DEF Attended
<1>2. Lately(r) /\ Sending(r)
  BY DEF Attended
<1>3. CASE req["sweep"] # r
  BY <1>1, <1>2, <1>3 DEF Lately, Sending
<1>4. CASE req["sweep"] = r
  <2>1. CASE CheckDue("sweep")
    <3>1. heap[r].age > 1 /\ UNCHANGED <<heap, lag>> /\ pc'["sweep"] = "choose"
      BY <1>0, <1>4, <2>1 DEF CheckDue, Live
    <3>2. heap[r].times = 0
      BY <1>0, <1>2, <3>1 DEF Lately
    <3>3. lag["sweep"] = 0
      BY <2>1 DEF NowRead, CheckDue, Threads
    <3> QED BY <1>0, <3>1, <3>2, <3>3 DEF Lately, Sending
  <2>2. CASE CheckNotDue("sweep")
    BY <1>0, <1>2, <2>2 DEF CheckNotDue, Return, Lately, Sending, Handling
  <2>3. CASE Choose("sweep")
    <3>1. heap[r].times = 0 /\ lag["sweep"] <= elapsed["main"]
      BY <1>2, <1>4, <2>3 DEF Sending, Choose, Handling
    <3>2. pc'["sweep"] = "send" /\ UNCHANGED <<heap, lag>>
      BY <1>0, <1>4, <2>3, <3>1, ConstantsAssumption DEF Choose, AfterChoice, Live
    <3> QED BY <3>1, <3>2 DEF Lately, Sending
  <2>4. CASE Send("sweep")
    <3>1. heap[r].times = 0 /\ lag["sweep"] <= elapsed["main"]
      BY <1>2, <1>4, <2>4 DEF Sending, Send, Handling
    <3>2. pc'["sweep"] \in {"send", "stamp"} /\ UNCHANGED lag
      BY <1>0, <2>4 DEF Send, Crash, threadVars
    <3>3. heap'[r].times = 0
      BY <1>0, <2>4, <3>1, WrittenThrough DEF Send, Count
    <3> QED BY <3>1, <3>2, <3>3 DEF Lately, Sending
  <2>5. CASE Stamp("sweep")
    <3>1. heap[r].times = 0 /\ lag["sweep"] <= elapsed["main"]
      BY <1>2, <1>4, <2>5 DEF Sending, Stamp, Handling
    <3>2. heap'[r].times = 0 /\ heap'[r].age = lag["sweep"]
      BY <1>0, <1>4, <2>5, <3>1, WrittenThrough DEF Stamp, Count
    <3>3. pc'["sweep"] = "count" /\ loaded'["sweep"] = 0
      BY <1>0, <1>4, <2>5, <3>1 DEF Stamp, Live
    <3> QED BY <3>1, <3>2, <3>3 DEF Lately, Sending
  <2>6. CASE Count("sweep")
    <3>1. loaded["sweep"] = 0 /\ heap[r].age <= elapsed["main"]
      BY <1>2, <1>4, <2>6 DEF Sending, Count, Handling
    <3>2. heap'[r].times = 1 /\ heap'[r].age = heap[r].age
      BY <1>0, <1>4, <2>6, <3>1, WrittenThrough DEF Stamp, Count
    <3>3. pc'["sweep"] = "next"
      BY <1>0, <1>4, <2>6 DEF Count, Return, Live
    <3> QED BY <3>1, <3>2, <3>3 DEF Lately, Sending, Handling
  <2>7. CASE BurstRound("sweep")
    BY <1>2, <1>4, <2>7 DEF Sending, BurstRound, Handling
  <2> QED BY <2>1, <2>2, <2>3, <2>4, <2>5, <2>6, <2>7 DEF Handle
<1> QED BY <1>3, <1>4

\* sr_arpreq_destroy, run by the sweeper, takes another request: main's has two packets
\* or is one that the sweeper sends for.
LEMMA AttendedDestroy ==
    ASSUME IInv, DInv, NEW r \in ReqIds, Attended(r), Destroy("sweep"), elapsed'["main"] = elapsed["main"],
           pc'["main"] = pc["main"]
    PROVE  Attended(r)'
<1>0. pc["sweep"] = "destroy"
  BY DEF Destroy
<1>1. CASE Crash("double_free")
  BY <1>1 DEF Crash, threadVars, Attended, Lately, Sending
<1>2. CASE ~Crash("double_free")
  <2>1. /\ Live(req["sweep"]) /\ ToSet(queue') = ToSet(queue) \ {req["sweep"]}
        /\ \A q \in DOMAIN heap \ {req["sweep"]} : heap'[q] = heap[q]
        /\ req' = req
    BY <1>2, Destroyed DEF Destroy, Threads
  <2>2. req["sweep"] # r
    <3>1. ASSUME req["sweep"] = r PROVE FALSE
      <4>1. Len(heap[r].pkts) = 1
        BY <1>0, <2>1, <3>1 DEF DInv, Exhausted, Threads
      <4> QED BY <1>0, <3>1, <4>1 DEF Attended, Sending, Handling
    <3> QED BY <3>1
  <2>3. r \in ToSet(queue') /\ heap'[r] = heap[r]
    BY <2>1, <2>2, QueueFacts DEF Attended
  <2> QED BY <2>1, <2>2, <2>3 DEF Attended, Lately, Sending
<1> QED BY <1>1, <1>2

\* The sweeper goes to a request, whichever it is.
LEMMA AttendedMove ==
    ASSUME IInv, NEW r \in ReqIds, Attended(r), Wake \/ SweepNext, elapsed'["main"] = elapsed["main"],
           pc'["main"] = pc["main"]
    PROVE  Attended(r)'
<1>1. UNCHANGED <<queue, heap>>
  BY DEF Wake, SweepNext, SweepTo, Crash
<1>2. pc'["sweep"] \in {"sleep", "check", "next"}
  BY CountTypes DEF Wake, SweepNext, SweepTo, Crash, threadVars, Threads
<1> QED BY <1>1, <1>2 DEF Attended, Lately, Sending, Handling

\* Time passes for main's handler and for what it is compared with.
LEMMA AttendedTick ==
    ASSUME IInv, MInv, ClocksBounded, pc["main"] \in Handling, TimedTick
    PROVE  MInv'
<1> DEFINE r == req["main"]
<1>0. /\ Attended(r) /\ lag["main"] <= elapsed["main"] /\ r \in DOMAIN heap
      /\ lag["main"] \in 0 .. 2 /\ lag["sweep"] \in 0 .. 2 /\ elapsed["main"] \in 0 .. 2
      /\ heap[r].age \in 0 .. 2 /\ heap[r].times \in Nat
  BY CountTypes, QueueFacts DEF MInv, Attended, ClocksBounded, Threads
<1>1. /\ UNCHANGED <<queue, pc, req, loaded>>
      /\ heap'[r] = [heap[r] EXCEPT !.age = Older(@, 2)]
      /\ elapsed'["main"] = elapsed["main"] + 1
      /\ \A t \in Threads : lag'[t] = lag[t] \/ lag'[t] = Older(lag[t], 2)
  BY <1>0 DEF TimedTick, Tick, Handling, Threads
<1>2. \A a \in 0 .. 2 : Older(a, 2) <= a + 1 /\ Older(a, 2) \in 0 .. 2
  BY DEF Older
<1>3. lag'["main"] <= elapsed'["main"]
  <2>1. lag'["main"] = lag["main"] \/ lag'["main"] = Older(lag["main"], 2)
    BY <1>1 DEF Threads
  <2> QED BY <1>0, <1>1, <1>2, <2>1
<1>4. lag["sweep"] <= elapsed["main"] => lag'["sweep"] <= elapsed'["main"]
  <2>1. lag'["sweep"] = lag["sweep"] \/ lag'["sweep"] = Older(lag["sweep"], 2)
    BY <1>1 DEF Threads
  <2> QED BY <1>0, <1>1, <1>2, <2>1
<1>5. /\ heap'[r].pkts = heap[r].pkts /\ heap'[r].times = heap[r].times
      /\ heap[r].age <= elapsed["main"] => heap'[r].age <= elapsed'["main"]
  <2>1. heap[r] \in [ip : IPs, age : 0 .. 2, times : Nat, tries : Nat, pkts : Seq(Packets)]
    BY <1>0, CountTypes
  <2>2. heap'[r].pkts = heap[r].pkts /\ heap'[r].times = heap[r].times
        /\ heap'[r].age = Older(heap[r].age, 2)
    BY <1>1, <2>1
  <2> QED BY <1>0, <1>1, <1>2, <2>2
<1>6. Attended(r)'
  BY <1>0, <1>1, <1>4, <1>5 DEF Attended, Lately, Sending
<1> QED BY <1>1, <1>3, <1>6 DEF MInv, Attended, Lately, Sending

\* Every step of the threads that keep up leaves main's request attended.
LEMMA AttendedStep ==
    ASSUME IInv, HInv, DInv, NowRead, MInv, ClocksBounded, [TimedNext]_timedVars
    PROVE  MInv'
<1> SUFFICES ASSUME pc'["main"] \in Handling PROVE MInv'
  BY DEF MInv
<1>0. /\ pc["main"] \in Handling => \E r \in ReqIds : r = req["main"] /\ Attended(r)
      /\ pc \in [Threads -> MainOnly \cup SweepOnly \cup Handling]
  BY CountTypes, QueueFacts DEF MInv, Attended, ToSet
<1>1. [Next]_vars
  BY DEF TimedNext, TimedMain, TimedSweep, TimedTick, Next, timedVars
<1>2. CASE TimedMain
  <2>1. elapsed'["main"] = elapsed["main"]
    BY <1>2 DEF TimedMain, ClocksBounded, Handling, Threads
  <2>2. CASE Enqueue
    BY <2>1, <2>2, AttendedEnqueue
  <2>3. CASE ~Enqueue /\ Handle("main")
    BY <1>1, <2>1, <2>3, HandlingStep, AttendedMain
  <2>4. CASE ~Enqueue /\ ~Handle("main")
    <3>1. CASE Receive \/ LookupHit \/ LookupMiss \/ Transmit \/ BatchNext \/ BatchDone
      BY <1>0, <3>1 DEF Receive, RecvIp, RecvArpReply, Unlink, ToOtherDest, LookupHit, LookupMiss,
         Transmit, BatchNext, BatchDone, MainAfter, Handling, Threads
    <3> QED BY <1>2, <2>4, <3>1 DEF TimedMain, MainStep
  <2> QED BY <2>2, <2>3, <2>4
<1>3. CASE TimedSweep
  <2>1. elapsed'["main"] = elapsed["main"]
    BY <1>3 DEF TimedSweep, ClocksBounded, Threads
  <2>2. pc'["main"] = pc["main"] /\ req'["main"] = req["main"] /\ lag'["main"] = lag["main"]
    BY <1>0, <1>3, CountTypes DEF TimedSweep, SweepStep, Wake, SweepNext, SweepTo, Handle, CheckDue,
       CheckNotDue, Choose, Send, BurstRound, Destroy, Stamp, Count, Return, Crash, threadVars, Threads
  <2>3. PICK r \in ReqIds : r = req["main"] /\ Attended(r)
    BY <1>0, <2>2 DEF Handling
  <2>4. Attended(r)'
    BY <1>3, <2>1, <2>2, <2>3, AttendedMove, AttendedHandle, AttendedDestroy
       DEF TimedSweep, SweepStep
  <2> QED BY <2>1, <2>2, <2>3, <2>4 DEF MInv, Attended, Lately, Sending
<1>4. CASE TimedTick
  <2>1. pc["main"] \in Handling
    BY <1>4 DEF TimedTick, Tick
  <2> QED BY <1>4, <2>1, AttendedTick
<1>5. CASE UNCHANGED timedVars \/ (Dead /\ UNCHANGED <<elapsed, copied>>)
  <2>1. UNCHANGED <<queue, heap, pc, req, lag, loaded, elapsed>>
    BY <1>5 DEF Dead, vars, threadVars, timedVars
  <2>2. PICK r \in ReqIds : r = req["main"] /\ Attended(r)
    BY <1>0, <2>1
  <2>3. Attended(r)' /\ lag'["main"] <= elapsed'["main"] /\ req'["main"] = r
    BY <2>1, <2>2 DEF MInv, Attended, Lately, Sending
  <2> QED BY <2>3 DEF MInv, Attended, Lately, Sending
<1> QED BY <1>2, <1>3, <1>4, <1>5 DEF TimedNext, timedVars

\* While the machine keeps up, handle_arpreq in the main thread never follows a pointer
\* to a freed request, in the writes of "sent" and "times_sent" after the choice either,
\* although sr_arpcache_queuereq returns it without the lock, the sweeper destroys
\* requests meanwhile, and the sweep itself may go astray.
THEOREM MainPointerStaysLive == TimedSpec => []MainPointerLive
<1>1. TimedInit => NowRead /\ MInv
  BY DEF TimedInit, Init, NowRead, MInv, Handling, Threads
<1>2. IInv /\ HInv /\ DInv /\ ClocksBounded /\ NowRead /\ MInv /\ [TimedNext]_timedVars
        => NowRead' /\ MInv'
  <2>1. [TimedNext]_timedVars => [Next]_vars
    BY DEF TimedNext, TimedMain, TimedSweep, TimedTick, Next, timedVars
  <2> QED BY <2>1, NowReadStep, AttendedStep
<1>3. IInv /\ MInv => MainPointerLive
  BY QueueFacts DEF MInv, Attended, MainPointerLive, Live
<1> QED BY <1>1, <1>2, <1>3, TimedIsSpec, ExhaustedInvariance, HeldInvariance, ClocksInvariance,
        Invariance, PTL DEF TimedSpec
=============================================================================

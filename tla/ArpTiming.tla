------------------------------ MODULE ArpTiming ------------------------------
(***************************************************************************)
(* ArpCache while the machine keeps up: main handles a frame, and the      *)
(* sweeper makes a pass, in less than a second, waits for the lock         *)
(* included.  A pass that spins in handle_arpreq is not one of these.      *)
(*                                                                         *)
(* sleep(1.0) starts after the pass, so that time() may advance twice from *)
(* one pass to the next: once in the pass or before the thread is awake    *)
(* again, and once in its sleep.                                           *)
(***************************************************************************)
EXTENDS ArpCache

\* With a second try before a request is given up, its first sweep does not free it.
\* Ages that would exceed the bounds below are told apart.
ASSUME TimingAssumption == MaxSends >= 2 /\ AgeCap >= Timeout + 4

VARIABLES
    elapsed,  \* seconds since main's handler was entered, and since the pass began
    copied    \* age of the cache entry main copied, while it transmits to it

timedVars == <<vars, elapsed, copied>>

TimedInit ==
    /\ Init
    /\ elapsed = [t \in Threads |-> 0]
    /\ copied = 0

\* sr_arpcache_lookup hands out a copy, whose "added" nobody looks at any more.
TimedMain ==
    /\ Receive \/ MainStep
    /\ elapsed' = [elapsed EXCEPT !["main"] = IF pc'["main"] = "idle" THEN 0 ELSE @]
    /\ \/ pc'["main"] # "transmit" /\ copied' = 0
       \/ /\ pc'["main"] = "transmit"
          /\ \E i \in DOMAIN entries : LookupResult(Dst[pkt], i) /\ copied' = entries[i].age

TimedSweep ==
    /\ SweepStep
    /\ elapsed' = [elapsed EXCEPT !["sweep"] = IF pc["sweep"] = "sleep" THEN 0 ELSE @]
    /\ UNCHANGED copied

TimedTick ==
    /\ Tick
    /\ pc["main"] # "idle" => elapsed["main"] = 0
    /\ elapsed["sweep"] < IF LockFree THEN 2 ELSE 1
    /\ elapsed' = [t \in Threads |->
                     IF t = "main" /\ pc["main"] = "idle" THEN 0 ELSE elapsed[t] + 1]
    /\ copied' = IF pc["main"] = "transmit" THEN Older(copied, AgeCap) ELSE copied

TimedNext == TimedMain \/ TimedSweep \/ TimedTick \/ (Dead /\ UNCHANGED <<elapsed, copied>>)

TimedSpec == TimedInit /\ [][TimedNext]_timedVars

-----------------------------------------------------------------------------
\* The copy of a cache entry that packet_to_other_dest uses after the lock is released
\* is at most three seconds older than SR_ARPCACHE_TO when the packet leaves: two for
\* the entry, which waits for the pass after the one that found it young enough, and
\* one for the copy, whatever the sweeper does to the entry meanwhile.
CopyFresh == pc["main"] = "transmit" => copied <= Timeout + 3

\* The request that sr_arpcache_queuereq returned without the lock is allocated at each
\* line of handle_arpreq that main is at, the writes of "sent" and "times_sent" at its
\* end included, although the sweeper, or main itself, may destroy requests.
MainPointerLive == pc["main"] \in Handling => Live(req["main"])
=============================================================================

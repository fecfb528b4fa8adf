-------------------------- MODULE ThroughputProofs --------------------------
(* Proofs about ThroughputController, for every length of a slot, every     *)
(* number of acknowledgements and however far the clock runs.               *)
EXTENDS ThroughputController, TLAPS

\* The inductive invariant: the estimate is an average of counts, none above the
\* busiest slot's.
EstimateBounded == estimate_throughput * HalfSlot <= Unit * busiest

\* A slot was opened past the end of the one before.
EndsWithinSlot == end_time < opened + Slot

CInv ==
    /\ TypeOK /\ EachAckCounted /\ SlotNotAhead /\ EstimateBounded /\ WindowTracksThroughput
    /\ EndsWithinSlot /\ CountsOneSlot

-----------------------------------------------------------------------------
\* The average of an estimate and a count that are bounded is.
LEMMA AverageBounded ==
    ASSUME estimate_throughput \in Nat, NEW count \in Nat, NEW most \in Nat,
           estimate_throughput * HalfSlot <= Unit * most, count <= most
    PROVE  Average(count) \in Nat /\ Average(count) * HalfSlot <= Unit * most
<1> DEFINE e == (85 * estimate_throughput) \div 100
           o == (150000 * count) \div 1500
<1>1. e \in Nat /\ 100 * e <= 85 * estimate_throughput
  OBVIOUS
<1>2. o \in Nat /\ 1500 * o <= 150000 * count
  OBVIOUS
<1>3. Average(count) = e + o
  BY DEF Average, Unit, HalfSlot
<1> HIDE DEF e, o
<1>4. e + o \in Nat /\ (e + o) * 15 <= 10000 * most
  BY <1>1, <1>2 DEF Unit, HalfSlot
<1> QED BY <1>3, <1>4 DEF Unit, HalfSlot

\* A bound on the estimate stays one when the busiest slot is outdone.
LEMMA BoundGrows ==
    ASSUME NEW e \in Nat, NEW a \in Nat, NEW b \in Nat, a <= b, e * HalfSlot <= Unit * a
    PROVE  e * HalfSlot <= Unit * b
BY DEF Unit, HalfSlot

\* A window is at least one datagram, and not more than its estimate times the delay
\* unless that is less than one.
LEMMA AtLeastBounded ==
    ASSUME NEW e \in Nat, NEW d \in {44, 50}, NEW most \in Nat, e * HalfSlot <= Unit * most
    PROVE  /\ AtLeast(e * d) \in Nat /\ AtLeast(e * d) >= 1
           /\ AtLeast(e * d) * HalfSlot <= 50 * (IF most > 0 THEN most ELSE 1)
<1> DEFINE w == (e * d) \div Unit
<1>1. e * d \in Nat /\ e * d <= 50 * e
  OBVIOUS
<1>2. CASE e * d < Unit
  <2>1. AtLeast(e * d) = 3
    BY <1>2 DEF AtLeast
  <2> QED BY <2>1 DEF HalfSlot
<1>3. CASE ~(e * d < Unit)
  <2>1. AtLeast(e * d) = w
    BY <1>3 DEF AtLeast
  <2>2. w \in Nat /\ w >= 1 /\ 10000 * w <= e * d
    <3> DEFINE x == e * d
    <3>1. x \in Nat /\ x >= 10000
      BY <1>1, <1>3 DEF Unit
    <3> HIDE DEF x
    <3>2. x \div 10000 \in Nat /\ x \div 10000 >= 1 /\ 10000 * (x \div 10000) <= x
      BY <3>1
    <3> QED BY <3>2 DEF x, Unit
  <2> HIDE DEF w
  <2>3. w * 15 <= 50 * most
    BY <1>1, <2>2 DEF Unit, HalfSlot
  <2> QED BY <2>1, <2>2, <2>3 DEF HalfSlot
<1> QED BY <1>2, <1>3

\* Nothing has been counted yet.
LEMMA CInvInit == Init => CInv
BY ThroughputAssumption
DEF Init, CInv, TypeOK, EachAckCounted, SlotNotAhead, EndsWithinSlot, CountsOneSlot,
    EstimateBounded, WindowTracksThroughput, InitialWindow, Unit, HalfSlot

\* An acknowledgement keeps the invariant: it is counted in its slot or closes it.
LEMMA CInvAck ==
    ASSUME CInv, NEW ts \in stamp .. now, NEW late \in BOOLEAN, AckReceived(ts, late)
    PROVE  CInv'
<1>1. /\ now \in Nat /\ stamp \in Nat /\ stamp <= now /\ ts \in Nat /\ end_time \in Nat
      /\ packet_count \in Nat /\ estimate_throughput \in Nat /\ counted \in Nat /\ busiest \in Nat /\ opened \in Nat
      /\ acks \in Nat /\ acks < MaxAcks /\ Slot \in Nat /\ Slot > 0
  BY ThroughputAssumption DEF CInv, TypeOK, AckReceived
<1>2. /\ successive_time_out' \in 0 .. 2 /\ delay' \in {44, 50}
      /\ acks' = acks + 1 /\ acks' \in 0 .. MaxAcks /\ stamp' = ts /\ now' = now
      /\ stamp' \in 0 .. now'
  BY <1>1, ThroughputAssumption DEF AckReceived, Timeliness, CInv, TypeOK
<1>3. CASE InSlot(ts)
  <2>1. /\ packet_count' = packet_count + 1 /\ ts <= end_time
        /\ UNCHANGED <<end_time, estimate_throughput, this_window, counted, busiest, opened>>
    BY <1>3 DEF InSlot
  <2>2. TypeOK'
    BY <1>1, <1>2, <2>1 DEF CInv, TypeOK
  <2>3. EachAckCounted'
    BY <1>1, <1>2, <2>1 DEF CInv, EachAckCounted
  <2>4. SlotNotAhead'
    BY <1>1, <1>2, <2>1 DEF CInv, SlotNotAhead
  <2>5. EstimateBounded' /\ WindowTracksThroughput'
    BY <2>1 DEF CInv, EstimateBounded, WindowTracksThroughput
  <2>6. EndsWithinSlot' /\ CountsOneSlot'
    BY <1>1, <1>2, <2>1 DEF CInv, EndsWithinSlot, CountsOneSlot
  <2> QED BY <2>2, <2>3, <2>4, <2>5, <2>6 DEF CInv
<1>4. CASE NewSlot(ts)
  <2>1. /\ ts > end_time /\ end_time' = Slot + end_time /\ packet_count' = 1 /\ opened' = ts
        /\ counted' = counted + packet_count
        /\ busiest' = IF packet_count > busiest THEN packet_count ELSE busiest
        /\ estimate_throughput' = Average(packet_count)
        /\ this_window' = AtLeast(estimate_throughput' * delay')
    BY <1>4 DEF NewSlot
  <2>2. busiest' \in Nat /\ packet_count <= busiest' /\ busiest <= busiest'
    BY <1>1, <2>1
  <2>3. estimate_throughput * HalfSlot <= Unit * busiest'
    <3>1. estimate_throughput * HalfSlot <= Unit * busiest
      BY DEF CInv, EstimateBounded
    <3> QED BY <1>1, <2>2, <3>1, BoundGrows
  <2>4. estimate_throughput' \in Nat /\ EstimateBounded'
    BY <1>1, <2>1, <2>2, <2>3, AverageBounded DEF EstimateBounded
  <2>5. this_window' \in Nat /\ WindowTracksThroughput'
    BY <1>2, <2>1, <2>2, <2>4, AtLeastBounded DEF EstimateBounded, WindowTracksThroughput
  <2>6. TypeOK'
    BY <1>1, <1>2, <2>1, <2>2, <2>4, <2>5 DEF CInv, TypeOK
  <2>7. EachAckCounted'
    BY <1>1, <1>2, <2>1 DEF CInv, EachAckCounted
  <2>8. SlotNotAhead'
    BY <1>1, <1>2, <2>1 DEF CInv, SlotNotAhead
  <2>9. EndsWithinSlot' /\ CountsOneSlot'
    BY <1>1, <1>2, <2>1 DEF CInv, EndsWithinSlot, CountsOneSlot
  <2> QED BY <2>4, <2>5, <2>6, <2>7, <2>8, <2>9 DEF CInv
<1> QED BY <1>3, <1>4 DEF AckReceived

\* Every step keeps the invariant.
LEMMA CInvStep == CInv /\ [Next]_vars => CInv'
<1> SUFFICES ASSUME CInv, [Next]_vars PROVE CInv'
  OBVIOUS
<1>1. CASE Tick
  BY <1>1 DEF Tick, CInv, TypeOK, EachAckCounted, SlotNotAhead, EndsWithinSlot,
              CountsOneSlot, EstimateBounded, WindowTracksThroughput
<1>2. CASE UNCHANGED vars
  BY <1>2 DEF vars, CInv, TypeOK, EachAckCounted, SlotNotAhead, EndsWithinSlot,
              CountsOneSlot, EstimateBounded, WindowTracksThroughput
<1> QED BY <1>1, <1>2, CInvAck DEF Next

\* What holds of the controller whatever the path does.
LEMMA ControllerInvariance == Spec => []CInv
BY CInvInit, CInvStep, PTL DEF Spec

\* Every variable of the controller keeps its type.
THEOREM ControllerTypes == Spec => []TypeOK
<1>1. CInv => TypeOK
  BY DEF CInv
<1> QED BY <1>1, ControllerInvariance, PTL

\* Each acknowledgement is counted in exactly one slot.
THEOREM AcksCounted == Spec => []EachAckCounted
<1>1. CInv => EachAckCounted
  BY DEF CInv
<1> QED BY <1>1, ControllerInvariance, PTL

\* The controller's slots never run ahead of the clock.
THEOREM SlotsBehindClock == Spec => []SlotNotAhead
<1>1. CInv => SlotNotAhead
  BY DEF CInv
<1> QED BY <1>1, ControllerInvariance, PTL

\* No slot counts the acknowledgements of more than its own length of time.
THEOREM SlotsNotOverstated == Spec => []CountsOneSlot
<1>1. CInv => CountsOneSlot
  BY DEF CInv
<1> QED BY <1>1, ControllerInvariance, PTL

\* The window follows what was observed: at most 50/15 times the most counted in a slot.
THEOREM WindowTracks == Spec => []WindowTracksThroughput
<1>1. CInv => WindowTracksThroughput
  BY DEF CInv
<1> QED BY <1>1, ControllerInvariance, PTL
=============================================================================

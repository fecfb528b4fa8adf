------------------------ MODULE ThroughputController ------------------------
(***************************************************************************)
(* The controller of controller_throughput.cc: acknowledgements are        *)
(* counted per slot of time, an average of the counts estimates the        *)
(* throughput, and the window is the estimate times a delay.               *)
(*                                                                         *)
(* The clock, the path and the sender are left open: acknowledgements are  *)
(* read in the order they arrived in, each late or not, and read any time  *)
(* after its arrival.  estimate_throughput, a double, is kept in units of  *)
(* 1/Unit, rounded down.                                                   *)
(***************************************************************************)
EXTENDS Naturals

CONSTANTS
    Slot,       \* 30 ms in the code, in ticks
    MaxAcks,    \* bound on the acknowledgements
    MaxNow      \* bound on the clock

ASSUME ThroughputAssumption == Slot \in Nat \ {0} /\ MaxAcks \in Nat /\ MaxNow \in Nat

VARIABLES
    now, stamp,             \* the clock, and the last timestamp_ack_received
    end_time, packet_count, estimate_throughput, successive_time_out, delay,
    this_window,
    acks, counted, busiest, \* acknowledgements; those in closed slots; the most in one slot
    opened                  \* when the acknowledgement came that opened the slot

vars == <<now, stamp, end_time, packet_count, estimate_throughput, successive_time_out,
          delay, this_window, acks, counted, busiest, opened>>

Unit == 10000
HalfSlot == 15          \* slot/2, the divisor of observed_throughput
InitialWindow == 10

Init ==
    /\ now = 0 /\ stamp = 0
    /\ end_time = 0 /\ packet_count = 0
    /\ estimate_throughput = 0
    /\ successive_time_out = 0 /\ delay = 50
    /\ this_window = InitialWindow
    /\ acks = 0 /\ counted = 0 /\ busiest = 0 /\ opened = 0

Tick ==
    /\ now < MaxNow
    /\ now' = now + 1
    /\ UNCHANGED <<stamp, end_time, packet_count, estimate_throughput, successive_time_out,
                   delay, this_window, acks, counted, busiest, opened>>

\* Mutant of Average: alpha weighs the estimate only.
AverageUnweighted(count) ==
    (85 * estimate_throughput) \div 100 + (Unit * count) \div HalfSlot

\* estimate*(1-alpha) + alpha*observed, with alpha = 0.15.
Average(count) ==
    (85 * estimate_throughput) \div 100 + (15 * Unit * count) \div (100 * HalfSlot)

\* if (this_window_<1) this_window_=3, on a window in units of 1/Unit; window_size
\* drops the fraction.
AtLeast(scaled) == IF scaled < Unit THEN 3 ELSE scaled \div Unit

Timeliness(late) ==
    /\ successive_time_out' = IF late THEN (IF successive_time_out < 2
                                            THEN successive_time_out + 1 ELSE 2) ELSE 0
    /\ delay' = IF successive_time_out' >= 2 THEN 44 ELSE 50

\* Mutant of InSlot: the slot is moved on outside the "else".
InSlotExtending(ts) ==
    /\ ts <= end_time
    /\ packet_count' = packet_count + 1
    /\ end_time' = Slot + end_time
    /\ UNCHANGED <<estimate_throughput, this_window, counted, busiest, opened>>

InSlot(ts) ==
    /\ ts <= end_time
    /\ packet_count' = packet_count + 1
    /\ UNCHANGED <<end_time, estimate_throughput, this_window, counted, busiest, opened>>

\* Mutant of NewSlot: the count of the new slot starts at 0.
NewSlotEmpty(ts) ==
    /\ ts > end_time
    /\ estimate_throughput' = Average(packet_count)
    /\ this_window' = AtLeast(estimate_throughput' * delay')
    /\ end_time' = Slot + end_time
    /\ counted' = counted + packet_count
    /\ busiest' = IF packet_count > busiest THEN packet_count ELSE busiest
    /\ packet_count' = 0 /\ opened' = ts

\* Mutant of NewSlot: the slot starts when the acknowledgement came.
NewSlotFromAck(ts) ==
    /\ ts > end_time
    /\ estimate_throughput' = Average(packet_count)
    /\ this_window' = AtLeast(estimate_throughput' * delay')
    /\ end_time' = Slot + ts
    /\ counted' = counted + packet_count
    /\ busiest' = IF packet_count > busiest THEN packet_count ELSE busiest
    /\ packet_count' = 1 /\ opened' = ts

\* The first acknowledgement past end_time closes the slot and opens the next one,
\* which starts at the old end_time, however long ago that was.
NewSlot(ts) ==
    /\ ts > end_time
    /\ estimate_throughput' = Average(packet_count)
    /\ this_window' = AtLeast(estimate_throughput' * delay')
    /\ end_time' = Slot + end_time
    /\ counted' = counted + packet_count
    /\ busiest' = IF packet_count > busiest THEN packet_count ELSE busiest
    /\ packet_count' = 1 /\ opened' = ts

AckReceived(ts, late) ==
    /\ acks < MaxAcks
    /\ acks' = acks + 1
    /\ stamp' = ts
    /\ Timeliness(late)
    /\ InSlot(ts) \/ NewSlot(ts)
    /\ UNCHANGED now

Next == Tick \/ \E ts \in stamp .. now, late \in BOOLEAN : AckReceived(ts, late)

Spec == Init /\ [][Next]_vars

-----------------------------------------------------------------------------
TypeOK ==
    /\ now \in Nat /\ stamp \in 0 .. now
    /\ end_time \in Nat /\ packet_count \in Nat /\ estimate_throughput \in Nat
    /\ successive_time_out \in 0 .. 2 /\ delay \in {44, 50}
    /\ this_window \in Nat
    /\ acks \in 0 .. MaxAcks /\ counted \in Nat /\ busiest \in Nat /\ opened \in Nat

\* Each acknowledgement is counted in exactly one slot, the one that closes a slot
\* in the next.
EachAckCounted == counted + packet_count = acks

\* The controller never counts for a slot the clock has not reached: its slots fall
\* behind the clock in an outage, and catch up one acknowledgement at a time, but
\* do not run ahead of it.
SlotNotAhead == end_time < stamp + Slot \/ end_time = 0

\* The throughput is never overstated, though the slots lie in the past after an
\* outage, and each of them is divided by its own length only: as long as they do, each
\* holds a single acknowledgement, and those counted together came within one slot's time.
CountsOneSlot == packet_count > 1 => stamp <= end_time /\ stamp < opened + Slot

\* The estimate averages what was observed: once a slot was closed the
\* window is at most 50/15 times the most acknowledgements counted in one slot.
WindowTracksThroughput ==
    end_time > 0 => this_window * HalfSlot <= 50 * (IF busiest > 0 THEN busiest ELSE 1)
=============================================================================

----------------------------- MODULE AimdSender -----------------------------
(***************************************************************************)
(* DatagrumpSender with the controller of controller_AIMD_best.cc: slow    *)
(* start up to a threshold, congestion avoidance above it, and a collapse  *)
(* on an acknowledgement that comes later than timeout_ms.                 *)
(*                                                                         *)
(* this_window_ is a long double.  What the sender and the controller tell *)
(* apart is its integer part, which window_size returns, and whether there *)
(* is a fraction beyond it, which "this_window_<=ssthresh_" sees.          *)
(***************************************************************************)
EXTENDS DatagrumpSender

CONSTANT InitialThresh    \* 25 in the code

VARIABLES
    fraction,   \* this_window_ has a fractional part
    ssthresh,
    lates       \* late acknowledgements since the last timely one, up to 2

aimdVars == <<fraction, ssthresh, lates>>

LossWindow == 3

ASSUME AimdAssumption == InitialWindow >= LossWindow /\ InitialThresh \in Nat \ {0, 1}

AInit ==
    /\ Init
    /\ fraction = FALSE
    /\ ssthresh = InitialThresh
    /\ lates = 0

\* this_window_ <= ssthresh_
InSlowStart == window < ssthresh \/ (window = ssthresh /\ ~fraction)

SlowStart ==
    /\ InSlowStart
    /\ window' = window + 1
    /\ UNCHANGED <<fraction, ssthresh>>

\* this_window_+(2/this_window_): less than one more, as the window is at least 3.
CongestionAvoidance ==
    /\ ~InSlowStart
    /\ \/ window' = window /\ fraction' = TRUE
       \/ fraction /\ window' = window + 1 /\ fraction' \in BOOLEAN
    /\ UNCHANGED ssthresh

\* Mutant of Collapse: half the window, as TCP does, and not 3.
CollapseHalf ==
    /\ ssthresh' = window \div 2 + 1
    /\ window' = window \div 2
    /\ fraction' = FALSE

\* Mutant of Collapse: the threshold is the window and not half of it.
CollapseFull ==
    /\ ssthresh' = window + 1
    /\ window' = LossWindow
    /\ fraction' = FALSE

\* ssthresh_ is a long: this_window_/2+1 is truncated.
Collapse ==
    /\ ssthresh' = window \div 2 + 1
    /\ window' = LossWindow
    /\ fraction' = FALSE

AckReceived(late) ==
    \/ ~late /\ (SlowStart \/ CongestionAvoidance) /\ lates' = 0
    \/ late /\ Collapse /\ lates' = IF lates < 2 THEN lates + 1 ELSE 2

AGotAck ==
    /\ ReadAck
    /\ AckReceived(Head(inbox).late)
    /\ peak' = Wider(peak, window')

ANext == AGotAck \/ ((CloseWindow \/ AfterTimeout \/ Throw \/ Path) /\ UNCHANGED aimdVars)

avars == <<vars, aimdVars>>

ASpec == AInit /\ [][ANext]_avars

\* poll reports what is ready, and time passes.  Nothing is assumed of the path.
AFairSpec ==
    /\ ASpec
    /\ WF_avars(AGotAck)
    /\ WF_avars(CloseWindow /\ UNCHANGED aimdVars)
    /\ WF_avars(AfterTimeout /\ UNCHANGED aimdVars)
    /\ WF_avars(Tick /\ UNCHANGED aimdVars)

-----------------------------------------------------------------------------
ATypeOK ==
    /\ TypeOK
    /\ fraction \in BOOLEAN
    /\ ssthresh \in Nat
    /\ lates \in 0 .. 2

\* The sender always has datagrams to send when its acknowledgements come in: the
\* window never falls below 3, so "if (this_window_<1)" is never taken and 2/w is
\* less than one; and the threshold never falls below 2.
WindowFloor == window >= LossWindow /\ ssthresh >= 2

\* A delay spike makes all the acknowledgements in flight late, and each of them
\* counts as a loss: after two in a row the threshold is 2, below the window of 3,
\* and slow start is over, however wide the window was before the spike.
SpikeEndsSlowStart == lates = 2 => ssthresh = 2 /\ window = LossWindow /\ ~InSlowStart

\* The controller keeps to what DatagrumpSender asks of one: its window stays among
\* Windows, from 3 up, so what holds of the sender holds with it.
IsSender == Spec
=============================================================================

-------------------------- MODULE DatagrumpSender --------------------------
(***************************************************************************)
(* The accounting of the congestion-control sender (sender.cc) over a UDP  *)
(* path that may lose, duplicate and reorder, with any controller: what    *)
(* ack_received does to the window is left open here and filled in by      *)
(* AimdSender.                                                             *)
(*                                                                         *)
(* The receiver is outside the repository; as got_ack relies on, it echoes *)
(* the number and send time of each datagram it gets.  A datagram and its  *)
(* acknowledgement are one item in transit, known by its number and by the *)
(* time since it was sent.  The kernel stamps an acknowledgement when it   *)
(* arrives (set_timestamps), so whether it is late is settled there and    *)
(* not when the sender reads it.                                           *)
(***************************************************************************)
EXTENDS Naturals, Sequences, FiniteSets

CONSTANTS
    Windows,        \* values the controller's window_size() may take
    InitialWindow,  \* 10 in the code
    Timeout,        \* timeout_ms(), in ticks: also the longest round trip that is not late
    MaxFaults,      \* bound on the losses, duplications, reorderings and sends put off
    MaxSeq,         \* bound on the datagrams sent
    Word            \* 2^64, the range of the counters

ASSUME SenderAssumption ==
    /\ Windows \subseteq Nat
    /\ InitialWindow \in Windows
    /\ Timeout \in Nat \ {0}
    /\ MaxFaults \in Nat
    /\ MaxSeq \in Nat
    /\ Word \in Nat /\ MaxSeq < Word

VARIABLES
    running,            \* loop() has not been left by an exception
    sequence_number,    \* next outgoing sequence number
    next_ack_expected,
    window,             \* controller_.window_size()
    net,                \* for each datagram in transit, ticks since it was sent
    inbox,              \* acknowledgements in the socket's receive buffer
    idle,               \* ticks since poll was entered
    probes,             \* datagrams sent because of a timeout
    peak,               \* the widest window so far
    faults

vars == <<running, sequence_number, next_ack_expected, window, net, inbox, idle, probes, peak, faults>>

Ack == [seq : 0 .. MaxSeq - 1, late : BOOLEAN]
Wider(a, b) == IF a < b THEN b ELSE a

Init ==
    /\ running = TRUE
    /\ sequence_number = 0
    /\ next_ack_expected = 0
    /\ window = InitialWindow
    /\ net = << >>
    /\ inbox = << >>
    /\ idle = 0
    /\ probes = {}
    /\ peak = InitialWindow
    /\ faults = 0

\* The path, or the socket, fails to do what is expected of it.
Misbehave == faults < MaxFaults /\ faults' = faults + 1

\* sequence_number_ - next_ack_expected_, in unsigned arithmetic.
InFlight(n) == IF next_ack_expected <= n THEN n - next_ack_expected
                                         ELSE n + Word - next_ack_expected

\* Mutant of WindowIsOpen: <= in place of <.
WindowIsOpenWide(n) == InFlight(n) <= window

WindowIsOpen(n) == InFlight(n) < window

\* The datagrams up to n (excluded) enter the path.
SendUpTo(n) ==
    /\ sequence_number' = n
    /\ net' = [s \in DOMAIN net \cup (sequence_number .. n - 1) |->
                 IF s \in DOMAIN net THEN net[s] ELSE 0]

\* The first rule: "while ( window_is_open() ) send_datagram( false )".
CloseWindow ==
    /\ running
    /\ \E n \in sequence_number + 1 .. MaxSeq :
          /\ \A k \in sequence_number .. n - 1 : WindowIsOpen(k)
          /\ n = MaxSeq \/ ~WindowIsOpen(n)
          /\ SendUpTo(n)
    /\ idle' = 0
    /\ UNCHANGED <<running, next_ack_expected, window, inbox, probes, peak, faults>>

\* Mutant of NextAck: one too many.
NextAckSkipping(s) == Wider(next_ack_expected, s + 2)

NextAck(s) == Wider(next_ack_expected, s + 1)

\* The second rule: one acknowledgement is read...
ReadAck ==
    /\ running
    /\ inbox # << >>
    /\ next_ack_expected' = NextAck(Head(inbox).seq)
    /\ inbox' = Tail(inbox)
    /\ idle' = 0
    /\ UNCHANGED <<running, sequence_number, net, probes, faults>>

\* ... and the controller told.
GotAck ==
    /\ ReadAck
    /\ window' \in Windows
    /\ peak' = Wider(peak, window')

\* poll returns PollResult::Timeout: no acknowledgement is there to be read, and for
\* timeout_ms() nothing happened, as the window is closed, or the socket takes nothing.
TimedOut ==
    /\ running
    /\ inbox = << >>
    /\ idle >= Timeout
    /\ IF WindowIsOpen(sequence_number) THEN Misbehave ELSE UNCHANGED faults

\* Mutant of AfterTimeout: no datagram is sent.
AfterTimeoutSilent ==
    /\ TimedOut
    /\ idle' = 0
    /\ UNCHANGED <<running, sequence_number, next_ack_expected, window, net, inbox, probes, peak>>

\* Mutant of AfterTimeout: the timer is not restarted.
AfterTimeoutRunning ==
    /\ TimedOut
    /\ sequence_number < MaxSeq
    /\ SendUpTo(sequence_number + 1)
    /\ probes' = probes \cup {sequence_number}
    /\ UNCHANGED <<running, next_ack_expected, window, inbox, idle, peak>>

AfterTimeout ==
    /\ TimedOut
    /\ sequence_number < MaxSeq
    /\ SendUpTo(sequence_number + 1)
    /\ probes' = probes \cup {sequence_number}
    /\ idle' = 0
    /\ UNCHANGED <<running, next_ack_expected, window, inbox, peak>>

\* What is read is no acknowledgement, or it cannot be read, or sent: an exception that
\* nobody catches.  The socket is closed, and what is under way to it goes nowhere.
Throw ==
    /\ running
    /\ running' = FALSE
    /\ net' = << >>
    /\ UNCHANGED <<sequence_number, next_ack_expected, window, inbox, idle, probes, peak, faults>>

-----------------------------------------------------------------------------
(* The path and the clock.                                                 *)

Gone(s) == [k \in DOMAIN net \ {s} |-> net[k]]

\* An acknowledgement reaches the socket, in its turn, ahead of others, or with a
\* copy left on the path.
Arrive(s) ==
    /\ s \in DOMAIN net
    /\ inbox' = Append(inbox, [seq |-> s, late |-> net[s] > Timeout])
    /\ \/ (\A k \in DOMAIN net : s <= k) /\ net' = Gone(s) /\ UNCHANGED faults
       \/ Misbehave /\ net' \in {Gone(s), net}
    /\ UNCHANGED <<running, sequence_number, next_ack_expected, window, idle, probes, peak>>

Lose(s) ==
    /\ s \in DOMAIN net
    /\ Misbehave
    /\ net' = Gone(s)
    /\ UNCHANGED <<running, sequence_number, next_ack_expected, window, inbox, idle, probes, peak>>

\* Times above Timeout + 1 and timers above Timeout are not told apart.
Tick ==
    /\ net' = [s \in DOMAIN net |-> IF net[s] <= Timeout THEN net[s] + 1 ELSE net[s]]
    /\ idle' = IF idle < Timeout THEN idle + 1 ELSE idle
    /\ UNCHANGED <<running, sequence_number, next_ack_expected, window, inbox, probes, peak, faults>>

Path ==
    \/ \E s \in DOMAIN net : Arrive(s) \/ Lose(s)
    \/ Tick

Next == CloseWindow \/ GotAck \/ AfterTimeout \/ Throw \/ Path

Spec == Init /\ [][Next]_vars

-----------------------------------------------------------------------------
(* Properties.                                                             *)

TypeOK ==
    /\ running \in BOOLEAN
    /\ sequence_number \in 0 .. MaxSeq
    /\ next_ack_expected \in 0 .. MaxSeq
    /\ window \in Windows
    /\ DOMAIN net \subseteq 0 .. MaxSeq - 1
    /\ net \in [DOMAIN net -> 0 .. Timeout + 1]
    /\ inbox \in Seq(Ack)
    /\ idle \in 0 .. Timeout
    /\ probes \subseteq 0 .. MaxSeq - 1
    /\ peak \in Windows
    /\ faults \in 0 .. MaxFaults

\* What is in transit or waits to be read was sent: no acknowledgement names a
\* datagram the sender has not sent yet.
OnlySent ==
    /\ \A s \in DOMAIN net : s < sequence_number
    /\ \A i \in DOMAIN inbox : inbox[i].seq < sequence_number
    /\ \A s \in probes : s < sequence_number

\* The unsigned subtraction of window_is_open never wraps, whatever is lost,
\* repeated or reordered: the window test is a test of datagrams in flight.
NoUnderflow == next_ack_expected <= sequence_number

\* The datagrams in flight beyond the last acknowledged one are at most the
\* widest window the controller ever asked for, and one for each timeout since.
FlightBounded ==
    InFlight(sequence_number)
        <= peak + Cardinality({s \in probes : s >= next_ack_expected})

\* A datagram in transit is at least as old as poll's wait: when poll times out,
\* every acknowledgement still to come is at the limit ack_received calls late.
TimeoutMeansLate == \A s \in DOMAIN net : net[s] >= idle

\* sender.cc:23: "if network does not reorder or lose datagrams, this is the
\* sequence number that the sender next expects will be acknowledged": as long as
\* the path has not misbehaved, each acknowledgement read is that one.
AckAsExpected ==
    [][faults = 0 /\ Len(inbox') < Len(inbox)
         => Head(inbox).seq = next_ack_expected]_vars

\* The sender never stalls: whatever the path does, short of what ends the program, it
\* comes to send another datagram, be it after a timeout.
NeverStalls ==
    \A k \in 0 .. MaxSeq - 1 : sequence_number = k ~> sequence_number > k \/ ~running
=============================================================================

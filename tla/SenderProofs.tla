---------------------------- MODULE SenderProofs ----------------------------
(***************************************************************************)
(* Proofs about DatagrumpSender, for every controller, path and bound, and *)
(* about the controller of AimdSender, for every path and timeout.         *)
(***************************************************************************)
EXTENDS AimdSender, FiniteSetTheorems, SequenceTheorems, TLAPS

\* The inductive invariant of the sender's accounting.  peak is what FlightBounded
\* compares with; OnlySent is what keeps next_ack_expected behind.
SInv ==
    /\ TypeOK /\ OnlySent /\ NoUnderflow
    /\ window <= peak

-----------------------------------------------------------------------------
\* The sender starts with nothing sent and nothing under way.
LEMMA SInvInit == Init => SInv
<1> SUFFICES ASSUME Init PROVE SInv
  OBVIOUS
<1> USE SenderAssumption
<1>1. DOMAIN net = {} /\ DOMAIN inbox = {}
  BY DEF Init
<1>2. TypeOK
  BY <1>1 DEF Init, TypeOK
<1> QED BY <1>1, <1>2 DEF Init, SInv, OnlySent, NoUnderflow

\* send_datagram: the counter goes up to n and the datagrams below it enter the path.
LEMMA SendUpToKeeps ==
    ASSUME SInv, NEW n \in sequence_number .. MaxSeq, SendUpTo(n)
    PROVE  /\ sequence_number' \in 0 .. MaxSeq
           /\ DOMAIN net' \subseteq 0 .. MaxSeq - 1
           /\ net' \in [DOMAIN net' -> 0 .. Timeout + 1]
           /\ \A s \in DOMAIN net' : s < sequence_number'
           /\ sequence_number <= sequence_number'
<1> DEFINE new == sequence_number .. n - 1
<1>1. /\ sequence_number \in 0 .. MaxSeq /\ MaxSeq \in Nat /\ Timeout \in Nat
      /\ n \in 0 .. MaxSeq /\ sequence_number <= n /\ sequence_number' = n
  BY SenderAssumption DEF SInv, TypeOK, SendUpTo
<1>2. net' = [s \in DOMAIN net \cup new |-> IF s \in DOMAIN net THEN net[s] ELSE 0]
  BY DEF SendUpTo
<1>3. \A s \in DOMAIN net : s \in 0 .. MaxSeq - 1 /\ s < sequence_number /\ net[s] \in 0 .. Timeout + 1
  BY DEF SInv, TypeOK, OnlySent
<1>4. \A s \in new : s \in 0 .. MaxSeq - 1 /\ s < n
  BY <1>1
<1>5. 0 \in 0 .. Timeout + 1
  BY <1>1
<1>6. \A s \in DOMAIN net : s < n
  BY <1>1, <1>3
<1> HIDE DEF new
<1>7. DOMAIN net' \subseteq 0 .. MaxSeq - 1 /\ \A s \in DOMAIN net' : s < n
  BY <1>2, <1>3, <1>4, <1>6
<1>8. net' \in [DOMAIN net' -> 0 .. Timeout + 1]
  BY <1>2, <1>3, <1>5
<1> QED BY <1>1, <1>7, <1>8

\* The numbers of the acknowledgements that wait to be read.
LEMMA InboxNumbers ==
    ASSUME SInv
    PROVE  \A i \in DOMAIN inbox :
              inbox[i] \in Ack /\ inbox[i].seq \in 0 .. MaxSeq - 1 /\ inbox[i].seq < sequence_number
<1> SUFFICES ASSUME NEW i \in DOMAIN inbox
             PROVE  inbox[i] \in Ack /\ inbox[i].seq \in 0 .. MaxSeq - 1
                    /\ inbox[i].seq < sequence_number
  OBVIOUS
<1>1. inbox[i] \in Ack
  BY DEF SInv, TypeOK
<1>2. inbox[i].seq \in 0 .. MaxSeq - 1
  BY <1>1 DEF Ack
<1> QED BY <1>1, <1>2 DEF SInv, OnlySent

\* They stay behind a counter that only goes up.
LEMMA InboxStillSent ==
    ASSUME SInv, inbox' = inbox, sequence_number' \in 0 .. MaxSeq,
           sequence_number <= sequence_number'
    PROVE  \A i \in DOMAIN inbox' : inbox'[i].seq < sequence_number'
<1>1. sequence_number \in Nat /\ sequence_number' \in Nat
  BY SenderAssumption DEF SInv, TypeOK
<1> SUFFICES ASSUME NEW i \in DOMAIN inbox PROVE inbox[i].seq < sequence_number'
  OBVIOUS
<1>2. inbox[i].seq \in Nat /\ inbox[i].seq < sequence_number
  BY InboxNumbers
<1> QED BY <1>1, <1>2

\* The first rule of the poll loop keeps the invariant.
LEMMA SInvCloseWindow ==
    ASSUME SInv, CloseWindow
    PROVE  SInv'
<1> USE SenderAssumption
<1>1. PICK n \in sequence_number + 1 .. MaxSeq : SendUpTo(n)
  BY DEF CloseWindow
<1>2. n \in sequence_number .. MaxSeq
  BY <1>1 DEF SInv, TypeOK
<1>3. /\ sequence_number' \in 0 .. MaxSeq
      /\ DOMAIN net' \subseteq 0 .. MaxSeq - 1
      /\ net' \in [DOMAIN net' -> 0 .. Timeout + 1]
      /\ \A s \in DOMAIN net' : s < sequence_number'
      /\ sequence_number <= sequence_number'
  BY <1>1, <1>2, SendUpToKeeps
<1>4. TypeOK'
  <2>1. inbox' \in Seq(Ack) /\ window' \in Windows /\ peak' \in Windows
    BY DEF CloseWindow, SInv, TypeOK
  <2>2. /\ next_ack_expected' \in 0 .. MaxSeq
        /\ idle' \in 0 .. Timeout
        /\ probes' \subseteq 0 .. MaxSeq - 1
        /\ faults' \in 0 .. MaxFaults /\ running' \in BOOLEAN
    BY DEF CloseWindow, SInv, TypeOK
  <2> QED BY <1>3, <2>1, <2>2 DEF TypeOK
<1>5. OnlySent'
  <2>1. \A i \in DOMAIN inbox' : inbox'[i].seq < sequence_number'
    BY <1>3, InboxStillSent DEF CloseWindow
  <2> QED BY <1>3, <2>1 DEF CloseWindow, SInv, TypeOK, OnlySent
<1>6. NoUnderflow' /\ window' <= peak'
  BY <1>3 DEF CloseWindow, SInv, TypeOK, NoUnderflow
<1> QED BY <1>4, <1>5, <1>6 DEF SInv

\* got_ack, with whatever window the controller then wants.
LEMMA SInvGotAck ==
    ASSUME SInv, GotAck
    PROVE  SInv'
<1> USE SenderAssumption
<1>1. inbox \in Seq(Ack) /\ inbox # << >> /\ inbox' = Tail(inbox)
  BY DEF SInv, TypeOK, GotAck, ReadAck
<1>2. 1 \in DOMAIN inbox /\ Head(inbox) = inbox[1]
  BY <1>1
<1>3. Head(inbox).seq \in 0 .. MaxSeq - 1 /\ Head(inbox).seq < sequence_number
  BY <1>2, InboxNumbers
<1>4. next_ack_expected' \in 0 .. MaxSeq /\ next_ack_expected' <= sequence_number
  <2> DEFINE n == Head(inbox).seq
  <2>1. next_ack_expected' = NextAck(n)
    BY DEF GotAck, ReadAck
  <2>2. n \in 0 .. MaxSeq - 1 /\ n < sequence_number
    BY <1>3
  <2> HIDE DEF n
  <2> QED BY <2>1, <2>2 DEF NextAck, Wider, SInv, TypeOK, NoUnderflow
<1>5. /\ inbox' \in Seq(Ack)
      /\ \A i \in DOMAIN inbox' : i + 1 \in DOMAIN inbox /\ inbox'[i] = inbox[i + 1]
  BY <1>1
<1>6. peak' \in Windows /\ window' \in Windows /\ window' <= peak'
  <2>1. peak \in Windows /\ Windows \subseteq Nat
    BY DEF SInv, TypeOK
  <2>2. window' \in Windows /\ peak' = Wider(peak, window')
    BY DEF GotAck
  <2> QED BY <2>1, <2>2 DEF Wider
<1>7. TypeOK'
  <2>1. /\ sequence_number' \in 0 .. MaxSeq
        /\ DOMAIN net' \subseteq 0 .. MaxSeq - 1
        /\ net' \in [DOMAIN net' -> 0 .. Timeout + 1]
    BY DEF GotAck, ReadAck, SInv, TypeOK
  <2>2. /\ idle' \in 0 .. Timeout
        /\ probes' \subseteq 0 .. MaxSeq - 1
        /\ faults' \in 0 .. MaxFaults /\ running' \in BOOLEAN
    BY DEF GotAck, ReadAck, SInv, TypeOK
  <2> QED BY <1>4, <1>5, <1>6, <2>1, <2>2 DEF TypeOK
<1>8. OnlySent'
  BY <1>5 DEF GotAck, ReadAck, SInv, OnlySent
<1> QED BY <1>4, <1>6, <1>7, <1>8 DEF GotAck, ReadAck, SInv, NoUnderflow

\* A timeout sends one datagram.
LEMMA SInvAfterTimeout ==
    ASSUME SInv, AfterTimeout
    PROVE  SInv'
<1> USE SenderAssumption
<1>1. sequence_number + 1 \in sequence_number .. MaxSeq /\ SendUpTo(sequence_number + 1)
  BY DEF AfterTimeout, SInv, TypeOK
<1>2. /\ sequence_number' \in 0 .. MaxSeq
      /\ DOMAIN net' \subseteq 0 .. MaxSeq - 1
      /\ net' \in [DOMAIN net' -> 0 .. Timeout + 1]
      /\ \A s \in DOMAIN net' : s < sequence_number'
      /\ sequence_number <= sequence_number'
  BY <1>1, SendUpToKeeps
<1>3. sequence_number' = sequence_number + 1
  BY DEF AfterTimeout, SendUpTo
<1>4. TypeOK'
  <2>1. inbox' \in Seq(Ack) /\ window' \in Windows /\ peak' \in Windows
    BY DEF AfterTimeout, SInv, TypeOK
  <2>2. /\ next_ack_expected' \in 0 .. MaxSeq
        /\ idle' \in 0 .. Timeout /\ running' \in BOOLEAN
    BY DEF AfterTimeout, SInv, TypeOK
  <2>3. probes' \subseteq 0 .. MaxSeq - 1
    <3>1. probes' = probes \cup {sequence_number} /\ sequence_number < MaxSeq
      BY DEF AfterTimeout
    <3>2. probes \subseteq 0 .. MaxSeq - 1 /\ sequence_number \in 0 .. MaxSeq
      BY DEF SInv, TypeOK
    <3> QED BY <3>1, <3>2
  <2>4. faults' \in 0 .. MaxFaults
    <3>1. faults' = faults \/ (faults < MaxFaults /\ faults' = faults + 1)
      BY DEF AfterTimeout, TimedOut, Misbehave
    <3>2. MaxFaults \in Nat /\ faults \in 0 .. MaxFaults
      BY DEF SInv, TypeOK
    <3> QED BY <3>1, <3>2
  <2> QED BY <1>2, <2>1, <2>2, <2>3, <2>4 DEF TypeOK
<1>5. OnlySent'
  <2>1. \A i \in DOMAIN inbox' : inbox'[i].seq < sequence_number'
    BY <1>2, InboxStillSent DEF AfterTimeout
  <2>2. \A s \in probes' : s < sequence_number'
    BY <1>3 DEF AfterTimeout, SInv, TypeOK, OnlySent
  <2> QED BY <1>2, <2>1, <2>2 DEF OnlySent
<1>6. NoUnderflow' /\ window' <= peak'
  BY <1>2 DEF AfterTimeout, SInv, TypeOK, NoUnderflow
<1> QED BY <1>4, <1>5, <1>6 DEF SInv

\* A step of the path that adds only acknowledgements of datagrams sent keeps the
\* invariant.
LEMMA PathKeeps ==
    ASSUME SInv,
           UNCHANGED <<running, sequence_number, next_ack_expected, window, idle, probes, peak>>,
           inbox' \in Seq(Ack),
           \A i \in DOMAIN inbox' : inbox'[i].seq < sequence_number,
           DOMAIN net' \subseteq DOMAIN net,
           \A k \in DOMAIN net' : net'[k] = net[k],
           net' = [k \in DOMAIN net' |-> net'[k]],
           faults' \in 0 .. MaxFaults
    PROVE  SInv'
<1>1. net' \in [DOMAIN net' -> 0 .. Timeout + 1] /\ DOMAIN net' \subseteq 0 .. MaxSeq - 1
  BY DEF SInv, TypeOK
<1>2. TypeOK'
  BY <1>1 DEF SInv, TypeOK
<1>3. OnlySent'
  BY DEF SInv, OnlySent
<1> QED BY <1>2, <1>3 DEF SInv, NoUnderflow

\* The path delivers, repeats or loses, and time passes: nothing is made up.
LEMMA SInvPath ==
    ASSUME SInv, Path
    PROVE  SInv'
<1> USE SenderAssumption
<1>1. ASSUME NEW s \in DOMAIN net, Arrive(s) PROVE SInv'
  <2> DEFINE a == [seq |-> s, late |-> net[s] > Timeout]
  <2>1. a \in Ack /\ a.seq = s /\ s < sequence_number
    BY DEF SInv, TypeOK, OnlySent, Ack
  <2>2. inbox \in Seq(Ack) /\ inbox' = Append(inbox, a)
    BY <1>1 DEF Arrive, SInv, TypeOK
  <2> HIDE DEF a
  <2>3. inbox' \in Seq(Ack) /\ \A i \in DOMAIN inbox' :
            (i \in DOMAIN inbox /\ inbox'[i] = inbox[i]) \/ inbox'[i] = a
    BY <2>1, <2>2
  <2>4. \A i \in DOMAIN inbox' : inbox'[i].seq < sequence_number
    BY <2>1, <2>3, InboxNumbers
  <2>5. /\ DOMAIN net' \subseteq DOMAIN net
        /\ \A k \in DOMAIN net' : net'[k] = net[k]
        /\ net' = [k \in DOMAIN net' |-> net'[k]]
    <3>1. CASE net' = Gone(s)
      BY <3>1 DEF Gone
    <3>2. CASE net' = net
      BY <3>2 DEF SInv, TypeOK
    <3> QED BY <1>1, <3>1, <3>2 DEF Arrive
  <2>6. faults' \in 0 .. MaxFaults
    <3>1. faults' = faults \/ (faults < MaxFaults /\ faults' = faults + 1)
      BY <1>1 DEF Arrive, Misbehave
    <3>2. MaxFaults \in Nat /\ faults \in 0 .. MaxFaults
      BY DEF SInv, TypeOK
    <3> QED BY <3>1, <3>2
  <2>7. UNCHANGED <<running, sequence_number, next_ack_expected, window, idle, probes, peak>>
    BY <1>1 DEF Arrive
  <2>8. inbox' \in Seq(Ack)
    BY <2>3
  <2> QED BY <2>4, <2>5, <2>6, <2>7, <2>8, PathKeeps
<1>2. ASSUME NEW s \in DOMAIN net, Lose(s) PROVE SInv'
  <2>1. /\ DOMAIN net' \subseteq DOMAIN net
        /\ \A k \in DOMAIN net' : net'[k] = net[k]
        /\ net' = [k \in DOMAIN net' |-> net'[k]]
    BY <1>2 DEF Lose, Gone
  <2>2. inbox' \in Seq(Ack) /\ faults' \in 0 .. MaxFaults
    <3>1. inbox' = inbox /\ faults < MaxFaults /\ faults' = faults + 1
      BY <1>2 DEF Lose, Misbehave
    <3>2. inbox \in Seq(Ack) /\ faults \in 0 .. MaxFaults
      BY DEF SInv, TypeOK
    <3> QED BY <3>1, <3>2
  <2>3. \A i \in DOMAIN inbox' : inbox'[i].seq < sequence_number
    BY <1>2, InboxNumbers DEF Lose
  <2> QED BY <1>2, <2>1, <2>2, <2>3, PathKeeps DEF Lose
<1>3. CASE Tick
  <2>1. TypeOK'
    <3>0. Timeout \in Nat /\ \A s \in DOMAIN net : net[s] \in 0 .. Timeout + 1
      BY DEF SInv, TypeOK
    <3>1. DOMAIN net' = DOMAIN net /\ \A s \in DOMAIN net : net'[s] \in 0 .. Timeout + 1
      BY <1>3, <3>0 DEF Tick
    <3>2. net' = [s \in DOMAIN net' |-> net'[s]]
      BY <1>3 DEF Tick
    <3>3. net' \in [DOMAIN net' -> 0 .. Timeout + 1]
      BY <3>1, <3>2
    <3>4. idle' \in 0 .. Timeout
      BY <1>3 DEF Tick, SInv, TypeOK
    <3> QED BY <1>3, <3>1, <3>3, <3>4 DEF Tick, SInv, TypeOK
  <2>2. OnlySent'
    BY <1>3 DEF Tick, SInv, OnlySent
  <2> QED BY <1>3, <2>1, <2>2 DEF Tick, SInv, NoUnderflow
<1> QED BY <1>1, <1>2, <1>3 DEF Path

\* An exception takes everything off the path, and leaves the rest as it was.
LEMMA SInvThrow ==
    ASSUME SInv, Throw
    PROVE  SInv'
<1>1. DOMAIN net' = {} /\ net' \in [{} -> 0 .. Timeout + 1]
  BY DEF Throw
<1>2. TypeOK'
  BY <1>1 DEF Throw, SInv, TypeOK
<1>3. OnlySent'
  BY <1>1 DEF Throw, SInv, OnlySent
<1> QED BY <1>2, <1>3 DEF Throw, SInv, NoUnderflow

\* Every step keeps the invariant.
LEMMA SInvStep == SInv /\ [Next]_vars => SInv'
<1> SUFFICES ASSUME SInv, [Next]_vars PROVE SInv'
  OBVIOUS
<1>1. CASE UNCHANGED vars
  BY <1>1 DEF vars, SInv, TypeOK, OnlySent, NoUnderflow
<1> QED BY <1>1, SInvCloseWindow, SInvGotAck, SInvAfterTimeout, SInvThrow, SInvPath
   DEF Next

-----------------------------------------------------------------------------
\* What holds of the sender under any controller.
THEOREM SenderInvariance == Spec => []SInv
<1>1. Init => SInv
  BY SInvInit
<1>2. SInv /\ [Next]_vars => SInv'
  BY SInvStep
<1> QED BY <1>1, <1>2, PTL DEF Spec

\* The counters, the window and what is in transit keep their types: in particular
\* no acknowledgement takes next_ack_expected_ past what may be sent.
THEOREM SenderTypes == Spec => []TypeOK
<1>1. SInv => TypeOK
  BY DEF SInv
<1> QED BY <1>1, SenderInvariance, PTL

\* sequence_number_ - next_ack_expected_ of window_is_open never wraps.
THEOREM CountersDoNotCross == Spec => []NoUnderflow
<1>1. SInv => NoUnderflow
  BY DEF SInv
<1> QED BY <1>1, SenderInvariance, PTL

-----------------------------------------------------------------------------
(* Timeouts.                                                               *)

\* Whatever poll served, its timer starts again; a tick ages both.
LEMMA LateStep ==
    SInv /\ TimeoutMeansLate /\ [Next]_vars => TimeoutMeansLate'
<1> SUFFICES ASSUME SInv, TimeoutMeansLate, [Next]_vars PROVE TimeoutMeansLate'
  OBVIOUS
<1> USE SenderAssumption
<1>1. CASE idle' = 0 /\ SInv'
  BY <1>1 DEF TimeoutMeansLate, SInv, TypeOK
<1>2. ASSUME NEW s \in DOMAIN net, Arrive(s) \/ Lose(s) PROVE TimeoutMeansLate'
  BY <1>2 DEF Arrive, Lose, Gone, TimeoutMeansLate
<1>3. CASE Tick
  <2>1. /\ Timeout \in Nat /\ idle \in 0 .. Timeout
        /\ \A s \in DOMAIN net : net[s] \in 0 .. Timeout + 1 /\ net[s] >= idle
    BY DEF TimeoutMeansLate, SInv, TypeOK
  <2>2. /\ DOMAIN net' = DOMAIN net
        /\ \A s \in DOMAIN net : net'[s] = IF net[s] <= Timeout THEN net[s] + 1 ELSE net[s]
        /\ idle' = IF idle < Timeout THEN idle + 1 ELSE idle
    BY <1>3 DEF Tick
  <2>3. ASSUME NEW s \in DOMAIN net PROVE net'[s] >= idle'
    BY <2>1, <2>2
  <2> QED BY <2>2, <2>3 DEF TimeoutMeansLate
<1>4. CASE UNCHANGED vars
  BY <1>4 DEF vars, TimeoutMeansLate
<1>5. CASE Throw
  BY <1>5 DEF Throw, TimeoutMeansLate
<1> QED
  BY <1>1, <1>2, <1>3, <1>4, <1>5, SInvStep DEF Next, CloseWindow, GotAck, ReadAck, AfterTimeout, Path

\* When poll times out, every datagram still in transit is as old as its wait.
THEOREM TimeoutIsLate == Spec => []TimeoutMeansLate
<1>1. Init => TimeoutMeansLate
  BY DEF Init, TimeoutMeansLate
<1> QED BY <1>1, LateStep, SenderInvariance, PTL DEF Spec

-----------------------------------------------------------------------------
(* The datagrams in flight.                                                *)

\* The timeouts' datagrams not acknowledged yet.
Pending == {s \in probes : s >= next_ack_expected}

\* How many numbers an interval holds.
LEMMA IntervalSize ==
    ASSUME NEW a \in Nat, NEW b \in Nat, a <= b
    PROVE  IsFiniteSet(a .. b - 1) /\ Cardinality(a .. b - 1) = b - a
<1>1. a \in Int /\ b - 1 \in Int
  OBVIOUS
<1>2. /\ IsFiniteSet(a .. b - 1)
      /\ Cardinality(a .. b - 1) = IF a > b - 1 THEN 0 ELSE (b - 1) - a + 1
  BY <1>1, FS_Interval
<1> QED BY <1>2

\* Sequence numbers are finitely many.
LEMMA NumbersFinite ==
    ASSUME NEW S, S \subseteq 0 .. MaxSeq - 1
    PROVE  IsFiniteSet(S) /\ Cardinality(S) \in Nat
<1>1. 0 \in Nat /\ MaxSeq \in Nat /\ 0 <= MaxSeq
  BY SenderAssumption
<1>2. IsFiniteSet(0 .. MaxSeq - 1)
  BY <1>1, IntervalSize
<1>3. IsFiniteSet(S)
  BY <1>2, FS_Subset
<1> QED BY <1>3, FS_CardinalityType

\* The pending timeouts' datagrams are finitely many.
LEMMA PendingFinite ==
    ASSUME SInv
    PROVE  IsFiniteSet(Pending) /\ Cardinality(Pending) \in Nat
<1>1. Pending \subseteq 0 .. MaxSeq - 1
  BY DEF Pending, SInv, TypeOK
<1> QED BY <1>1, NumbersFinite

\* FlightBounded, with the subtraction resolved.
InBounds == sequence_number <= next_ack_expected + peak + Cardinality(Pending)

LEMMA BoundIsFlight ==
    ASSUME SInv
    PROVE  FlightBounded <=> InBounds
<1>1. InFlight(sequence_number) = sequence_number - next_ack_expected
  BY DEF InFlight, SInv, NoUnderflow
<1>2. Cardinality(Pending) \in Nat /\ peak \in Nat
  BY PendingFinite, SenderAssumption DEF SInv, TypeOK
<1> QED BY <1>1, <1>2 DEF FlightBounded, InBounds, Pending, SInv, TypeOK

\* The window was open for the last datagram sent.
LEMMA FlightCloseWindow ==
    ASSUME SInv, CloseWindow
    PROVE  InBounds'
<1>1. PICK n \in sequence_number + 1 .. MaxSeq :
         /\ \A k \in sequence_number .. n - 1 : WindowIsOpen(k)
         /\ sequence_number' = n
  BY DEF CloseWindow, SendUpTo
<1>2. sequence_number \in Nat /\ next_ack_expected \in Nat /\ window \in Nat /\ peak \in Nat
      /\ next_ack_expected <= sequence_number /\ window <= peak /\ n \in Nat
  BY SenderAssumption, <1>1 DEF SInv, TypeOK, NoUnderflow
<1>3. n - 1 \in sequence_number .. n - 1
  BY <1>1, <1>2
<1>4. WindowIsOpen(n - 1)
  BY <1>1, <1>3
<1>5. n - 1 - next_ack_expected < window
  BY <1>1, <1>2, <1>4 DEF WindowIsOpen, InFlight
<1>6. Cardinality(Pending) \in Nat
  BY PendingFinite
<1>7. next_ack_expected' = next_ack_expected /\ peak' = peak /\ Pending' = Pending
  BY DEF CloseWindow, Pending
<1> QED BY <1>1, <1>2, <1>5, <1>6, <1>7 DEF InBounds

\* Each datagram an acknowledgement takes from the pending ones was in flight.
LEMMA FlightGotAck ==
    ASSUME SInv, InBounds, GotAck
    PROVE  InBounds'
<1> DEFINE past == next_ack_expected .. next_ack_expected' - 1
<1>1. SInv'
  BY SInvGotAck
<1>2. /\ sequence_number \in Nat /\ next_ack_expected \in Nat /\ next_ack_expected' \in Nat
      /\ peak \in Nat /\ peak' \in Nat
  BY SenderAssumption, <1>1 DEF SInv, TypeOK
<1>3. next_ack_expected <= next_ack_expected' /\ peak <= peak'
  <2> DEFINE s == Head(inbox).seq
  <2>1. next_ack_expected' = NextAck(s) /\ peak' = Wider(peak, window') /\ window' \in Windows
    BY DEF GotAck, ReadAck
  <2>2. s \in Nat
    <3>1. inbox \in Seq(Ack) /\ inbox # << >>
      BY DEF SInv, TypeOK, GotAck, ReadAck
    <3>2. 1 \in DOMAIN inbox /\ Head(inbox) = inbox[1]
      BY <3>1
    <3> QED BY <3>2, InboxNumbers, SenderAssumption
  <2> HIDE DEF s
  <2>3. \/ next_ack_expected' = next_ack_expected
        \/ next_ack_expected < s + 1 /\ next_ack_expected' = s + 1
    BY <1>2, <2>1, <2>2 DEF NextAck, Wider
  <2> QED BY <1>2, <2>1, <2>2, <2>3, SenderAssumption DEF Wider
<1>4. probes' = probes /\ sequence_number' = sequence_number
  BY DEF GotAck, ReadAck
<1>5. Pending \subseteq Pending' \cup past
  BY <1>2, <1>3, <1>4 DEF Pending, SInv, TypeOK
<1>6. IsFiniteSet(past) /\ Cardinality(past) = next_ack_expected' - next_ack_expected
  BY <1>2, <1>3, IntervalSize
<1>7. IsFiniteSet(Pending) /\ Cardinality(Pending) \in Nat
  BY PendingFinite
<1>8. IsFiniteSet(Pending') /\ Cardinality(Pending') \in Nat
  <2>1. Pending' \subseteq 0 .. MaxSeq - 1
    BY <1>1 DEF Pending, SInv, TypeOK
  <2> QED BY <2>1, NumbersFinite
<1> HIDE DEF past
<1>9. Cardinality(Pending) <= Cardinality(Pending' \cup past)
  <2>1. IsFiniteSet(Pending' \cup past)
    BY <1>6, <1>8, FS_Union
  <2> QED BY <1>5, <2>1, FS_Subset
<1>10. Cardinality(Pending' \cup past) <= Cardinality(Pending') + Cardinality(past)
  <2>1. IsFiniteSet(Pending' \cap past) /\ Cardinality(Pending' \cap past) \in Nat
    BY <1>6, FS_Intersection, FS_CardinalityType
  <2>2. Cardinality(Pending' \cup past)
          = Cardinality(Pending') + Cardinality(past) - Cardinality(Pending' \cap past)
    BY <1>6, <1>8, FS_Union
  <2>3. Cardinality(past) \in Nat
    BY <1>6, FS_CardinalityType
  <2> QED BY <1>8, <2>1, <2>2, <2>3
<1>11. Cardinality(Pending' \cup past) \in Nat
  BY <1>6, <1>8, FS_Union, FS_CardinalityType
<1> QED BY <1>2, <1>3, <1>4, <1>6, <1>7, <1>8, <1>9, <1>10, <1>11 DEF InBounds

\* A timeout's datagram counts among the pending ones.
LEMMA FlightAfterTimeout ==
    ASSUME SInv, InBounds, AfterTimeout
    PROVE  InBounds'
<1>1. /\ sequence_number \in Nat /\ next_ack_expected \in Nat /\ peak \in Nat
      /\ next_ack_expected <= sequence_number
  BY SenderAssumption DEF SInv, TypeOK, NoUnderflow
<1>2. Pending' = Pending \cup {sequence_number}
  BY <1>1 DEF AfterTimeout, Pending
<1>3. sequence_number \notin Pending
  BY <1>1 DEF Pending, SInv, OnlySent
<1>4. IsFiniteSet(Pending) /\ Cardinality(Pending) \in Nat
  BY PendingFinite
<1>5. Cardinality(Pending') = Cardinality(Pending) + 1
  BY <1>2, <1>3, <1>4, FS_AddElement
<1>6. sequence_number' = sequence_number + 1 /\ UNCHANGED <<next_ack_expected, peak>>
  BY DEF AfterTimeout, SendUpTo
<1> QED BY <1>1, <1>4, <1>5, <1>6 DEF InBounds

\* The datagrams in flight are bounded by the widest window and the timeouts since.
THEOREM FlightStaysBounded == Spec => []FlightBounded
<1>1. Init => InBounds
  <2> SUFFICES ASSUME Init PROVE InBounds
    OBVIOUS
  <2>1. Cardinality(Pending) \in Nat
    BY SInvInit, PendingFinite
  <2> QED BY <2>1, SenderAssumption DEF Init, InBounds
<1>2. SInv /\ InBounds /\ [Next]_vars => InBounds'
  <2> SUFFICES ASSUME SInv, InBounds, [Next]_vars PROVE InBounds'
    OBVIOUS
  <2>1. ASSUME UNCHANGED <<sequence_number, next_ack_expected, probes, peak>> PROVE InBounds'
    BY <2>1 DEF InBounds, Pending
  <2>2. CASE Throw \/ Path \/ UNCHANGED vars
    BY <2>1, <2>2 DEF Throw, Path, Arrive, Lose, Tick, vars
  <2> QED BY <2>2, FlightCloseWindow, FlightGotAck, FlightAfterTimeout DEF Next
<1>3. SInv /\ InBounds => FlightBounded
  BY BoundIsFlight
<1> QED BY <1>1, <1>2, <1>3, SenderInvariance, PTL DEF Spec

-----------------------------------------------------------------------------
(* Acknowledgements in order, as long as the path behaves.                 *)

\* Then the numbers from next_ack_expected up are first those that wait to be read, in
\* their order, and then those in transit, until an exception ends it all.
Waiting == next_ack_expected + Len(inbox)
InTurn ==
    /\ Waiting <= sequence_number
    /\ DOMAIN net = Waiting .. sequence_number - 1
    /\ \A i \in 1 .. Len(inbox) : inbox[i].seq = next_ack_expected + i - 1
InOrder == running /\ faults = 0 => InTurn

\* The counters and the length of the buffer are numbers.
LEMMA Counts ==
    ASSUME SInv
    PROVE  /\ sequence_number \in Nat /\ next_ack_expected \in Nat /\ faults \in Nat
           /\ inbox \in Seq(Ack) /\ Len(inbox) \in Nat /\ Waiting \in Nat
<1>1. sequence_number \in Nat /\ next_ack_expected \in Nat /\ faults \in Nat
  BY SenderAssumption DEF SInv, TypeOK
<1>2. inbox \in Seq(Ack) /\ Len(inbox) \in Nat
  BY LenProperties DEF SInv, TypeOK
<1> QED BY <1>1, <1>2 DEF Waiting

\* What the window or a timeout sends goes in behind what is in transit.
LEMMA SentInTurn ==
    ASSUME SInv, InTurn, NEW n \in Nat, sequence_number <= n, SendUpTo(n),
           UNCHANGED <<next_ack_expected, inbox>>
    PROVE  InTurn'
<1>1. DOMAIN net' = (Waiting .. sequence_number - 1) \cup (sequence_number .. n - 1)
  BY DEF SendUpTo, InTurn
<1>2. DOMAIN net' = Waiting .. n - 1
  BY <1>1, Counts DEF InTurn
<1>3. Waiting' = Waiting /\ sequence_number' = n
  BY DEF Waiting, SendUpTo
<1>4. Waiting <= n
  BY Counts DEF InTurn
<1> QED BY <1>2, <1>3, <1>4 DEF InTurn

\* The first of the buffer is the one expected, and the next one is expected then.
LEMMA ReadInTurn ==
    ASSUME SInv, InTurn, GotAck
    PROVE  Head(inbox).seq = next_ack_expected /\ InTurn'
<1>1. inbox # << >> /\ inbox' = Tail(inbox) /\ UNCHANGED <<sequence_number, net>>
  BY DEF GotAck, ReadAck
<1>2. /\ Len(inbox) \in Nat \ {0} /\ Head(inbox) = inbox[1] /\ Len(inbox') = Len(inbox) - 1
      /\ \A i \in 1 .. Len(inbox) - 1 : inbox'[i] = inbox[i + 1]
  BY <1>1, Counts, HeadTailProperties, EmptySeq, LenProperties
<1>3. Head(inbox).seq = next_ack_expected
  BY <1>2, Counts DEF InTurn
<1>4. next_ack_expected' = next_ack_expected + 1
  BY <1>3, Counts DEF GotAck, ReadAck, NextAck, Wider
<1>5. Waiting' = Waiting
  BY <1>2, <1>4, Counts DEF Waiting
<1>6. ASSUME NEW i \in 1 .. Len(inbox')
      PROVE  inbox'[i].seq = next_ack_expected' + i - 1
  <2>1. i + 1 \in 1 .. Len(inbox) /\ inbox'[i] = inbox[i + 1]
    BY <1>2
  <2> QED BY <1>4, <2>1, Counts DEF InTurn
<1> QED BY <1>1, <1>3, <1>5, <1>6 DEF InTurn

\* Without a fault the first in transit arrives, and goes to the end of the buffer.
LEMMA ArrivesInTurn ==
    ASSUME SInv, InTurn, NEW s \in DOMAIN net, Arrive(s), faults = 0, faults' = 0
    PROVE  InTurn'
<1>1. (\A k \in DOMAIN net : s <= k) /\ net' = Gone(s)
  BY DEF Arrive, Misbehave
<1>2. DOMAIN net = Waiting .. sequence_number - 1
  BY DEF InTurn
<1>3. s = Waiting /\ s < sequence_number
  <2>1. Waiting <= s /\ s <= sequence_number - 1 /\ s \in Nat
    BY <1>2, Counts
  <2>2. Waiting \in DOMAIN net
    BY <1>2, <2>1, Counts
  <2> QED BY <1>1, <2>1, <2>2, Counts
<1>4. DOMAIN net' = Waiting + 1 .. sequence_number - 1
  <2>1. DOMAIN net' = (Waiting .. sequence_number - 1) \ {Waiting}
    BY <1>1, <1>2, <1>3 DEF Gone
  <2> QED BY <2>1, Counts
<1> DEFINE a == [seq |-> s, late |-> net[s] > Timeout]
<1>5. a \in Ack /\ a.seq = s
  BY DEF SInv, TypeOK, Ack
<1>6. inbox' = Append(inbox, a) /\ UNCHANGED <<sequence_number, next_ack_expected>>
  BY DEF Arrive
<1> HIDE DEF a
<1>7. /\ Len(inbox') = Len(inbox) + 1 /\ inbox'[Len(inbox) + 1] = a
      /\ \A i \in 1 .. Len(inbox) : inbox'[i] = inbox[i]
  BY <1>5, <1>6, Counts, AppendProperties
<1>8. Waiting' = Waiting + 1
  BY <1>6, <1>7, Counts DEF Waiting
<1>9. ASSUME NEW i \in 1 .. Len(inbox') PROVE inbox'[i].seq = next_ack_expected' + i - 1
  <2>1. CASE i \in 1 .. Len(inbox)
    BY <1>6, <1>7, <2>1 DEF InTurn
  <2>2. CASE i = Len(inbox) + 1
    BY <1>3, <1>5, <1>6, <1>7, <2>2, Counts DEF Waiting
  <2> QED BY <1>7, <2>1, <2>2, Counts
<1> QED BY <1>3, <1>4, <1>6, <1>8, <1>9, Counts DEF InTurn

\* The order is kept until the path misbehaves.
LEMMA InOrderStep == SInv /\ InOrder /\ [Next]_vars => InOrder'
<1> SUFFICES ASSUME SInv, InOrder, [Next]_vars, running', faults' = 0 PROVE InTurn'
  BY DEF InOrder
<1>1. faults = 0 /\ InTurn
  <2>1. (faults' = faults \/ faults' = faults + 1) /\ running' = running
    BY DEF Next, CloseWindow, GotAck, ReadAck, AfterTimeout, TimedOut, Throw, Path, Arrive, Lose,
           Tick, Misbehave, vars
  <2> QED BY <2>1, Counts DEF InOrder
<1>2. CASE CloseWindow
  <2>1. PICK n \in sequence_number + 1 .. MaxSeq : SendUpTo(n)
    BY <1>2 DEF CloseWindow
  <2>2. n \in Nat /\ sequence_number <= n
    BY SenderAssumption, Counts
  <2> QED BY <1>1, <1>2, <2>1, <2>2, SentInTurn DEF CloseWindow
<1>3. CASE AfterTimeout
  <2>1. sequence_number + 1 \in Nat /\ sequence_number <= sequence_number + 1
    BY Counts
  <2> QED BY <1>1, <1>3, <2>1, SentInTurn DEF AfterTimeout
<1>4. CASE GotAck
  BY <1>1, <1>4, ReadInTurn
<1>5. ASSUME NEW s \in DOMAIN net, Arrive(s) PROVE InTurn'
  BY <1>1, <1>5, ArrivesInTurn
<1>6. ASSUME NEW s \in DOMAIN net, Lose(s) PROVE FALSE
  BY <1>1, <1>6 DEF Lose, Misbehave
<1>7. CASE Tick \/ UNCHANGED vars
  <2>1. DOMAIN net' = DOMAIN net /\ UNCHANGED <<sequence_number, next_ack_expected, inbox>>
    BY <1>7 DEF Tick, vars
  <2> QED BY <1>1, <2>1 DEF InTurn, Waiting
<1> QED BY <1>2, <1>3, <1>4, <1>5, <1>6, <1>7 DEF Next, Path, Throw

\* Where nothing is lost, repeated or overtaken, each acknowledgement read is the one
\* that next_ack_expected names.
THEOREM AcksComeInOrder == Spec => AckAsExpected
<1>1. Init => InOrder
  <2> SUFFICES ASSUME Init PROVE InTurn
    BY DEF InOrder
  <2>1. DOMAIN net = {} /\ Len(inbox) = 0 /\ sequence_number = 0 /\ next_ack_expected = 0
    BY DEF Init
  <2> QED BY <2>1 DEF InTurn, Waiting
<1>2. SInv /\ SInv' /\ InOrder /\ [Next]_vars
        => [faults = 0 /\ Len(inbox') < Len(inbox) => Head(inbox).seq = next_ack_expected]_vars
  <2> SUFFICES ASSUME SInv, SInv', InOrder, Next, faults = 0, Len(inbox') < Len(inbox)
               PROVE  Head(inbox).seq = next_ack_expected
    OBVIOUS
  <2>1. CASE GotAck
    BY <2>1, ReadInTurn DEF InOrder, GotAck, ReadAck
  <2>2. ASSUME inbox' = inbox PROVE FALSE
    BY <2>2, Counts
  <2>3. ASSUME NEW s \in DOMAIN net, Arrive(s) PROVE FALSE
    <3> DEFINE a == [seq |-> s, late |-> net[s] > Timeout]
    <3>1. a \in Ack
      BY DEF SInv, TypeOK, Ack
    <3>2. inbox' = Append(inbox, a)
      BY <2>3 DEF Arrive
    <3> HIDE DEF a
    <3>3. Len(inbox') = Len(inbox) + 1
      BY <3>1, <3>2, Counts, AppendProperties
    <3> QED BY <3>3, Counts
  <2> QED BY <2>1, <2>2, <2>3 DEF Next, CloseWindow, AfterTimeout, Throw, Path, Lose, Tick
<1> QED BY <1>1, <1>2, InOrderStep, SenderInvariance, PTL DEF Spec, AckAsExpected

-----------------------------------------------------------------------------
(* The controller.                                                         *)

\* The inductive invariant of the controller.  One late acknowledgement leaves the
\* window at 3, which is what makes the next one set the threshold to 2.
AInv ==
    /\ window \in Nat /\ ssthresh \in Nat
    /\ lates \in 0 .. 2
    /\ WindowFloor
    /\ lates # 0 => window = LossWindow
    /\ lates = 2 => ssthresh = 2

\* The controller starts with a window of 3 or more and no late acknowledgement.
LEMMA AInvInit == AInit => AInv
<1>1. InitialWindow \in Nat /\ InitialWindow >= 3
  BY SenderAssumption, AimdAssumption DEF LossWindow
<1>2. InitialThresh \in Nat /\ InitialThresh >= 2
  BY AimdAssumption
<1> QED BY <1>1, <1>2 DEF AInit, Init, AInv, WindowFloor, LossWindow

\* Half of a window of 3 or more, and one more, is at least 2.
LEMMA HalfWindow ==
    ASSUME NEW w \in Nat, w >= 3
    PROVE  w \div 2 + 1 \in Nat /\ w \div 2 + 1 >= 2
OBVIOUS

\* Every step keeps the controller's invariant.
LEMMA AInvStep == AInv /\ [ANext]_avars => AInv'
<1> SUFFICES ASSUME AInv, [ANext]_avars PROVE AInv'
  OBVIOUS
<1>1. CASE SlowStart /\ lates' = 0
  BY <1>1 DEF SlowStart, AInv, WindowFloor, LossWindow
<1>2. CASE CongestionAvoidance /\ lates' = 0
  <2>1. /\ window' = window \/ window' = window + 1
        /\ ssthresh' = ssthresh
    BY <1>2 DEF CongestionAvoidance
  <2>2. window \in Nat /\ window >= 3 /\ ssthresh \in Nat /\ ssthresh >= 2
    BY DEF AInv, WindowFloor, LossWindow
  <2>3. window' \in Nat /\ window' >= 3
    BY <2>1, <2>2
  <2> QED BY <1>2, <2>1, <2>2, <2>3 DEF AInv, WindowFloor, LossWindow
<1>3. CASE Collapse /\ lates' = IF lates < 2 THEN lates + 1 ELSE 2
  <2>1. ssthresh' \in Nat /\ ssthresh' >= 2 /\ window' = 3
    BY <1>3, HalfWindow DEF Collapse, AInv, WindowFloor, LossWindow
  <2>2. lates' \in 0 .. 2 /\ (lates' = 2 => lates # 0)
    BY <1>3 DEF AInv
  <2>3. ASSUME lates # 0 PROVE ssthresh' = 2
    <3>1. window = 3
      BY <2>3 DEF AInv, LossWindow
    <3>2. ssthresh' = 3 \div 2 + 1
      BY <1>3, <3>1 DEF Collapse
    <3> QED BY <3>2
  <2> QED BY <2>1, <2>2, <2>3 DEF AInv, WindowFloor, LossWindow
<1>4. CASE UNCHANGED <<window, ssthresh, lates>>
  BY <1>4 DEF AInv, WindowFloor
<1> QED
  BY <1>1, <1>2, <1>3, <1>4 DEF ANext, AGotAck, AckReceived, CloseWindow, AfterTimeout,
     Throw, Path, Arrive, Lose, Tick, avars, vars, aimdVars

\* What holds of the controller on any path.
LEMMA ControllerInvariance == ASpec => []AInv
BY AInvInit, AInvStep, PTL DEF ASpec

\* The window never falls below 3, nor the threshold below 2: the test for a window
\* below 1 of ack_received is never true.
THEOREM WindowStaysUp == ASpec => []WindowFloor
<1>1. AInv => WindowFloor
  BY DEF AInv
<1> QED BY <1>1, ControllerInvariance, PTL

\* Two late acknowledgements in a row end slow start, however wide the window was.
THEOREM SpikeCollapses == ASpec => []SpikeEndsSlowStart
<1>1. AInv => SpikeEndsSlowStart
  BY DEF AInv, SpikeEndsSlowStart, InSlowStart, LossWindow
<1> QED BY <1>1, ControllerInvariance, PTL

\* DatagrumpSender with this controller is a DatagrumpSender, once Windows allows every
\* window from 3 up: what is proved of the sender under any controller holds with it.
THEOREM AimdIsSender ==
    ASSUME Windows = {w \in Nat : w >= LossWindow}
    PROVE  ASpec => IsSender
<1>1. AInit => Init
  BY DEF AInit
<1>2. AInv /\ AInv' /\ [ANext]_avars => [Next]_vars
  <2> SUFFICES ASSUME AInv', [ANext]_avars PROVE [Next]_vars
    OBVIOUS
  <2>1. CASE AGotAck
    <3>1. window' \in Windows
      BY DEF AInv, WindowFloor
    <3> QED BY <2>1, <3>1 DEF AGotAck, GotAck, Next
  <2> QED BY <2>1 DEF ANext, Next, avars
<1> QED BY <1>1, <1>2, ControllerInvariance, PTL DEF ASpec, Spec, IsSender

\* So with this controller too the datagrams in flight are at most the widest window
\* it asked for and one for each timeout since.
THEOREM AimdFlightBounded ==
    ASSUME Windows = {w \in Nat : w >= LossWindow}
    PROVE  ASpec => []FlightBounded
<1>1. ASpec => Spec
  BY AimdIsSender DEF IsSender
<1> QED BY <1>1, FlightStaysBounded, PTL

\* And on a path that behaves, acknowledgements come in the order of the numbers.
THEOREM AimdAcksInOrder ==
    ASSUME Windows = {w \in Nat : w >= LossWindow}
    PROVE  ASpec => AckAsExpected
<1>1. ASpec => Spec
  BY AimdIsSender DEF IsSender
<1> QED BY <1>1, AcksComeInOrder, PTL
=============================================================================

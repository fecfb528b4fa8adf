------------------------------ MODULE Checksum ------------------------------
(***************************************************************************)
(* The Internet checksum as cksum computes it (sr_utils.c), over data that *)
(* is a sequence of 16-bit words; of an odd number of octets the last word *)
(* has a low octet of 0.  Next to it the test that the standard has for    *)
(* the receiver, RFC 1071: the words and their checksum add up, in ones'   *)
(* complement, to all ones.                                                *)
(***************************************************************************)
EXTENDS Naturals, Sequences

Ones == 65535
Words == 0 .. Ones

WordSum[words \in Seq(Words)] ==
    IF words = << >> THEN 0 ELSE Head(words) + WordSum[Tail(words)]

\* "while (sum > 0xffff) sum = (sum >> 16) + (sum & 0xffff)"
Carried[sum \in Nat] ==
    IF sum <= Ones THEN sum ELSE Carried[(sum \div (Ones + 1)) + (sum % (Ones + 1))]

\* "return sum ? sum : 0xffff": of the two ways to write zero, all ones.
Complement[sum \in Words] == IF sum = Ones THEN Ones ELSE Ones - sum

Cksum(words) == Complement[Carried[WordSum[words]]]

\* What a sender writes that follows the standard without that last line.
StandardCksum(words) == Ones - Carried[WordSum[words]]

\* The receiver's test, on the words with the checksum among them.
AddsUp(words) == WordSum[words] > 0 /\ WordSum[words] % Ones = 0
=============================================================================

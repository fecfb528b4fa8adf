-------------------------------- MODULE Sha1 --------------------------------
(***************************************************************************)
(* The message side of SHA-1 (sha1.c): the context that takes a message in *)
(* pieces, counts its bits in two words, cuts it into blocks and pads it.  *)
(*                                                                         *)
(* What is done with a block once it is full is left out: the digest is a  *)
(* function of the blocks in their order, so a context is known here by    *)
(* the blocks it has processed.  The places at the end of a block that     *)
(* hold the length are two, one for each of its words.                     *)
(***************************************************************************)
EXTENDS Naturals, Sequences, SequencesExt

CONSTANTS
    BlockSize,   \* places of Message_Block: 64 octets, eight of them for the length
    Word,        \* 2^32, the range of a length word
    Unset        \* what Message_Block holds before it is written

\* The places before the length: 56 in the code.
Room == BlockSize - 2

ASSUME Sha1Assumption ==
    /\ BlockSize \in Nat /\ BlockSize > 2
    /\ Word \in Nat \ {0} /\ Word % 8 = 0

Mark == 128     \* 0x80

-----------------------------------------------------------------------------
Reset ==
    [hashed |-> << >>, block |-> [i \in 1 .. BlockSize |-> Unset], index |-> 0,
     low |-> 0, high |-> 0, computed |-> FALSE, corrupted |-> FALSE]

ProcessMessageBlock(c) == [c EXCEPT !.hashed = @ \o c.block, !.index = 0]

\* Message_Block[Message_Block_Index++] = o
Put(c, o) == [c EXCEPT !.block[c.index + 1] = o, !.index = @ + 1]

\* Eight bits more; a length that wraps both words is that of a message too long.
Counted(c) ==
    LET low == (c.low + 8) % Word
        high == IF low = 0 THEN (c.high + 1) % Word ELSE c.high
    IN  [c EXCEPT !.low = low, !.high = high,
                  !.corrupted = @ \/ (low = 0 /\ high = 0)]

\* One round of the loop of SHA1Input.
InputOctet(c, o) ==
    LET d == Counted(Put(c, o)) IN
    IF c.corrupted THEN c
    ELSE IF d.index = BlockSize THEN ProcessMessageBlock(d) ELSE d

Input(c, array) ==
    IF array = << >> THEN c
    ELSE IF c.computed \/ c.corrupted THEN [c EXCEPT !.corrupted = TRUE]
    ELSE FoldLeft(InputOctet, c, array)

ZeroTo(c, n) ==
    [c EXCEPT !.block = [i \in DOMAIN c.block |-> IF c.index < i /\ i <= n THEN 0 ELSE c.block[i]],
              !.index = IF @ < n THEN n ELSE @]

WithLength(c) == [c EXCEPT !.block[Room + 1] = c.high, !.block[Room + 2] = c.low]

\* Mutant of Padded: a block is taken to have room for the length when it has none
\* left after the mark.
PaddedTight(c) ==
    IF c.index > Room
    THEN ZeroTo(ProcessMessageBlock(ZeroTo(Put(c, Mark), BlockSize)), Room)
    ELSE ZeroTo(Put(c, Mark), Room)

\* SHA1PadMessage up to the length: a block that the mark and the length do not fit in
\* is filled up and processed, and the length goes to one of its own.
Padded(c) ==
    IF c.index > Room - 1
    THEN ZeroTo(ProcessMessageBlock(ZeroTo(Put(c, Mark), BlockSize)), Room)
    ELSE ZeroTo(Put(c, Mark), Room)

PadMessage(c) == ProcessMessageBlock(WithLength(Padded(c)))

\* SHA1Result: the context after it, and whether it returns 1.
Result(c) ==
    IF c.corrupted \/ c.computed THEN c ELSE [PadMessage(c) EXCEPT !.computed = TRUE]
Returns(c) == ~c.corrupted

-----------------------------------------------------------------------------
(* The standard's padding, FIPS 180: the message, a one bit, the fewest    *)
(* zeros that make whole blocks of it, and the message's length in bits.   *)

Zeros(n) == [i \in 1 .. n |-> 0]

Fill(n) == CHOOSE k \in 0 .. BlockSize - 1 : (n + 1 + k + 2) % BlockSize = 0

Standard(m) ==
    LET bits == 8 * Len(m) IN
    m \o <<Mark>> \o Zeros(Fill(Len(m))) \o <<bits \div Word, bits % Word>>

OverLong(m) == 8 * Len(m) >= Word * Word
=============================================================================

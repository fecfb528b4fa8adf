----------------------------- MODULE Sha1Proofs -----------------------------
(***************************************************************************)
(* Proofs about Sha1, for every size of a block and every range of a       *)
(* length word: what an octet and the padding do to a context, that a      *)
(* message is taken whole, in as many calls as it comes, and that the      *)
(* digest is of the message padded as the standard has it.                 *)
(*                                                                         *)
(* The loop of SHA1Input is a fold.  Its rounds are found from a function  *)
(* with the recursion inside the fold, and facts about every octet of a    *)
(* message from a least counterexample.                                    *)
(***************************************************************************)
EXTENDS Sha1, SequenceTheorems, WellFoundedInduction, TLAPS

Place == Nat \cup {Unset}

Context ==
    [hashed : Seq(Place), block : [1 .. BlockSize -> Place], index : 0 .. BlockSize - 1,
     low : 0 .. Word - 1, high : 0 .. Word - 1, computed : BOOLEAN, corrupted : BOOLEAN]

\* A context between the two halves of a round: its block may be full.
Filling ==
    [hashed : Seq(Place), block : [1 .. BlockSize -> Place], index : 0 .. BlockSize,
     low : 0 .. Word - 1, high : 0 .. Word - 1, computed : BOOLEAN, corrupted : BOOLEAN]

\* The octets a context has taken: those of the blocks processed and those at the
\* beginning of the block that is being filled.
Taken(c) == c.hashed \o SubSeq(c.block, 1, c.index)

-----------------------------------------------------------------------------
\* A block is a sequence.
LEMMA BlockIsSeq ==
    ASSUME NEW b \in [1 .. BlockSize -> Place]
    PROVE  b \in Seq(Place) /\ Len(b) = BlockSize
BY Sha1Assumption

\* The beginning of a block is a sequence of its octets.
LEMMA BeginningOfBlock ==
    ASSUME NEW b \in [1 .. BlockSize -> Place], NEW n \in 0 .. BlockSize
    PROVE  /\ SubSeq(b, 1, n) \in Seq(Place)
           /\ Len(SubSeq(b, 1, n)) = n
           /\ \A i \in 1 .. n : SubSeq(b, 1, n)[i] = b[i]
<1>1. \A i \in 1 .. n : b[i] \in Place
  BY Sha1Assumption
<1>2. 1 \in Int /\ n \in Int
  BY Sha1Assumption
<1> QED BY <1>1, <1>2, SubSeqProperties, Sha1Assumption

\* Writing at a place that comes after the beginning makes it longer by that octet.
LEMMA BeginningGrows ==
    ASSUME NEW b \in [1 .. BlockSize -> Place], NEW n \in 0 .. BlockSize - 1, NEW o \in Nat
    PROVE  LET d == [b EXCEPT ![n + 1] = o] IN
           /\ d \in [1 .. BlockSize -> Place]
           /\ SubSeq(d, 1, n + 1) = Append(SubSeq(b, 1, n), o)
<1> DEFINE d == [b EXCEPT ![n + 1] = o]
<1>1. d \in [1 .. BlockSize -> Place]
  BY Sha1Assumption DEF Place
<1>2. n \in 0 .. BlockSize /\ n + 1 \in 0 .. BlockSize
  BY Sha1Assumption
<1>3. d[n + 1] = o /\ \A i \in 1 .. n : d[i] = b[i]
  BY <1>2, Sha1Assumption
<1> HIDE DEF d
<1> DEFINE s == SubSeq(d, 1, n + 1)  t == Append(SubSeq(b, 1, n), o)
<1>4. s \in Seq(Place) /\ Len(s) = n + 1 /\ \A i \in 1 .. n + 1 : s[i] = d[i]
  BY <1>1, <1>2, BeginningOfBlock
<1>5. t \in Seq(Place) /\ Len(t) = n + 1 /\ t[n + 1] = o /\ \A i \in 1 .. n : t[i] = b[i]
  <2> DEFINE u == SubSeq(b, 1, n)
  <2>1. u \in Seq(Place) /\ Len(u) = n /\ \A i \in 1 .. n : u[i] = b[i]
    BY <1>2, BeginningOfBlock
  <2>2. o \in Place
    BY DEF Place
  <2> HIDE DEF u
  <2>3. /\ Append(u, o) \in Seq(Place) /\ Len(Append(u, o)) = n + 1
        /\ Append(u, o)[n + 1] = o /\ \A i \in 1 .. n : Append(u, o)[i] = u[i]
    BY <2>1, <2>2, AppendProperties
  <2> QED BY <2>1, <2>3 DEF u
<1> HIDE DEF s, t
<1>6. \A i \in 1 .. n + 1 : s[i] = t[i]
  BY <1>2, <1>3, <1>4, <1>5
<1>7. s = t
  BY <1>4, <1>5, <1>6, SeqEqual
<1> QED BY <1>1, <1>7 DEF d, s, t

\* Appending to the second part of a sequence.
LEMMA ConcatOfAppend ==
    ASSUME NEW s \in Seq(Place), NEW t \in Seq(Place), NEW o \in Place
    PROVE  s \o Append(t, o) = Append(s \o t, o)
<1>1. <<o>> \in Seq(Place)
  OBVIOUS
<1>2. s \o t \in Seq(Place)
  BY ConcatProperties
<1>3. Append(t, o) = t \o <<o>>
  BY AppendIsConcat
<1>4. Append(s \o t, o) = (s \o t) \o <<o>>
  BY <1>2, AppendIsConcat
<1>5. (s \o t) \o <<o>> = s \o (t \o <<o>>)
  BY <1>1, ConcatAssociative
<1> QED BY <1>3, <1>4, <1>5

\* What is written to the next place is taken.
LEMMA PutTaken ==
    ASSUME NEW c \in Filling, NEW o \in Nat, c.index # BlockSize
    PROVE  /\ Put(c, o) \in Filling /\ Put(c, o).index = c.index + 1
           /\ Put(c, o).low = c.low /\ Put(c, o).high = c.high
           /\ Taken(Put(c, o)) = Append(Taken(c), o)
<1> DEFINE p == Put(c, o)  n == c.index
<1>1. /\ c.block \in [1 .. BlockSize -> Place] /\ c.hashed \in Seq(Place)
      /\ n \in 0 .. BlockSize - 1 /\ n \in 0 .. BlockSize /\ n + 1 \in 0 .. BlockSize
  BY Sha1Assumption DEF Filling
<1>2. p = [c EXCEPT !.block = [c.block EXCEPT ![n + 1] = o], !.index = n + 1]
  BY DEF Put, Filling
<1> DEFINE b == [c.block EXCEPT ![n + 1] = o]
<1>3. b \in [1 .. BlockSize -> Place] /\ SubSeq(b, 1, n + 1) = Append(SubSeq(c.block, 1, n), o)
  BY <1>1, BeginningGrows
<1> HIDE DEF b, p
<1>4. p = [c EXCEPT !.block = b, !.index = n + 1]
  BY <1>2 DEF b
<1>5. /\ p \in Filling /\ p.block = b /\ p.index = n + 1 /\ p.hashed = c.hashed
      /\ p.low = c.low /\ p.high = c.high
  BY <1>1, <1>3, <1>4 DEF Filling
<1>6. SubSeq(c.block, 1, n) \in Seq(Place)
  BY <1>1, BeginningOfBlock
<1>7. c.hashed \o Append(SubSeq(c.block, 1, n), o) = Append(c.hashed \o SubSeq(c.block, 1, n), o)
  BY <1>1, <1>6, ConcatOfAppend DEF Place
<1>8. Taken(p) = Append(Taken(c), o)
  BY <1>3, <1>5, <1>7 DEF Taken
<1> QED BY <1>5, <1>8 DEF p

\* Two sequences of places, one after the other, place by place.
LEMMA Joined ==
    ASSUME NEW s \in Seq(Place), NEW t \in Seq(Place)
    PROVE  /\ s \o t \in Seq(Place) /\ Len(s \o t) = Len(s) + Len(t)
           /\ \A i \in 1 .. Len(s) : (s \o t)[i] = s[i]
           /\ \A i \in 1 .. Len(t) : (s \o t)[Len(s) + i] = t[i]
<1>1. Len(s) \in Nat /\ Len(t) \in Nat
  BY LenProperties
<1>2. /\ s \o t \in Seq(Place) /\ Len(s \o t) = Len(s) + Len(t)
      /\ \A i \in 1 .. Len(s) + Len(t) : (s \o t)[i] = IF i <= Len(s) THEN s[i] ELSE t[i - Len(s)]
  BY ConcatProperties
<1>3. ASSUME NEW i \in 1 .. Len(s) PROVE (s \o t)[i] = s[i]
  BY <1>1, <1>2
<1>4. ASSUME NEW i \in 1 .. Len(t) PROVE (s \o t)[Len(s) + i] = t[i]
  <2>1. /\ Len(s) + i \in 1 .. Len(s) + Len(t) /\ ~(Len(s) + i <= Len(s))
        /\ Len(s) + i - Len(s) = i
    BY <1>1
  <2> QED BY <1>2, <2>1
<1> QED BY <1>2, <1>3, <1>4

\* What was taken is a sequence.
LEMMA TakenIsSeq ==
    ASSUME NEW c \in Filling
    PROVE  Taken(c) \in Seq(Place)
<1>1. /\ c.block \in [1 .. BlockSize -> Place] /\ c.hashed \in Seq(Place)
      /\ c.index \in 0 .. BlockSize
  BY DEF Filling
<1>2. SubSeq(c.block, 1, c.index) \in Seq(Place)
  BY <1>1, BeginningOfBlock
<1> QED BY <1>1, <1>2, ConcatProperties DEF Taken

\* Processing a full block takes nothing and forgets nothing.
LEMMA FullProcessed ==
    ASSUME NEW c \in Filling
    PROVE  /\ ProcessMessageBlock(c) \in Context
           /\ ProcessMessageBlock(c).low = c.low /\ ProcessMessageBlock(c).high = c.high
           /\ ProcessMessageBlock(c).index = 0
           /\ ProcessMessageBlock(c).hashed = c.hashed \o c.block
           /\ c.index = BlockSize => Taken(ProcessMessageBlock(c)) = Taken(c)
<1> DEFINE e == ProcessMessageBlock(c)  h == c.hashed \o c.block
<1>1. c.block \in [1 .. BlockSize -> Place] /\ c.hashed \in Seq(Place)
  BY DEF Filling
<1>2. c.block \in Seq(Place) /\ Len(c.block) = BlockSize
  BY <1>1, BlockIsSeq
<1>3. h \in Seq(Place)
  BY <1>1, <1>2, ConcatProperties
<1>4. e = [c EXCEPT !.hashed = h, !.index = 0]
  BY DEF ProcessMessageBlock
<1> HIDE DEF e, h
<1>5. e \in Context /\ e.low = c.low /\ e.high = c.high /\ e.index = 0 /\ e.hashed = h
  <2>1. 0 \in 0 .. BlockSize - 1
    BY Sha1Assumption
  <2> QED BY <1>3, <1>4, <2>1 DEF Filling, Context
<1>6. Taken(e) = h
  <2>1. SubSeq(e.block, 1, 0) = << >>
    BY SubSeqEmpty
  <2> QED BY <1>3, <1>5, <2>1, ConcatEmptySeq DEF Taken
<1>7. ASSUME c.index = BlockSize PROVE Taken(c) = h
  BY <1>2, <1>7, SubSeqFull DEF Taken, h
<1> QED BY <1>5, <1>6, <1>7 DEF e, h

\* An octet goes to the next place of the block, which is one of the block's, and to
\* no other; the count is kept within its two words; and a block that is full is
\* processed at once, so that the context never holds a full one: SHA1Input and
\* SHA1ProcessMessageBlock, for a context that is not corrupted.
THEOREM OctetTaken ==
    ASSUME NEW c \in Context, NEW o \in Nat, ~c.corrupted
    PROVE  /\ InputOctet(c, o) \in Context
           /\ Taken(InputOctet(c, o)) = Append(Taken(c), o)
<1> DEFINE p == Put(c, o)  d == Counted(p)
<1>1. c \in Filling /\ c.index # BlockSize
  BY Sha1Assumption DEF Context, Filling
<1>2. p \in Filling /\ Taken(p) = Append(Taken(c), o)
  BY <1>1, PutTaken
<1> HIDE DEF p
<1>3. d \in Filling /\ d.hashed = p.hashed /\ d.block = p.block /\ d.index = p.index
  <2> DEFINE low == (p.low + 8) % Word
             high == IF low = 0 THEN (p.high + 1) % Word ELSE p.high
  <2>1. low \in 0 .. Word - 1 /\ high \in 0 .. Word - 1
    <3>1. \A x \in Nat : x % Word \in 0 .. Word - 1
      BY Sha1Assumption
    <3>2. p.low + 8 \in Nat /\ p.high + 1 \in Nat /\ p.high \in 0 .. Word - 1
      BY <1>2, Sha1Assumption DEF Filling
    <3>3. (p.low + 8) % Word \in 0 .. Word - 1 /\ (p.high + 1) % Word \in 0 .. Word - 1
      BY <3>1, <3>2
    <3> QED BY <3>2, <3>3
  <2>2. d = [p EXCEPT !.low = low, !.high = high, !.corrupted = @ \/ (low = 0 /\ high = 0)]
    BY DEF Counted
  <2> HIDE DEF d, low, high
  <2> QED BY <1>2, <2>1, <2>2 DEF Filling
<1>4. InputOctet(c, o) = IF d.index = BlockSize THEN ProcessMessageBlock(d) ELSE d
  BY DEF InputOctet, p
<1> HIDE DEF d
<1>5. Taken(d) = Append(Taken(c), o)
  BY <1>2, <1>3 DEF Taken
<1>6. CASE d.index = BlockSize
  BY <1>3, <1>4, <1>5, <1>6, FullProcessed
<1>7. CASE d.index # BlockSize
  <2>1. d \in Context
    BY <1>3, <1>7, Sha1Assumption DEF Context, Filling
  <2> QED BY <1>4, <1>5, <1>7, <2>1
<1> QED BY <1>6, <1>7

-----------------------------------------------------------------------------
(* Padding.                                                                *)

\* Zeros are a sequence.
LEMMA ZerosAreSeq ==
    ASSUME NEW k \in Nat
    PROVE  Zeros(k) \in Seq(Place) /\ Len(Zeros(k)) = k /\ \A i \in 1 .. k : Zeros(k)[i] = 0
BY DEF Zeros, Place

\* Zeros after zeros.
LEMMA ZerosAdd ==
    ASSUME NEW j \in Nat, NEW k \in Nat
    PROVE  Zeros(j) \o Zeros(k) = Zeros(j + k)
<1> DEFINE s == Zeros(j)  t == Zeros(k)  u == Zeros(j + k)
<1>1. /\ s \in Seq(Place) /\ Len(s) = j /\ \A i \in 1 .. j : s[i] = 0
      /\ t \in Seq(Place) /\ Len(t) = k /\ \A i \in 1 .. k : t[i] = 0
      /\ u \in Seq(Place) /\ Len(u) = j + k /\ \A i \in 1 .. j + k : u[i] = 0
  BY ZerosAreSeq
<1> HIDE DEF s, t, u
<1>2. /\ s \o t \in Seq(Place) /\ Len(s \o t) = j + k
      /\ \A i \in 1 .. j + k : (s \o t)[i] = IF i <= j THEN s[i] ELSE t[i - j]
  BY <1>1, ConcatProperties
<1>3. \A i \in 1 .. j + k : (s \o t)[i] = u[i]
  BY <1>1, <1>2
<1>4. s \o t = u
  BY <1>1, <1>2, <1>3, SeqEqual
<1> QED BY <1>4 DEF s, t, u

\* The loops of SHA1PadMessage that fill a block up to its n-th place take zeros only.
LEMMA ZerosTaken ==
    ASSUME NEW c \in Filling, NEW n \in 0 .. BlockSize, c.index <= n
    PROVE  /\ ZeroTo(c, n) \in Filling /\ ZeroTo(c, n).index = n
           /\ ZeroTo(c, n).low = c.low /\ ZeroTo(c, n).high = c.high
           /\ Taken(ZeroTo(c, n)) = Taken(c) \o Zeros(n - c.index)
<1> DEFINE m == c.index
           b == [i \in DOMAIN c.block |-> IF m < i /\ i <= n THEN 0 ELSE c.block[i]]
           z == ZeroTo(c, n)
           s == SubSeq(c.block, 1, m)
           t == SubSeq(b, 1, n)
           u == Zeros(n - m)
<1>1. /\ c.block \in [1 .. BlockSize -> Place] /\ c.hashed \in Seq(Place)
      /\ m \in 0 .. BlockSize /\ m <= n /\ n - m \in Nat /\ n \in Nat /\ m \in Nat
  BY Sha1Assumption DEF Filling
<1>2. /\ b \in [1 .. BlockSize -> Place]
      /\ \A i \in 1 .. n : b[i] = IF i <= m THEN c.block[i] ELSE 0
  BY <1>1, Sha1Assumption DEF Place
<1>3. z = [c EXCEPT !.block = b, !.index = n]
  <2>1. (IF m < n THEN n ELSE m) = n
    BY <1>1
  <2>2. z = [c EXCEPT !.block = b, !.index = IF m < n THEN n ELSE m]
    BY DEF ZeroTo, Filling
  <2> HIDE DEF b, z, m
  <2> QED BY <2>1, <2>2
<1> HIDE DEF b, z
<1>4. z \in Filling /\ z.block = b /\ z.index = n /\ z.hashed = c.hashed /\ z.low = c.low /\ z.high = c.high
  BY <1>1, <1>2, <1>3 DEF Filling
<1>5. /\ s \in Seq(Place) /\ Len(s) = m /\ \A i \in 1 .. m : s[i] = c.block[i]
      /\ t \in Seq(Place) /\ Len(t) = n /\ \A i \in 1 .. n : t[i] = b[i]
      /\ u \in Seq(Place) /\ Len(u) = n - m /\ \A i \in 1 .. n - m : u[i] = 0
  BY <1>1, <1>2, BeginningOfBlock, ZerosAreSeq
<1> HIDE DEF s, t, u
<1>6. /\ s \o u \in Seq(Place) /\ Len(s \o u) = n
      /\ \A i \in 1 .. m : (s \o u)[i] = s[i]
      /\ \A i \in 1 .. n - m : (s \o u)[m + i] = u[i]
  <2>1. Len(s) + Len(u) = n
    BY <1>1, <1>5
  <2>2. /\ s \o u \in Seq(Place) /\ Len(s \o u) = Len(s) + Len(u)
        /\ \A i \in 1 .. Len(s) : (s \o u)[i] = s[i]
        /\ \A i \in 1 .. Len(u) : (s \o u)[Len(s) + i] = u[i]
    BY <1>5, Joined
  <2> QED BY <1>5, <2>1, <2>2
<1>7. \A i \in 1 .. n : t[i] = (s \o u)[i]
  <2> SUFFICES ASSUME NEW i \in 1 .. n PROVE t[i] = (s \o u)[i]
    OBVIOUS
  <2>1. CASE i <= m
    BY <1>1, <1>2, <1>5, <1>6, <2>1
  <2>2. CASE ~(i <= m)
    <3>1. i - m \in 1 .. n - m /\ m + (i - m) = i
      BY <1>1, <2>2
    <3>2. (s \o u)[i] = 0
      BY <1>5, <1>6, <3>1
    <3>3. t[i] = 0
      BY <1>2, <1>5, <2>2
    <3> QED BY <3>2, <3>3
  <2> QED BY <2>1, <2>2
<1>8. t = s \o u
  BY <1>5, <1>6, <1>7, SeqEqual
<1>9. c.hashed \o (s \o u) = (c.hashed \o s) \o u
  <2> DEFINE h == c.hashed
  <2>1. h \in Seq(Place) /\ s \in Seq(Place) /\ u \in Seq(Place)
    BY <1>1, <1>5
  <2> HIDE DEF h
  <2>2. (h \o s) \o u = h \o (s \o u)
    BY <2>1, ConcatAssociative
  <2> QED BY <2>2 DEF h
<1>10. Taken(z) = Taken(c) \o u
  BY <1>4, <1>8, <1>9 DEF Taken, s, t
<1> QED BY <1>4, <1>10 DEF z, u

\* Up to the length: the mark and zeros are taken, and there is room for the length.
LEMMA PaddedTakes ==
    ASSUME NEW c \in Context
    PROVE  /\ Padded(c) \in Filling /\ Padded(c).index = Room
           /\ Padded(c).low = c.low /\ Padded(c).high = c.high
           /\ \E k \in 0 .. BlockSize - 1 :
                 Taken(Padded(c)) = Append(Taken(c), Mark) \o Zeros(k)
<1> DEFINE p == Put(c, Mark)  n == c.index
<1>1. /\ c \in Filling /\ n \in 0 .. BlockSize - 1 /\ n # BlockSize /\ Mark \in Nat
      /\ Room \in 0 .. BlockSize /\ Room = BlockSize - 2 /\ BlockSize \in 0 .. BlockSize
      /\ BlockSize \in Nat
  BY Sha1Assumption DEF Context, Filling, Room, Mark
<1>2. /\ p \in Filling /\ p.index = n + 1 /\ p.low = c.low /\ p.high = c.high
      /\ Taken(p) = Append(Taken(c), Mark)
  BY <1>1, PutTaken
<1>3. Padded(c) = IF n > Room - 1
                  THEN ZeroTo(ProcessMessageBlock(ZeroTo(p, BlockSize)), Room)
                  ELSE ZeroTo(p, Room)
  BY DEF Padded
<1> HIDE DEF p
<1>4. CASE n > Room - 1
  <2> DEFINE f == ZeroTo(p, BlockSize)
             e == ProcessMessageBlock(f)
             j == BlockSize - (n + 1)
  <2>1. n + 1 <= BlockSize /\ j \in Nat /\ Room \in Nat /\ j + Room \in 0 .. BlockSize - 1
    BY <1>1, <1>4
  <2>2. /\ f \in Filling /\ f.index = BlockSize /\ f.low = c.low /\ f.high = c.high
        /\ Taken(f) = Append(Taken(c), Mark) \o Zeros(j)
    <3>1. p \in Filling /\ BlockSize \in 0 .. BlockSize /\ p.index <= BlockSize
      BY <1>1, <1>2, <2>1
    <3>2. j = BlockSize - p.index
      BY <1>2
    <3> HIDE DEF j
    <3>3. /\ f \in Filling /\ f.index = BlockSize /\ f.low = p.low /\ f.high = p.high
          /\ Taken(f) = Taken(p) \o Zeros(j)
      BY <3>1, <3>2, ZerosTaken
    <3> QED BY <1>2, <3>3
  <2> HIDE DEF f, j
  <2>3. e \in Filling /\ e.index = 0 /\ e.low = c.low /\ e.high = c.high /\ Taken(e) = Taken(f)
    <3>1. \A x \in Context : x \in Filling
      BY Sha1Assumption DEF Context, Filling
    <3> QED BY <2>2, <3>1, FullProcessed
  <2> HIDE DEF e
  <2>4. /\ ZeroTo(e, Room) \in Filling /\ ZeroTo(e, Room).index = Room
        /\ ZeroTo(e, Room).low = c.low /\ ZeroTo(e, Room).high = c.high
        /\ Taken(ZeroTo(e, Room)) = Taken(e) \o Zeros(Room)
    <3>1. e.index <= Room /\ Room - e.index = Room
      BY <2>1, <2>3
    <3>2. /\ ZeroTo(e, Room) \in Filling /\ ZeroTo(e, Room).index = Room
          /\ ZeroTo(e, Room).low = e.low /\ ZeroTo(e, Room).high = e.high
          /\ Taken(ZeroTo(e, Room)) = Taken(e) \o Zeros(Room - e.index)
      BY <1>1, <2>3, <3>1, ZerosTaken
    <3> QED BY <2>3, <3>1, <3>2
  <2>5. Append(Taken(c), Mark) \o Zeros(j + Room) = (Append(Taken(c), Mark) \o Zeros(j)) \o Zeros(Room)
    <3>1. Append(Taken(c), Mark) \in Seq(Place)
      BY <1>1, TakenIsSeq, AppendProperties DEF Place
    <3>2. Zeros(j) \in Seq(Place) /\ Zeros(Room) \in Seq(Place) /\ Zeros(j) \o Zeros(Room) = Zeros(j + Room)
      BY <2>1, ZerosAreSeq, ZerosAdd
    <3> DEFINE s == Append(Taken(c), Mark)  t == Zeros(j)  u == Zeros(Room)
    <3> HIDE DEF s, t, u
    <3>3. s \in Seq(Place) /\ t \in Seq(Place) /\ u \in Seq(Place)
      BY <3>1, <3>2 DEF s, t, u
    <3>4. (s \o t) \o u = s \o (t \o u)
      BY <3>3, ConcatAssociative
    <3> QED BY <3>2, <3>4 DEF s, t, u
  <2>6. Padded(c) = ZeroTo(e, Room)
    BY <1>3, <1>4 DEF e, f
  <2> QED BY <2>1, <2>2, <2>3, <2>4, <2>5, <2>6
<1>5. CASE ~(n > Room - 1)
  <2> DEFINE j == Room - (n + 1)
  <2>1. n + 1 <= Room /\ j \in 0 .. BlockSize - 1
    BY <1>1, <1>5
  <2>2. /\ ZeroTo(p, Room) \in Filling /\ ZeroTo(p, Room).index = Room
        /\ ZeroTo(p, Room).low = c.low /\ ZeroTo(p, Room).high = c.high
        /\ Taken(ZeroTo(p, Room)) = Append(Taken(c), Mark) \o Zeros(j)
    <3>1. p \in Filling /\ Room \in 0 .. BlockSize /\ p.index <= Room
      BY <1>1, <1>2, <2>1
    <3>2. j = Room - p.index
      BY <1>2
    <3> HIDE DEF j
    <3>3. /\ ZeroTo(p, Room) \in Filling /\ ZeroTo(p, Room).index = Room
          /\ ZeroTo(p, Room).low = p.low /\ ZeroTo(p, Room).high = p.high
          /\ Taken(ZeroTo(p, Room)) = Taken(p) \o Zeros(j)
      BY <3>1, <3>2, ZerosTaken
    <3> QED BY <1>2, <3>3
  <2> HIDE DEF j
  <2>3. Padded(c) = ZeroTo(p, Room)
    BY <1>3, <1>5
  <2> QED BY <2>1, <2>2, <2>3
<1> QED BY <1>4, <1>5

\* SHA1PadMessage, wherever in a block the message ends: what is processed is the
\* message, a one bit, fewer zeros than a block has places, and the two words of the
\* length, and nothing is left over.
THEOREM MessagePadded ==
    ASSUME NEW c \in Context
    PROVE  /\ PadMessage(c).index = 0
           /\ \E k \in 0 .. BlockSize - 1 :
                 PadMessage(c).hashed =
                    (Append(Taken(c), Mark) \o Zeros(k)) \o <<c.high, c.low>>
<1> DEFINE p == Padded(c)  w == WithLength(p)
           b == [[p.block EXCEPT ![Room + 1] = p.high] EXCEPT ![Room + 2] = p.low]
           s == SubSeq(p.block, 1, Room)
           t == <<c.high, c.low>>
<1>1. PICK k \in 0 .. BlockSize - 1 : Taken(p) = Append(Taken(c), Mark) \o Zeros(k)
  BY PaddedTakes
<1>2. p \in Filling /\ p.index = Room /\ p.low = c.low /\ p.high = c.high
  BY PaddedTakes
<1>3. /\ Room \in 0 .. BlockSize /\ Room \in Nat /\ Room + 2 = BlockSize
      /\ Room + 1 \in 1 .. BlockSize /\ Room + 2 \in 1 .. BlockSize /\ Room + 1 # Room + 2
  BY Sha1Assumption DEF Room
<1>4. c.high \in Place /\ c.low \in Place
  BY Sha1Assumption DEF Context, Place
<1>5. w = [p EXCEPT !.block = b]
  BY <1>2 DEF WithLength, Filling
<1> HIDE DEF p
<1>6. p.block \in [1 .. BlockSize -> Place] /\ p.hashed \in Seq(Place)
  BY <1>2 DEF Filling
<1>7. /\ b \in [1 .. BlockSize -> Place]
      /\ b[Room + 1] = c.high /\ b[Room + 2] = c.low /\ \A i \in 1 .. Room : b[i] = p.block[i]
  BY <1>2, <1>3, <1>4, <1>6
<1> HIDE DEF b, w
<1>8. w \in Filling /\ w.block = b /\ w.hashed = p.hashed
  BY <1>2, <1>5, <1>7 DEF Filling
<1>9. s \in Seq(Place) /\ Len(s) = Room /\ \A i \in 1 .. Room : s[i] = p.block[i]
  BY <1>3, <1>6, BeginningOfBlock
<1>10. t \in Seq(Place) /\ Len(t) = 2 /\ t[1] = c.high /\ t[2] = c.low
  BY <1>4
<1> HIDE DEF s, t
<1>11. b = s \o t
  <2>1. /\ s \o t \in Seq(Place) /\ Len(s \o t) = BlockSize
        /\ \A i \in 1 .. Room : (s \o t)[i] = s[i]
        /\ (s \o t)[Room + 1] = t[1] /\ (s \o t)[Room + 2] = t[2]
    <3>1. Len(s) + Len(t) = BlockSize /\ 1 \in 1 .. Len(t) /\ 2 \in 1 .. Len(t)
      BY <1>3, <1>9, <1>10
    <3>2. /\ s \o t \in Seq(Place) /\ Len(s \o t) = Len(s) + Len(t)
          /\ \A i \in 1 .. Len(s) : (s \o t)[i] = s[i]
          /\ \A i \in 1 .. Len(t) : (s \o t)[Len(s) + i] = t[i]
      BY <1>9, <1>10, Joined
    <3> QED BY <1>9, <3>1, <3>2
  <2>2. b \in Seq(Place) /\ Len(b) = BlockSize
    BY <1>7, BlockIsSeq
  <2>3. \A i \in 1 .. BlockSize : b[i] = (s \o t)[i]
    <3> SUFFICES ASSUME NEW i \in 1 .. BlockSize PROVE b[i] = (s \o t)[i]
      OBVIOUS
    <3>1. i \in 1 .. Room \/ i = Room + 1 \/ i = Room + 2
      BY <1>3
    <3>2. CASE i \in 1 .. Room
      BY <1>7, <1>9, <2>1, <3>2
    <3>3. CASE i = Room + 1
      BY <1>7, <1>10, <2>1, <3>3
    <3>4. CASE i = Room + 2
      BY <1>7, <1>10, <2>1, <3>4
    <3> QED BY <3>1, <3>2, <3>3, <3>4
  <2> QED BY <2>1, <2>2, <2>3, SeqEqual
<1>12. PadMessage(c).index = 0 /\ PadMessage(c).hashed = p.hashed \o b
  BY <1>8, FullProcessed DEF PadMessage, p, w
<1>13. p.hashed \o (s \o t) = (p.hashed \o s) \o t
  <2> DEFINE h == p.hashed
  <2>1. h \in Seq(Place) /\ s \in Seq(Place) /\ t \in Seq(Place)
    BY <1>6, <1>9, <1>10
  <2> HIDE DEF h
  <2>2. (h \o s) \o t = h \o (s \o t)
    BY <2>1, ConcatAssociative
  <2> QED BY <2>2 DEF h
<1>14. Taken(p) = p.hashed \o s
  BY <1>2 DEF Taken, s
<1> QED BY <1>1, <1>11, <1>12, <1>13, <1>14 DEF t

-----------------------------------------------------------------------------
(* A whole message, octet by octet: the loop of SHA1Input is a fold.       *)

\* The order that the least element below is the least of.
LEMMA LessOnNat == \A x, y \in Nat : <<x, y>> \in OpToRel(<, Nat) <=> x < y
BY Zenon DEF OpToRel

\* A set of numbers that is not empty has a least one.
LEMMA LeastOne ==
    ASSUME NEW T \in SUBSET Nat, T # {}
    PROVE  \E n \in T : \A m \in T : n <= m
<1>1. PICK n \in T : \A m \in T : ~(<<m, n>> \in OpToRel(<, Nat))
  BY NatLessThanWellFounded, WFMin, Zenon
<1>2. \A m \in T : ~(m < n)
  BY <1>1, LessOnNat, Zenon
<1> QED BY <1>2

\* One up to a bound has a greatest.
LEMMA GreatestOne ==
    ASSUME NEW n \in Nat, NEW s \in SUBSET (1 .. n), s # {}
    PROVE  Max(s) \in s /\ s \ {Max(s)} \in SUBSET (1 .. n - 1)
<1> DEFINE T == {k \in Nat : \A x \in s : x <= k}
<1>1. n \in T
  OBVIOUS
<1>2. PICK k \in T : \A j \in T : k <= j
  BY <1>1, LeastOne
<1>3. k \in s
  <2> SUFFICES ASSUME k \notin s PROVE FALSE
    OBVIOUS
  <2>1. k \in Nat /\ \A x \in s : x \in Nat /\ 1 <= x /\ x <= k /\ x # k
    OBVIOUS
  <2>2. k > 0 /\ \A x \in s : x <= k - 1
    <3>1. PICK y : y \in s
      OBVIOUS
    <3>2. k > 0
      BY <2>1, <3>1
    <3>3. ASSUME NEW x \in s PROVE x <= k - 1
      BY <2>1
    <3> QED BY <3>2, <3>3
  <2> QED BY <1>2, <2>2
<1>4. \A x \in s : k >= x
  BY <1>2
<1>5. Max(s) \in s /\ \A x \in s : Max(s) >= x
  <2> HIDE DEF T
  <2> QED BY <1>3, <1>4, Zenon DEF Max
<1> DEFINE m == Max(s)
<1> HIDE DEF m
<1>6. m \in s /\ \A x \in s : m >= x
  BY <1>5 DEF m
<1>7. \A x \in s : x \in 1 .. n /\ x <= m
  BY <1>6
<1>8. m \in 1 .. n /\ \A x \in s \ {m} : x \in 1 .. n /\ x <= m /\ x # m
  BY <1>6, <1>7
<1>9. \A x \in s \ {m} : x \in 1 .. n - 1
  <2> SUFFICES ASSUME NEW x \in s \ {m} PROVE x \in 1 .. n - 1
    OBVIOUS
  <2>1. x \in 1 .. n /\ x <= m /\ x # m
    BY <1>8
  <2> QED BY <1>8, <2>1
<1> QED BY <1>6, <1>9 DEF m

\* What the fold does for the octets at the places in s: those of the places before the
\* last of them, and then that one.
Round(c, a, f, s) == IF s = {} THEN c ELSE InputOctet(f[s \ {Max(s)}], a[Max(s)])

\* There is a function that does this for the sets of places up to each length.
LEMMA RoundsExist ==
    \A c, a : \A n \in Nat : \E f : f = [s \in SUBSET (1 .. n) |-> Round(c, a, f, s)]
<1> SUFFICES ASSUME NEW c, NEW a
             PROVE  \A n \in Nat : \E f : f = [s \in SUBSET (1 .. n) |-> Round(c, a, f, s)]
  OBVIOUS
<1> DEFINE Some(n) == \E f : f = [s \in SUBSET (1 .. n) |-> Round(c, a, f, s)]
           T == {n \in Nat : ~Some(n)}
<1> SUFFICES ASSUME T # {} PROVE FALSE
  OBVIOUS
<1>1. PICK n \in T : \A m \in T : n <= m
  BY LeastOne
<1>2. n # 0
  <2> DEFINE g == [s \in SUBSET (1 .. 0) |-> c]
  <2>1. g = [s \in SUBSET (1 .. 0) |-> Round(c, a, g, s)]
    BY DEF Round
  <2>2. Some(0)
    BY <2>1
  <2> QED BY <2>2
<1>3. n - 1 \in Nat /\ Some(n - 1)
  <2> HIDE DEF Some
  <2>1. n - 1 \in Nat /\ ~(n <= n - 1)
    BY <1>2
  <2>2. n - 1 \notin T
    BY <1>1, <2>1
  <2> QED BY <2>1, <2>2
<1>4. PICK f : f = [s \in SUBSET (1 .. n - 1) |-> Round(c, a, f, s)]
  BY <1>3
<1> DEFINE h == [s \in SUBSET (1 .. n) |-> Round(c, a, f, s)]
<1>5. ASSUME NEW s \in SUBSET (1 .. n) PROVE Round(c, a, h, s) = Round(c, a, f, s)
  <2> SUFFICES ASSUME s # {} PROVE h[s \ {Max(s)}] = f[s \ {Max(s)}]
    BY DEF Round
  <2> DEFINE t == s \ {Max(s)}
  <2>1. t \in SUBSET (1 .. n - 1)
    BY GreatestOne
  <2>2. t \in SUBSET (1 .. n)
    OBVIOUS
  <2> HIDE DEF t
  <2>3. f[t] = Round(c, a, f, t)
    BY <1>4, <2>1
  <2>4. h[t] = Round(c, a, f, t)
    BY <2>2
  <2> QED BY <2>3, <2>4 DEF t
<1>6. h = [s \in SUBSET (1 .. n) |-> Round(c, a, h, s)]
  <2>1. h = [s \in SUBSET (1 .. n) |-> Round(c, a, f, s)]
    OBVIOUS
  <2> HIDE DEF h
  <2> QED BY <1>5, <2>1
<1>7. Some(n)
  <2> HIDE DEF h
  <2> QED BY <1>6
<1> QED BY <1>7

\* So the loop goes from context to context.
LEMMA LoopRounds ==
    ASSUME NEW c, NEW a \in Seq(Nat)
    PROVE  \E g : /\ g[0] = c
                  /\ \A n \in 1 .. Len(a) : g[n] = InputOctet(g[n - 1], a[n])
                  /\ FoldLeft(InputOctet, c, a) = g[Len(a)]
<1> DEFINE N == Len(a)
           iter == CHOOSE f : f = [s \in SUBSET (DOMAIN a) |-> Round(c, a, f, s)]
           g == [n \in 0 .. N |-> iter[1 .. n]]
<1>1. N \in Nat /\ DOMAIN a = 1 .. N
  BY LenProperties
<1>2. iter = [s \in SUBSET (DOMAIN a) |-> Round(c, a, iter, s)]
  BY <1>1, RoundsExist
<1>3. FoldLeft(InputOctet, c, a) = iter[DOMAIN a]
  BY DEF FoldLeft, MapThenFoldSet, Round
<1>4. \A n \in 0 .. N : g[n] = iter[1 .. n]
  OBVIOUS
<1> HIDE DEF iter, g, N
<1>5. ASSUME NEW n \in 1 .. N PROVE g[n] = InputOctet(g[n - 1], a[n])
  <2>1. n \in Nat /\ n >= 1 /\ n <= N
    BY <1>1
  <2>2. n \in 0 .. N /\ n - 1 \in 0 .. N /\ 1 .. n \subseteq 1 .. N
    BY <1>1, <2>1
  <2>3. 1 .. n \in SUBSET (1 .. n) /\ n \in 1 .. n
    BY <2>1
  <2>4. Max(1 .. n) \in 1 .. n /\ (1 .. n) \ {Max(1 .. n)} \in SUBSET (1 .. n - 1)
    BY <2>1, <2>3, GreatestOne
  <2> DEFINE m == Max(1 .. n)
  <2> HIDE DEF m
  <2>5. m \in 1 .. n /\ (1 .. n) \ {m} \in SUBSET (1 .. n - 1)
    BY <2>4 DEF m
  <2>6. m = n
    BY <2>1, <2>3, <2>5
  <2>7. (1 .. n) \ {n} = 1 .. n - 1
    BY <2>1
  <2>8. iter[1 .. n] = Round(c, a, iter, 1 .. n)
    BY <1>1, <1>2, <2>2
  <2>9. iter[1 .. n] = InputOctet(iter[1 .. n - 1], a[n])
    BY <2>3, <2>6, <2>7, <2>8 DEF Round, m
  <2> QED BY <1>4, <2>2, <2>9
<1>6. g[0] = c
  <2>1. 1 .. 0 = {} /\ 0 \in 0 .. N
    BY <1>1
  <2>2. iter[{}] = c
    BY <1>2 DEF Round
  <2> QED BY <1>4, <2>1, <2>2
<1>7. FoldLeft(InputOctet, c, a) = g[N]
  <2>1. N \in 0 .. N
    BY <1>1
  <2> QED BY <1>1, <1>3, <1>4, <2>1
<1> QED BY <1>5, <1>6, <1>7 DEF N

-----------------------------------------------------------------------------
(* The two words of the length.                                            *)

\* Multiplying keeps the order.
LEMMA TimesKeepsOrder ==
    ASSUME NEW a \in Nat, NEW b \in Nat, NEW w \in Nat, a <= b
    PROVE  a * w \in Nat /\ a * w <= b * w
<1>1. b = a + (b - a) /\ b - a \in Nat
  OBVIOUS
<1>2. b * w = a * w + (b - a) * w
  BY <1>1
<1>3. a * w \in Nat /\ (b - a) * w \in Nat
  BY <1>1
<1> QED BY <1>2, <1>3

\* A quotient and a remainder are what division gives.
LEMMA Divided ==
    ASSUME NEW w \in Nat \ {0}, NEW q \in Nat, NEW r \in 0 .. w - 1
    PROVE  (q * w + r) \div w = q /\ (q * w + r) % w = r
OBVIOUS

\* The remainder of what is at most a whole word.
LEMMA Wraps ==
    ASSUME NEW w \in Nat \ {0}, NEW x \in 0 .. w
    PROVE  x % w = IF x = w THEN 0 ELSE x
<1>1. CASE x = w
  <2>1. w = 1 * w + 0 /\ 0 \in 0 .. w - 1 /\ 1 \in Nat
    OBVIOUS
  <2>2. (1 * w + 0) % w = 0
    BY <2>1, Divided
  <2> QED BY <1>1, <2>1, <2>2
<1>2. CASE x # w
  <2>1. x = 0 * w + x /\ x \in 0 .. w - 1 /\ 0 \in Nat
    BY <1>2
  <2>2. (0 * w + x) % w = x
    BY <2>1, Divided
  <2> QED BY <1>2, <2>1, <2>2
<1> QED BY <1>1, <1>2

\* Eight bits more in two words: the second takes the carry, and both come back to 0
\* when there are as many bits as they can count.
LEMMA BitsCounted ==
    ASSUME NEW low \in 0 .. Word - 1, NEW high \in 0 .. Word - 1, NEW n \in Nat,
           low % 8 = 0, high * Word + low = 8 * n
    PROVE  LET l == (low + 8) % Word
               h == IF l = 0 THEN (high + 1) % Word ELSE high
           IN  /\ l \in 0 .. Word - 1 /\ h \in 0 .. Word - 1 /\ l % 8 = 0
               /\ l = 0 /\ h = 0 <=> 8 * (n + 1) >= Word * Word
               /\ ~(l = 0 /\ h = 0) => h * Word + l = 8 * (n + 1)
<1> DEFINE l == (low + 8) % Word
           h == IF l = 0 THEN (high + 1) % Word ELSE high
<1>1. Word \in Nat \ {0} /\ Word % 8 = 0 /\ low \in Nat /\ high \in Nat
  BY Sha1Assumption
<1>2. low + 8 \in 0 .. Word /\ high + 1 \in 0 .. Word /\ (low + 8) % 8 = 0
  BY <1>1
<1>3. l = IF low + 8 = Word THEN 0 ELSE low + 8
  BY <1>1, <1>2, Wraps
<1>4. (high + 1) % Word = IF high + 1 = Word THEN 0 ELSE high + 1
  BY <1>1, <1>2, Wraps
<1>5. (high + 1) * Word = high * Word + Word /\ high * Word \in Nat /\ Word * Word \in Nat
  BY <1>1
<1> HIDE DEF l
<1>6. CASE low + 8 # Word
  <2>1. l = low + 8 /\ l # 0 /\ h = high
    BY <1>1, <1>3, <1>6
  <2>2. (high + 1) * Word <= Word * Word
    BY <1>1, <1>2, TimesKeepsOrder
  <2>3. h * Word + l = 8 * (n + 1)
    BY <1>1, <1>5, <2>1
  <2>4. 8 * (n + 1) < Word * Word
    BY <1>1, <1>2, <1>5, <1>6, <2>1, <2>2, <2>3
  <2> HIDE DEF h
  <2>5. l \in 0 .. Word - 1 /\ h \in 0 .. Word - 1 /\ l % 8 = 0
    BY <1>1, <1>2, <1>6, <2>1
  <2> QED BY <1>5, <2>1, <2>3, <2>4, <2>5 DEF h, l
<1>7. CASE low + 8 = Word
  <2>1. l = 0 /\ h = IF high + 1 = Word THEN 0 ELSE high + 1
    BY <1>3, <1>4, <1>7
  <2>2. 8 * (n + 1) = (high + 1) * Word
    BY <1>1, <1>5, <1>7
  <2> HIDE DEF h
  <2>3. l \in 0 .. Word - 1 /\ h \in 0 .. Word - 1 /\ l % 8 = 0
    BY <1>1, <1>2, <2>1
  <2>4. CASE high + 1 = Word
    <3>1. h = 0 /\ 8 * (n + 1) = Word * Word
      BY <2>1, <2>2, <2>4
    <3> QED BY <1>5, <2>1, <2>3, <3>1 DEF h, l
  <2>5. CASE high + 1 # Word
    <3>1. h = high + 1 /\ h # 0 /\ h * Word + l = 8 * (n + 1)
      BY <1>1, <1>5, <2>1, <2>2, <2>5
    <3>2. (high + 2) * Word <= Word * Word /\ (high + 2) * Word = (high + 1) * Word + Word
      <4>1. high + 2 \in Nat /\ high + 2 <= Word
        BY <1>1, <1>2, <2>5
      <4>2. (high + 2) * Word <= Word * Word
        BY <1>1, <4>1, TimesKeepsOrder
      <4> QED BY <1>1, <4>2
    <3>3. 8 * (n + 1) < Word * Word
      BY <1>1, <1>5, <2>2, <3>2
    <3> QED BY <1>5, <2>1, <2>3, <3>1, <3>3 DEF h, l
  <2> QED BY <2>4, <2>5
<1> QED BY <1>6, <1>7

\* The octets of whole blocks.
Whole(s) == \E q \in Nat : Len(s) = q * BlockSize

\* Writing to a block leaves alone what was processed, and whether the context is
\* corrupted.
LEMMA KeepsHashed ==
    ASSUME NEW c \in Filling
    PROVE  /\ \A o : Put(c, o).hashed = c.hashed /\ Put(c, o).corrupted = c.corrupted
           /\ \A n : ZeroTo(c, n).hashed = c.hashed /\ ZeroTo(c, n).corrupted = c.corrupted
           /\ WithLength(c).hashed = c.hashed /\ WithLength(c).corrupted = c.corrupted
BY DEF Put, ZeroTo, WithLength, Filling

\* A block more.
LEMMA WholeProcessed ==
    ASSUME NEW c \in Filling, Whole(c.hashed)
    PROVE  Whole(ProcessMessageBlock(c).hashed)
<1>1. c.block \in [1 .. BlockSize -> Place] /\ c.hashed \in Seq(Place)
  BY DEF Filling
<1>2. c.block \in Seq(Place) /\ Len(c.block) = BlockSize
  BY <1>1, BlockIsSeq
<1>3. PICK q \in Nat : Len(c.hashed) = q * BlockSize
  BY DEF Whole
<1>4. Len(c.hashed \o c.block) = Len(c.hashed) + BlockSize
  BY <1>1, <1>2, ConcatProperties
<1>5. Len(c.hashed \o c.block) = (q + 1) * BlockSize
  BY <1>3, <1>4, Sha1Assumption
<1>6. ProcessMessageBlock(c).hashed = c.hashed \o c.block
  BY FullProcessed
<1>7. q + 1 \in Nat
  OBVIOUS
<1> QED BY <1>5, <1>6, <1>7, Zenon DEF Whole

\* One round of the loop, field by field.
LEMMA OctetFields ==
    ASSUME NEW c \in Context, NEW o \in Nat, ~c.corrupted, Whole(c.hashed)
    PROVE  LET l == (c.low + 8) % Word
               h == IF l = 0 THEN (c.high + 1) % Word ELSE c.high
               d == InputOctet(c, o)
           IN  /\ d.low = l /\ d.high = h /\ d.computed = c.computed
               /\ d.corrupted = (l = 0 /\ h = 0) /\ Whole(d.hashed)
<1> DEFINE l == (c.low + 8) % Word
           h == IF l = 0 THEN (c.high + 1) % Word ELSE c.high
           p == Put(c, o)
           d == Counted(p)
<1>1. c \in Filling /\ c.index # BlockSize
  BY Sha1Assumption DEF Context, Filling
<1>2. /\ p \in Filling /\ p.low = c.low /\ p.high = c.high /\ p.hashed = c.hashed
      /\ p.corrupted = FALSE /\ p.computed = c.computed
  <2>1. p \in Filling /\ p.low = c.low /\ p.high = c.high /\ p.hashed = c.hashed
    BY <1>1, PutTaken, KeepsHashed
  <2>2. c.corrupted = FALSE
    BY <1>1 DEF Filling
  <2>3. p.corrupted = c.corrupted /\ p.computed = c.computed
    BY <1>1 DEF Put, Filling
  <2> QED BY <2>1, <2>2, <2>3
<1> HIDE DEF p
<1>3. l \in 0 .. Word - 1 /\ h \in 0 .. Word - 1
  <2>1. \A x \in Nat : x % Word \in 0 .. Word - 1
    BY Sha1Assumption
  <2>2. c.low + 8 \in Nat /\ c.high + 1 \in Nat /\ c.high \in 0 .. Word - 1
    BY Sha1Assumption DEF Context
  <2>3. (c.low + 8) % Word \in 0 .. Word - 1 /\ (c.high + 1) % Word \in 0 .. Word - 1
    BY <2>1, <2>2
  <2> QED BY <2>2, <2>3
<1>4. d = [p EXCEPT !.low = l, !.high = h, !.corrupted = @ \/ (l = 0 /\ h = 0)]
  BY <1>2 DEF Counted
<1> HIDE DEF d, l, h
<1>5. /\ d \in Filling /\ d.low = l /\ d.high = h /\ d.computed = c.computed
      /\ d.corrupted = (l = 0 /\ h = 0) /\ d.hashed = c.hashed
  BY <1>2, <1>3, <1>4 DEF Filling
<1>6. InputOctet(c, o) = IF d.index = BlockSize THEN ProcessMessageBlock(d) ELSE d
  BY DEF InputOctet, p, d
<1>7. /\ ProcessMessageBlock(d).low = l /\ ProcessMessageBlock(d).high = h
      /\ ProcessMessageBlock(d).computed = d.computed
      /\ ProcessMessageBlock(d).corrupted = d.corrupted
      /\ Whole(ProcessMessageBlock(d).hashed)
  <2>1. Whole(d.hashed)
    BY <1>5
  <2>2. /\ ProcessMessageBlock(d).computed = d.computed
        /\ ProcessMessageBlock(d).corrupted = d.corrupted
    BY <1>5 DEF ProcessMessageBlock, Filling
  <2> QED BY <1>5, <2>1, <2>2, FullProcessed, WholeProcessed
<1>8. /\ InputOctet(c, o).low = l /\ InputOctet(c, o).high = h
      /\ InputOctet(c, o).computed = c.computed
      /\ InputOctet(c, o).corrupted = (l = 0 /\ h = 0) /\ Whole(InputOctet(c, o).hashed)
  <2>1. CASE d.index = BlockSize
    BY <1>5, <1>6, <1>7, <2>1
  <2>2. CASE d.index # BlockSize
    BY <1>5, <1>6, <2>2
  <2> QED BY <2>1, <2>2
<1> QED BY <1>8 DEF l, h

\* A context that was fed the message m, and has not been asked for the digest: it has
\* taken the octets of m and counted their bits, unless there are too many of them.
Fed(c, m) ==
    /\ c \in Context /\ ~c.computed
    /\ c.corrupted <=> OverLong(m)
    /\ ~c.corrupted =>
          /\ Taken(c) = m /\ Whole(c.hashed)
          /\ c.low % 8 = 0 /\ c.high * Word + c.low = 8 * Len(m)

\* SHA1Reset: no message.
LEMMA ResetFed == Fed(Reset, << >>)
<1>1. Reset \in Context /\ ~Reset.computed /\ ~Reset.corrupted
  BY Sha1Assumption DEF Reset, Context, Place
<1>2. Taken(Reset) = << >>
  <2>1. SubSeq(Reset.block, 1, 0) = << >>
    BY SubSeqEmpty
  <2>2. Reset.hashed = << >> /\ Reset.index = 0
    BY DEF Reset
  <2> QED BY <2>1, <2>2, ConcatEmptySeq DEF Taken
<1>3. Reset.hashed = << >> /\ Reset.low = 0 /\ Reset.high = 0 /\ Len(<< >>) = 0
  BY DEF Reset
<1>4. Whole(Reset.hashed)
  <2>1. 0 = 0 * BlockSize /\ 0 \in Nat
    BY Sha1Assumption
  <2> QED BY <1>3, <2>1 DEF Whole
<1>5. ~OverLong(<< >>)
  <2>1. Word \in Nat \ {0}
    BY Sha1Assumption
  <2>2. Word * Word \in Nat /\ Word * Word > 0
    BY <2>1
  <2>3. 8 * Len(<< >>) = 0
    BY <1>3
  <2>4. ~(8 * Len(<< >>) >= Word * Word)
    BY <2>2, <2>3
  <2> QED BY <2>4, Zenon DEF OverLong
<1>6. 0 * Word + 0 = 8 * 0 /\ 0 % 8 = 0
  BY Sha1Assumption
<1> QED BY <1>1, <1>2, <1>3, <1>4, <1>5, <1>6 DEF Fed

\* One octet more.
LEMMA OctetFed ==
    ASSUME NEW c, NEW m \in Seq(Nat), NEW o \in Nat, Fed(c, m)
    PROVE  Fed(InputOctet(c, o), Append(m, o))
<1> DEFINE d == InputOctet(c, o)
           l == (c.low + 8) % Word
           h == IF l = 0 THEN (c.high + 1) % Word ELSE c.high
           n == Len(m)
<1>1. Len(Append(m, o)) = n + 1 /\ n \in Nat
  BY LenProperties, AppendProperties
<1>2. c \in Context /\ ~c.computed /\ (c.corrupted <=> OverLong(m))
  BY DEF Fed
<1>3. CASE c.corrupted
  <2>1. d = c
    BY <1>3 DEF InputOctet
  <2>2. 8 * n >= Word * Word
    BY <1>2, <1>3 DEF OverLong
  <2>3. OverLong(Append(m, o))
    <3>1. Word * Word \in Nat
      BY Sha1Assumption
    <3> QED BY <1>1, <2>2, <3>1 DEF OverLong
  <2> QED BY <1>2, <1>3, <2>1, <2>3 DEF Fed
<1>4. CASE ~c.corrupted
  <2>1. Taken(c) = m /\ Whole(c.hashed) /\ c.low % 8 = 0 /\ c.high * Word + c.low = 8 * n
    BY <1>4 DEF Fed
  <2>2. d \in Context /\ Taken(d) = Append(m, o)
    BY <1>2, <1>4, <2>1, OctetTaken
  <2>3. /\ d.low = l /\ d.high = h /\ d.computed = c.computed
        /\ d.corrupted = (l = 0 /\ h = 0) /\ Whole(d.hashed)
    BY <1>2, <1>4, <2>1, OctetFields
  <2>4. c.low \in 0 .. Word - 1 /\ c.high \in 0 .. Word - 1
    BY <1>2 DEF Context
  <2>5. /\ l % 8 = 0
        /\ l = 0 /\ h = 0 <=> 8 * (n + 1) >= Word * Word
        /\ ~(l = 0 /\ h = 0) => h * Word + l = 8 * (n + 1)
    BY <1>1, <2>1, <2>4, BitsCounted
  <2> HIDE DEF d, l, h, n
  <2>6. d.corrupted <=> OverLong(Append(m, o))
    BY <1>1, <2>3, <2>5 DEF OverLong
  <2> QED BY <1>1, <1>2, <2>2, <2>3, <2>5, <2>6 DEF Fed, d
<1> QED BY <1>3, <1>4

\* The beginnings of a sequence, one element after the other.
LEMMA Beginnings ==
    ASSUME NEW a \in Seq(Nat)
    PROVE  /\ SubSeq(a, 1, 0) = << >> /\ SubSeq(a, 1, Len(a)) = a
           /\ \A k \in 1 .. Len(a) :
                 /\ SubSeq(a, 1, k - 1) \in Seq(Nat) /\ a[k] \in Nat
                 /\ SubSeq(a, 1, k) = Append(SubSeq(a, 1, k - 1), a[k])
<1>1. SubSeq(a, 1, 0) = << >> /\ SubSeq(a, 1, Len(a)) = a
  BY SubSeqEmpty, SubSeqFull
<1>2. Len(a) \in Nat /\ \A i \in 1 .. Len(a) : a[i] \in Nat
  BY LenProperties, ElementOfSeq
<1>3. ASSUME NEW k \in 1 .. Len(a)
      PROVE  /\ SubSeq(a, 1, k - 1) \in Seq(Nat) /\ a[k] \in Nat
             /\ SubSeq(a, 1, k) = Append(SubSeq(a, 1, k - 1), a[k])
  <2> DEFINE s == SubSeq(a, 1, k - 1)  t == SubSeq(a, 1, k)
  <2>1. k \in Nat /\ k - 1 \in Nat /\ k <= Len(a) /\ a[k] \in Nat
    BY <1>2
  <2>2. s \in Seq(Nat) /\ Len(s) = k - 1 /\ \A i \in 1 .. k - 1 : s[i] = a[i]
    BY <1>2, <2>1, SubSeqProperties
  <2>3. t \in Seq(Nat) /\ Len(t) = k /\ \A i \in 1 .. k : t[i] = a[i]
    BY <1>2, <2>1, SubSeqProperties
  <2> HIDE DEF s, t
  <2>4. /\ Append(s, a[k]) \in Seq(Nat) /\ Len(Append(s, a[k])) = k
        /\ Append(s, a[k])[k] = a[k] /\ \A i \in 1 .. k - 1 : Append(s, a[k])[i] = s[i]
    BY <2>1, <2>2, AppendProperties
  <2>5. ASSUME NEW i \in 1 .. k PROVE t[i] = Append(s, a[k])[i]
    <3>1. CASE i = k
      BY <2>1, <2>3, <2>4, <3>1
    <3>2. CASE i # k
      <4>1. i \in 1 .. k - 1
        BY <2>1, <3>2
      <4> QED BY <2>2, <2>3, <2>4, <4>1
    <3> QED BY <3>1, <3>2
  <2>6. t = Append(s, a[k])
    BY <2>3, <2>4, <2>5, SeqEqual
  <2> QED BY <2>1, <2>2, <2>6 DEF s, t
<1> QED BY <1>1, <1>3

\* Natural numbers are places.
LEMMA NatsJoined ==
    ASSUME NEW m \in Seq(Nat), NEW s \in Seq(Nat), NEW o \in Nat
    PROVE  m \o Append(s, o) = Append(m \o s, o)
<1>1. ASSUME NEW t \in Seq(Nat) PROVE t \in Seq(Place)
  <2>1. Nat \subseteq Place
    BY DEF Place
  <2> QED BY <2>1, SeqMonotonic
<1>2. m \in Seq(Place) /\ s \in Seq(Place) /\ o \in Place
  BY <1>1 DEF Place
<1> QED BY <1>2, ConcatOfAppend

\* SHA1Input takes the message on: a context that was fed m and is given the octets of
\* a, however many they are, was fed both.
THEOREM InputTaken ==
    ASSUME NEW c, NEW m \in Seq(Nat), NEW a \in Seq(Nat), Fed(c, m)
    PROVE  Fed(Input(c, a), m \o a)
<1>1. /\ m \o a \in Seq(Nat) /\ Len(m \o a) = Len(m) + Len(a)
      /\ Len(m) \in Nat /\ Len(a) \in Nat
  BY ConcatProperties, LenProperties
<1>2. c \in Context /\ ~c.computed /\ (c.corrupted <=> OverLong(m))
  BY DEF Fed
<1>3. CASE a = << >>
  <2>1. m \o a = m
    BY <1>3, ConcatEmptySeq
  <2> QED BY <1>3, <2>1 DEF Input
<1>4. CASE a # << >> /\ c.corrupted
  <2>1. Input(c, a) = [c EXCEPT !.corrupted = TRUE]
    BY <1>4 DEF Input
  <2>2. Input(c, a) \in Context /\ ~Input(c, a).computed /\ Input(c, a).corrupted
    BY <1>2, <2>1 DEF Context
  <2>3. OverLong(m \o a)
    <3>1. Word * Word \in Nat
      BY Sha1Assumption
    <3>2. 8 * Len(m) >= Word * Word
      BY <1>2, <1>4 DEF OverLong
    <3> QED BY <1>1, <3>1, <3>2 DEF OverLong
  <2> QED BY <2>2, <2>3 DEF Fed
<1>5. CASE a # << >> /\ ~c.corrupted
  <2>1. PICK g : /\ g[0] = c
                 /\ \A n \in 1 .. Len(a) : g[n] = InputOctet(g[n - 1], a[n])
                 /\ FoldLeft(InputOctet, c, a) = g[Len(a)]
    BY LoopRounds
  <2>2. Input(c, a) = g[Len(a)]
    BY <1>2, <1>5, <2>1 DEF Input
  <2> DEFINE To(k) == m \o SubSeq(a, 1, k)
             T == {k \in 0 .. Len(a) : ~Fed(g[k], To(k))}
  <2>3. To(0) = m
    BY Beginnings, ConcatEmptySeq
  <2>4. ASSUME NEW k \in 1 .. Len(a), Fed(g[k - 1], To(k - 1))
        PROVE  Fed(g[k], To(k))
    <3> DEFINE s == SubSeq(a, 1, k - 1)
    <3>1. s \in Seq(Nat) /\ a[k] \in Nat /\ SubSeq(a, 1, k) = Append(s, a[k])
      BY Beginnings
    <3>2. g[k] = InputOctet(g[k - 1], a[k])
      BY <2>1
    <3> HIDE DEF s
    <3>3. m \o s \in Seq(Nat)
      BY <3>1, ConcatProperties
    <3>4. m \o Append(s, a[k]) = Append(m \o s, a[k])
      BY <3>1, NatsJoined
    <3>5. Fed(g[k - 1], m \o s)
      BY <2>4 DEF s
    <3>6. Fed(InputOctet(g[k - 1], a[k]), Append(m \o s, a[k]))
      BY <3>1, <3>3, <3>5, OctetFed
    <3> QED BY <3>1, <3>2, <3>4, <3>6
  <2> HIDE DEF To
  <2>5. T = {}
    <3> SUFFICES ASSUME T # {} PROVE FALSE
      OBVIOUS
    <3>1. T \in SUBSET Nat
      BY <1>1
    <3>2. PICK k \in T : \A n \in T : k <= n
      BY <3>1, LeastOne
    <3>3. k # 0
      BY <2>1, <2>3, <3>2
    <3>4. k \in 1 .. Len(a) /\ k - 1 \in 0 .. Len(a) /\ ~(k <= k - 1)
      BY <1>1, <3>2, <3>3
    <3>5. Fed(g[k - 1], To(k - 1))
      BY <3>2, <3>4
    <3>6. Fed(g[k], To(k))
      BY <2>4, <3>4, <3>5
    <3> QED BY <3>2, <3>6
  <2>6. Fed(g[Len(a)], To(Len(a)))
    BY <1>1, <2>5
  <2>7. To(Len(a)) = m \o a
    BY Beginnings DEF To
  <2> QED BY <2>2, <2>6, <2>7
<1> QED BY <1>3, <1>4, <1>5

\* The length is two places of the block.
LEMMA LengthPut ==
    ASSUME NEW c \in Filling
    PROVE  WithLength(c) \in Filling
<1> DEFINE b == [[c.block EXCEPT ![Room + 1] = c.high] EXCEPT ![Room + 2] = c.low]
<1>1. c.block \in [1 .. BlockSize -> Place] /\ c.high \in Place /\ c.low \in Place
  BY Sha1Assumption DEF Filling, Place
<1>2. b \in [1 .. BlockSize -> Place]
  BY <1>1
<1>3. WithLength(c) = [c EXCEPT !.block = b]
  BY DEF WithLength, Filling
<1> HIDE DEF b
<1> QED BY <1>2, <1>3 DEF Filling

\* Padding processes whole blocks, and does not make a context corrupted.
LEMMA PaddedWhole ==
    ASSUME NEW c \in Context, Whole(c.hashed)
    PROVE  /\ PadMessage(c) \in Context /\ Whole(PadMessage(c).hashed)
           /\ PadMessage(c).corrupted = c.corrupted
<1> DEFINE p == Put(c, Mark)  n == c.index
<1>1. /\ c \in Filling /\ n \in 0 .. BlockSize - 1 /\ n # BlockSize /\ Mark \in Nat
      /\ Room \in 0 .. BlockSize /\ Room = BlockSize - 2 /\ BlockSize \in 0 .. BlockSize
      /\ BlockSize \in Nat
  BY Sha1Assumption DEF Context, Filling, Room, Mark
<1>2. p \in Filling /\ p.index = n + 1 /\ p.hashed = c.hashed /\ p.corrupted = c.corrupted
  BY <1>1, PutTaken, KeepsHashed
<1>3. Padded(c) = IF n > Room - 1
                  THEN ZeroTo(ProcessMessageBlock(ZeroTo(p, BlockSize)), Room)
                  ELSE ZeroTo(p, Room)
  BY DEF Padded
<1> HIDE DEF p
<1>4. Padded(c) \in Filling /\ Whole(Padded(c).hashed) /\ Padded(c).corrupted = c.corrupted
  <2>1. CASE n > Room - 1
    <3> DEFINE f == ZeroTo(p, BlockSize)  e == ProcessMessageBlock(f)
    <3>1. p.index <= BlockSize
      BY <1>1, <1>2
    <3>2. f \in Filling /\ f.hashed = p.hashed /\ f.corrupted = p.corrupted
      BY <1>1, <1>2, <3>1, ZerosTaken, KeepsHashed
    <3> HIDE DEF f
    <3>3. e \in Filling /\ Whole(e.hashed) /\ e.corrupted = f.corrupted
      <4>1. \A x \in Context : x \in Filling
        BY Sha1Assumption DEF Context, Filling
      <4>2. Whole(f.hashed)
        BY <1>2, <3>2
      <4>3. e.corrupted = f.corrupted
        BY <3>2 DEF ProcessMessageBlock, Filling
      <4>4. Whole(e.hashed)
        BY <3>2, <4>2, WholeProcessed
      <4>5. e \in Context
        BY <3>2, FullProcessed
      <4> QED BY <4>1, <4>3, <4>4, <4>5
    <3>4. Padded(c).hashed = e.hashed /\ Padded(c).corrupted = e.corrupted
      BY <1>3, <2>1, <3>3, KeepsHashed DEF f
    <3> HIDE DEF e
    <3> QED BY <1>2, <3>2, <3>3, <3>4, PaddedTakes
  <2>2. CASE ~(n > Room - 1)
    <3>1. Padded(c).hashed = c.hashed /\ Padded(c).corrupted = c.corrupted
      BY <1>2, <1>3, <2>2, KeepsHashed
    <3> QED BY <3>1, PaddedTakes
  <2> QED BY <2>1, <2>2
<1> DEFINE w == WithLength(Padded(c))
<1>5. w \in Filling /\ Whole(w.hashed) /\ w.corrupted = c.corrupted
  <2>1. w \in Filling /\ w.hashed = Padded(c).hashed /\ w.corrupted = Padded(c).corrupted
    BY <1>4, LengthPut, KeepsHashed
  <2> HIDE DEF w
  <2> QED BY <1>4, <2>1
<1> HIDE DEF w
<1>6. ProcessMessageBlock(w).corrupted = w.corrupted
  BY <1>5 DEF ProcessMessageBlock, Filling
<1>7. ProcessMessageBlock(w) \in Context /\ Whole(ProcessMessageBlock(w).hashed)
  BY <1>5, FullProcessed, WholeProcessed
<1> QED BY <1>5, <1>6, <1>7 DEF PadMessage, w

\* There is one number of zeros below the size of a block that fills the last one.
LEMMA FillIsOnly ==
    ASSUME NEW n \in Nat, NEW k \in 0 .. BlockSize - 1, NEW q \in Nat,
           n + 1 + k + 2 = q * BlockSize
    PROVE  Fill(n) = k
<1>1. BlockSize \in Nat \ {0}
  BY Sha1Assumption
<1>2. (n + 1 + k + 2) % BlockSize = 0
  <2>1. 0 \in 0 .. BlockSize - 1 /\ q * BlockSize \in Nat
    BY <1>1
  <2>2. (q * BlockSize + 0) % BlockSize = 0
    BY <1>1, <2>1, Divided
  <2>3. q * BlockSize + 0 = n + 1 + k + 2
    BY <2>1
  <2> QED BY <2>2, <2>3
<1>3. ASSUME NEW j \in 0 .. BlockSize - 1, (n + 1 + j + 2) % BlockSize = 0
      PROVE  j = k
  <2> DEFINE r == (n + 1 + j + 2) \div BlockSize
  <2>1. r \in Nat /\ n + 1 + j + 2 = r * BlockSize
    <3>1. n + 1 + j + 2 \in Nat
      OBVIOUS
    <3>2. ASSUME NEW x \in Nat, x % BlockSize = 0
          PROVE  x \div BlockSize \in Nat /\ x = (x \div BlockSize) * BlockSize
      BY <1>1, <3>2
    <3> QED BY <1>3, <3>1, <3>2
  <2> HIDE DEF r
  <2>2. r * BlockSize - q * BlockSize = j - k
    BY <1>1, <2>1
  <2>3. CASE r < q
    <3>1. (r + 1) * BlockSize <= q * BlockSize
      BY <1>1, <2>1, <2>3, TimesKeepsOrder
    <3>2. (r + 1) * BlockSize = r * BlockSize + BlockSize
      BY <1>1, <2>1
    <3>3. r * BlockSize \in Nat /\ q * BlockSize \in Nat
      BY <1>1, <2>1
    <3> QED BY <1>1, <2>2, <3>1, <3>2, <3>3
  <2>4. CASE q < r
    <3>1. (q + 1) * BlockSize <= r * BlockSize
      BY <1>1, <2>1, <2>4, TimesKeepsOrder
    <3>2. (q + 1) * BlockSize = q * BlockSize + BlockSize
      BY <1>1
    <3>3. r * BlockSize \in Nat /\ q * BlockSize \in Nat
      BY <1>1, <2>1
    <3> QED BY <1>1, <2>2, <3>1, <3>2, <3>3
  <2>5. CASE r = q
    BY <1>1, <2>1, <2>2, <2>5
  <2> QED BY <2>1, <2>3, <2>4, <2>5
<1> QED BY <1>2, <1>3, Zenon DEF Fill

\* SHA1Result, for a context that was fed a message that is not too long: what has been
\* processed is the message padded as FIPS 180 has it, wherever in a block it ends.
THEOREM DigestOfStandard ==
    ASSUME NEW c, NEW m \in Seq(Nat), Fed(c, m)
    PROVE  /\ Returns(c) <=> ~OverLong(m)
           /\ Returns(c) => Result(c).hashed = Standard(m)
           /\ Returns(Result(c)) <=> Returns(c)
<1>1. c \in Context /\ ~c.computed /\ (c.corrupted <=> OverLong(m))
  BY DEF Fed
<1>2. Returns(c) <=> ~OverLong(m)
  BY <1>1 DEF Returns
<1>3. ASSUME ~c.corrupted PROVE Result(c).hashed = Standard(m)
  <2> DEFINE h == PadMessage(c).hashed  u == Append(m, Mark)  t == <<c.high, c.low>>
             n == Len(m)  bits == 8 * n
  <2>1. /\ Taken(c) = m /\ Whole(c.hashed) /\ c.high * Word + c.low = bits
        /\ c.low \in 0 .. Word - 1 /\ c.high \in 0 .. Word - 1
    BY <1>1, <1>3 DEF Fed, Context
  <2>2. PICK k \in 0 .. BlockSize - 1 : h = (u \o Zeros(k)) \o t
    BY <1>1, <2>1, MessagePadded
  <2>3. Result(c).hashed = h
    <3>1. PadMessage(c) \in Context
      BY <1>1, <2>1, PaddedWhole
    <3>2. Result(c) = [PadMessage(c) EXCEPT !.computed = TRUE]
      BY <1>1, <1>3 DEF Result
    <3> QED BY <3>1, <3>2 DEF Context
  <2>4. /\ m \in Seq(Place) /\ u \in Seq(Place) /\ n \in Nat /\ Len(u) = n + 1 /\ u = m \o <<Mark>>
        /\ <<Mark>> \in Seq(Place)
    <3>1. Nat \subseteq Place /\ Mark \in Place
      BY DEF Place, Mark
    <3>2. m \in Seq(Place)
      BY <3>1, SeqMonotonic
    <3> QED BY <3>1, <3>2, AppendProperties, AppendIsConcat, LenProperties
  <2>5. Zeros(k) \in Seq(Place) /\ Len(Zeros(k)) = k
    BY ZerosAreSeq, Sha1Assumption
  <2>6. t \in Seq(Place) /\ Len(t) = 2
    BY <2>1, Sha1Assumption DEF Place
  <2>7. Fill(n) = k
    <3>1. Len(h) = n + 1 + k + 2
      <4> DEFINE z == Zeros(k)
      <4>1. z \in Seq(Place) /\ Len(z) = k /\ h = (u \o z) \o t
        BY <2>2, <2>5
      <4> HIDE DEF h, u, t, z, n
      <4>2. u \o z \in Seq(Place) /\ Len(u \o z) = Len(u) + Len(z)
        BY <2>4, <4>1, ConcatProperties
      <4>3. Len((u \o z) \o t) = Len(u \o z) + Len(t)
        BY <2>6, <4>2, ConcatProperties
      <4> QED BY <2>4, <2>6, <4>1, <4>2, <4>3
    <3>2. PICK q \in Nat : Len(h) = q * BlockSize
      BY <1>1, <2>1, PaddedWhole DEF Whole
    <3> QED BY <2>4, <3>1, <3>2, FillIsOnly
  <2>8. bits \div Word = c.high /\ bits % Word = c.low
    <3>1. Word \in Nat \ {0} /\ c.high \in Nat
      BY <2>1, Sha1Assumption
    <3>2. /\ (c.high * Word + c.low) \div Word = c.high
          /\ (c.high * Word + c.low) % Word = c.low
      BY <2>1, <3>1, Divided
    <3> QED BY <2>1, <3>2
  <2>9. Standard(m) = m \o <<Mark>> \o Zeros(Fill(n)) \o <<bits \div Word, bits % Word>>
    BY DEF Standard
  <2> QED BY <2>2, <2>3, <2>4, <2>7, <2>8, <2>9
<1>4. Result(c).corrupted = c.corrupted
  <2>1. CASE c.corrupted
    BY <2>1 DEF Result
  <2>2. CASE ~c.corrupted
    <3>1. Result(c) = [PadMessage(c) EXCEPT !.computed = TRUE]
      BY <1>1, <2>2 DEF Result
    <3>2. PadMessage(c) \in Context /\ PadMessage(c).corrupted = c.corrupted
      <4>1. Whole(c.hashed)
        BY <2>2 DEF Fed
      <4> QED BY <1>1, <4>1, PaddedWhole
    <3> QED BY <3>1, <3>2 DEF Context
  <2> QED BY <2>1, <2>2
<1> QED BY <1>1, <1>2, <1>3, <1>4 DEF Returns
=============================================================================

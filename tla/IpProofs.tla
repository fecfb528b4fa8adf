------------------------------ MODULE IpProofs ------------------------------
(***************************************************************************)
(* Proofs about cksum and about IpRouter: what the router sends has a      *)
(* header checksum its receiver accepts, and answers come home, in every   *)
(* network.                                                                *)
(***************************************************************************)
EXTENDS IpRouter, SequenceTheorems, WellFoundedInduction, TLAPS

-----------------------------------------------------------------------------
(* The carries of cksum.                                                   *)

\* The order that the least element below is the least of.
LEMMA LessOnNat == \A x, y \in Nat : <<x, y>> \in OpToRel(<, Nat) <=> x < y
BY Zenon DEF OpToRel

\* A set of numbers has a least one.
LEMMA LeastNumber ==
    ASSUME NEW T \in SUBSET Nat, T # {}
    PROVE  \E n \in T : \A m \in T : n <= m
<1>1. PICK n \in T : \A m \in T : ~(<<m, n>> \in OpToRel(<, Nat))
  BY NatLessThanWellFounded, WFMin, Zenon
<1>2. \A m \in T : ~(m < n)
  BY <1>1, LessOnNat, Zenon
<1> QED BY <1>2

\* A word, as the inequalities it stands for.
LEMMA WordBounds == \A w : w \in Words <=> w \in Int /\ 0 <= w /\ w <= Ones
<1> USE DEF Words
<1>1. Ones \in Int
  BY DEF Ones
<1> QED BY <1>1

\* The sum with its carries added, in closed form: the remainder by 65535, except
\* that only 0 gives 0.
Rest(s) == IF s = 0 THEN 0 ELSE ((s - 1) % Ones) + 1

\* A small sum has no carries.
LEMMA RestOfSmall == \A s \in Nat : s <= Ones => Rest(s) = s
BY DEF Rest, Ones

\* One round of the loop of cksum.
Folded(s) == (s \div (Ones + 1)) + (s % (Ones + 1))

\* It makes the sum smaller and keeps the remainder.
LEMMA RestRound ==
    ASSUME NEW s \in Nat, s > Ones
    PROVE  Folded(s) \in Nat /\ Folded(s) < s /\ Rest(Folded(s)) = Rest(s)
<1>1. PICK q \in Nat, d \in Nat : q = s \div 65536 /\ d = s % 65536 /\ s = 65536 * q + d /\ d <= 65535
  OBVIOUS
<1>2. Folded(s) = q + d
  BY <1>1 DEF Folded, Ones
<1>3. s > 65535
  BY DEF Ones
<1>4. q > 0
  BY <1>1, <1>3
<1>5. q + d < s /\ q + d > 0 /\ q + d = s - 65535 * q
  BY <1>1, <1>4
<1>6. (q + d - 1) % 65535 = (s - 1) % 65535
  BY <1>5
<1> QED BY <1>2, <1>3, <1>5, <1>6 DEF Rest, Ones

\* What the loop computes.
LEMMA CarriedIs == \A s \in Nat : Carried[s] = Rest(s)
<1> DEFINE g == [s \in Nat |-> Rest(s)]
<1>1. \A s \in Nat : s <= Ones => Rest(s) = s
  BY RestOfSmall
<1>2. g = [s \in Nat |-> IF s <= Ones THEN s ELSE g[Folded(s)]]
  <2>1. \A s \in Nat : Rest(s) = IF s <= Ones THEN s ELSE g[Folded(s)]
    <3> SUFFICES ASSUME NEW s \in Nat, ~(s <= Ones) PROVE Rest(s) = g[Folded(s)]
      BY <1>1
    <3>1. s > Ones
      BY DEF Ones
    <3> QED BY <3>1, RestRound
  <2> QED BY <2>1
<1>3. Carried = [s \in Nat |-> IF s <= Ones THEN s ELSE Carried[Folded(s)]]
  <2> HIDE DEF g
  <2> QED BY <1>2 DEF Carried, Folded
<1> DEFINE T == {s \in Nat : Carried[s] # Rest(s)}
<1>4. T = {}
  <2>1. SUFFICES ASSUME T # {} PROVE FALSE
    OBVIOUS
  <2>2. PICK n \in T : \A m \in T : n <= m
    BY <2>1, LeastNumber
  <2>3. n \in Nat /\ Carried[n] # Rest(n)
    OBVIOUS
  <2>4. ~(n <= Ones)
    BY <1>1, <1>3, <2>3
  <2>5. Carried[n] = Carried[Folded(n)]
    BY <1>3, <2>3, <2>4
  <2>6. Folded(n) \in Nat /\ Folded(n) < n /\ Rest(Folded(n)) = Rest(n)
    BY <2>3, <2>4, RestRound DEF Ones
  <2>7. Folded(n) \notin T
    BY <2>2, <2>3, <2>6
  <2> QED BY <2>3, <2>5, <2>6, <2>7
<1> QED BY <1>4

-----------------------------------------------------------------------------
(* The sum that cksum takes before it adds the carries.                    *)

\* The data of at most n words, and what it is for f to add up the words of such data.
UpTo(n) == {w \in Seq(Words) : Len(w) <= n}

SumsUpTo(f, n) ==
    /\ f \in [UpTo(n) -> Nat]
    /\ \A w \in UpTo(n) : f[w] = IF w = << >> THEN 0 ELSE Head(w) + f[Tail(w)]

\* What is left of the data is shorter.
LEMMA TailShorter ==
    ASSUME NEW w \in Seq(Words), w # << >>
    PROVE  Head(w) \in Nat /\ Tail(w) \in Seq(Words) /\ Len(Tail(w)) = Len(w) - 1 /\ Len(w) \in Nat \ {0}
<1>1. Head(w) \in Words /\ Tail(w) \in Seq(Words) /\ Len(Tail(w)) = Len(w) - 1
  BY HeadTailProperties, Zenon
<1>2. Len(w) \in Nat \ {0}
  BY EmptySeq, LenProperties
<1> QED BY <1>1, <1>2, WordBounds

\* A function that adds up exists for each length.
LEMMA SumExists == \A n \in Nat : \E f : SumsUpTo(f, n)
<1> DEFINE T == {n \in Nat : ~ \E f : SumsUpTo(f, n)}
<1> SUFFICES ASSUME T # {} PROVE FALSE
  OBVIOUS
<1>1. PICK n \in T : \A m \in T : n <= m
  BY LeastNumber
<1>2. n # 0
  <2> SUFFICES SumsUpTo([w \in UpTo(0) |-> 0], 0)
    OBVIOUS
  <2>1. \A w \in UpTo(0) : w = << >>
    BY EmptySeq DEF UpTo
  <2> QED BY <2>1 DEF SumsUpTo
<1>3. n - 1 \in Nat /\ n - 1 \notin T
  BY <1>1, <1>2
<1>4. PICK f : SumsUpTo(f, n - 1)
  BY <1>3
<1> DEFINE h == [w \in UpTo(n) |-> IF w = << >> THEN 0 ELSE Head(w) + f[Tail(w)]]
<1>5. \A w \in UpTo(n) : w # << >> => Head(w) \in Nat /\ Tail(w) \in UpTo(n - 1) /\ Tail(w) \in UpTo(n)
  BY TailShorter DEF UpTo
<1>6. h \in [UpTo(n) -> Nat]
  BY <1>4, <1>5 DEF SumsUpTo
<1>7. ASSUME NEW w \in UpTo(n), w # << >> PROVE h[w] = Head(w) + h[Tail(w)]
  <2>1. h[Tail(w)] = f[Tail(w)]
    BY <1>4, <1>5, <1>7 DEF SumsUpTo
  <2> QED BY <2>1, <1>7
<1>8. \A w \in UpTo(n) : w = << >> => h[w] = 0
  OBVIOUS
<1>9. SumsUpTo(h, n)
  <2> HIDE DEF h
  <2> QED BY <1>6, <1>7, <1>8 DEF SumsUpTo
<1> QED BY <1>9

\* Two such functions agree.
LEMMA SumsAgree ==
    ASSUME NEW n \in Nat, NEW m \in Nat, NEW f, NEW h, SumsUpTo(f, n), SumsUpTo(h, m),
           NEW w \in UpTo(n) \cap UpTo(m)
    PROVE  f[w] = h[w]
<1> DEFINE T == {k \in Nat : \E v \in UpTo(n) \cap UpTo(m) : Len(v) = k /\ f[v] # h[v]}
<1>1. T = {}
  <2> SUFFICES ASSUME T # {} PROVE FALSE
    OBVIOUS
  <2>1. PICK k \in T : \A j \in T : k <= j
    BY LeastNumber
  <2>2. PICK v \in UpTo(n) \cap UpTo(m) : Len(v) = k /\ f[v] # h[v]
    OBVIOUS
  <2>3. v # << >>
    BY <2>2 DEF SumsUpTo
  <2>4. Tail(v) \in UpTo(n) \cap UpTo(m) /\ Len(Tail(v)) = k - 1 /\ k - 1 \in Nat
    BY <2>2, <2>3, TailShorter DEF UpTo
  <2>5. k - 1 \notin T
    BY <2>1, <2>4
  <2>6. f[Tail(v)] = h[Tail(v)]
    BY <2>4, <2>5
  <2> QED BY <2>2, <2>3, <2>6 DEF SumsUpTo
<1>2. w \in Seq(Words) /\ Len(w) \in Nat
  BY LenProperties DEF UpTo
<1> QED BY <1>1, <1>2

\* WordSum is what its definition says: the recursion has a solution.
LEMMA WordSumIs ==
    /\ \A w \in Seq(Words) : WordSum[w] = IF w = << >> THEN 0 ELSE Head(w) + WordSum[Tail(w)]
    /\ \A w \in Seq(Words) : WordSum[w] \in Nat
<1> DEFINE Some(n) == CHOOSE f : SumsUpTo(f, n)
           g == [w \in Seq(Words) |-> Some(Len(w))[w]]
<1>1. \A n \in Nat : SumsUpTo(Some(n), n)
  BY SumExists
<1> HIDE DEF Some
<1>2. ASSUME NEW w \in Seq(Words) PROVE w \in UpTo(Len(w)) /\ Len(w) \in Nat
  BY LenProperties DEF UpTo
<1>3. ASSUME NEW w \in Seq(Words) PROVE g[w] = IF w = << >> THEN 0 ELSE Head(w) + g[Tail(w)]
  <2>1. g[w] = IF w = << >> THEN 0 ELSE Head(w) + Some(Len(w))[Tail(w)]
    BY <1>1, <1>2 DEF SumsUpTo
  <2>2. CASE w # << >>
    <3>1. Tail(w) \in Seq(Words) /\ Len(Tail(w)) = Len(w) - 1 /\ Len(w) - 1 \in Nat
      BY <2>2, TailShorter
    <3>2. Tail(w) \in UpTo(Len(w)) \cap UpTo(Len(Tail(w)))
      BY <1>2, <3>1 DEF UpTo
    <3>3. SumsUpTo(Some(Len(w)), Len(w)) /\ SumsUpTo(Some(Len(Tail(w))), Len(Tail(w)))
      BY <1>1, <1>2, <3>1
    <3>4. Some(Len(w))[Tail(w)] = Some(Len(Tail(w)))[Tail(w)]
      BY <1>2, <3>1, <3>2, <3>3, SumsAgree
    <3> QED BY <2>1, <2>2, <3>1, <3>4
  <2> QED BY <2>1, <2>2
<1>4. \A w \in Seq(Words) : g[w] \in Nat
  BY <1>1, <1>2 DEF SumsUpTo
<1>5. g = [w \in Seq(Words) |-> IF w = << >> THEN 0 ELSE Head(w) + g[Tail(w)]]
  <2>1. g = [w \in Seq(Words) |-> g[w]]
    OBVIOUS
  <2> QED BY <1>3, <2>1, Zenon
<1> HIDE DEF g
<1>6. WordSum = [w \in Seq(Words) |-> IF w = << >> THEN 0 ELSE Head(w) + WordSum[Tail(w)]]
  BY <1>5, Zenon DEF WordSum
<1>7. \A w \in Seq(Words) : WordSum[w] = IF w = << >> THEN 0 ELSE Head(w) + WordSum[Tail(w)]
  BY <1>6, Zenon
<1> DEFINE T == {k \in Nat : \E v \in Seq(Words) : Len(v) = k /\ WordSum[v] \notin Nat}
<1>8. T = {}
  <2> SUFFICES ASSUME T # {} PROVE FALSE
    OBVIOUS
  <2>1. PICK k \in T : \A j \in T : k <= j
    BY LeastNumber
  <2>2. PICK v \in Seq(Words) : Len(v) = k /\ WordSum[v] \notin Nat
    OBVIOUS
  <2>3. v # << >>
    BY <1>7, <2>2
  <2>4. Head(v) \in Nat /\ Tail(v) \in Seq(Words) /\ Len(Tail(v)) = k - 1 /\ k - 1 \in Nat
    BY <2>2, <2>3, TailShorter
  <2>5. k - 1 \notin T
    BY <2>1, <2>4
  <2>6. WordSum[Tail(v)] \in Nat
    BY <2>4, <2>5
  <2> QED BY <1>7, <2>2, <2>3, <2>4, <2>6
<1> QED BY <1>2, <1>7, <1>8

\* A word at the end adds to the sum what it adds at the front.
LEMMA WordSumAppend ==
    ASSUME NEW c \in Words
    PROVE  \A w \in Seq(Words) : WordSum[Append(w, c)] = WordSum[w] + c
<1> DEFINE T == {k \in Nat : \E v \in Seq(Words) : Len(v) = k /\ WordSum[Append(v, c)] # WordSum[v] + c}
<1>1. T = {}
  <2> SUFFICES ASSUME T # {} PROVE FALSE
    OBVIOUS
  <2>1. PICK k \in T : \A j \in T : k <= j
    BY LeastNumber
  <2>2. PICK v \in Seq(Words) : Len(v) = k /\ WordSum[Append(v, c)] # WordSum[v] + c
    OBVIOUS
  <2>3. /\ Append(v, c) \in Seq(Words) /\ Append(v, c) # << >>
        /\ Head(Append(v, c)) = IF v = << >> THEN c ELSE Head(v)
        /\ Tail(Append(v, c)) = IF v = << >> THEN << >> ELSE Append(Tail(v), c)
    BY AppendProperties, HeadTailAppend, ZenonT(40)
  <2>4. WordSum[Append(v, c)] = Head(Append(v, c)) + WordSum[Tail(Append(v, c))]
    BY <2>3, WordSumIs
  <2>5. c \in Nat
    BY WordBounds
  <2>6. CASE v = << >>
    <3>1. WordSum[Append(v, c)] = c + WordSum[<< >>]
      BY <2>3, <2>4, <2>6
    <3>2. WordSum[<< >>] = 0
      BY <2>6, WordSumIs
    <3> QED BY <2>2, <2>5, <2>6, <3>1, <3>2
  <2>7. CASE v # << >>
    <3>1. Head(v) \in Nat /\ Tail(v) \in Seq(Words) /\ Len(Tail(v)) = k - 1 /\ k - 1 \in Nat
      BY <2>2, <2>7, TailShorter
    <3>2. k - 1 \notin T
      BY <2>1, <3>1
    <3>3. WordSum[Append(Tail(v), c)] = WordSum[Tail(v)] + c
      BY <3>1, <3>2
    <3>4. WordSum[Append(v, c)] = Head(v) + (WordSum[Tail(v)] + c)
      BY <2>3, <2>4, <2>7, <3>3
    <3>5. WordSum[v] = Head(v) + WordSum[Tail(v)]
      BY <2>7, WordSumIs
    <3>6. WordSum[Tail(v)] \in Nat
      BY <3>1, WordSumIs
    <3> QED BY <2>2, <2>5, <3>1, <3>4, <3>5, <3>6
  <2> QED BY <2>6, <2>7
<1> QED BY <1>1, LenProperties

\* The complement of the carried sum fills the sum up to a multiple of 65535.
LEMMA ComplementFills ==
    ASSUME NEW s \in Nat
    PROVE  /\ Carried[s] \in Words
           /\ Complement[Carried[s]] \in Words
           /\ s + Complement[Carried[s]] > 0
           /\ (s + Complement[Carried[s]]) % Ones = 0
<1>1. Carried[s] = Rest(s)
  BY CarriedIs
<1>2. PICK q \in Int, d \in Nat : d = (s - 1) % 65535 /\ s - 1 = 65535 * q + d /\ d <= 65534
  <2> DEFINE Divides(a) == \E q \in Int, d \in Nat : d = a % 65535 /\ a = 65535 * q + d /\ d <= 65534
  <2>1. s - 1 \in Int
    OBVIOUS
  <2>2. ASSUME NEW a \in Int PROVE Divides(a)
    OBVIOUS
  <2>3. Divides(s - 1)
    <3> HIDE DEF Divides
    <3> QED BY <2>1, <2>2, Zenon
  <2> QED BY <2>3
<1>3. Rest(s) \in Int /\ 0 <= Rest(s) /\ Rest(s) <= 65535 /\ (s > 0 => Rest(s) = d + 1)
  BY <1>2 DEF Rest, Ones
<1>4. Carried[s] \in Words
  BY <1>1, <1>3, WordBounds DEF Ones
<1> DEFINE c == Complement[Carried[s]]
<1>5. c = IF Rest(s) = 65535 THEN 65535 ELSE 65535 - Rest(s)
  BY <1>1, <1>4 DEF Complement, Ones
<1> HIDE DEF c
<1>6. c \in Int /\ 0 <= c /\ c <= 65535
  BY <1>3, <1>5
<1>7. c \in Words
  BY <1>6, WordBounds DEF Ones
<1>8. s + c > 0
  BY <1>3, <1>5, <1>6 DEF Rest
<1>9. (s + c) % 65535 = 0
  <2>1. CASE s = 0
    <3>1. c = 65535
      BY <1>5, <2>1 DEF Rest
    <3> QED BY <2>1, <3>1
  <2>2. CASE s > 0
    <3>1. Rest(s) = d + 1
      BY <1>3, <2>2
    <3>2. CASE d + 1 = 65535
      <4>1. s + c = 65535 * (q + 2)
        BY <1>2, <1>5, <3>1, <3>2
      <4> QED BY <4>1
    <3>3. CASE d + 1 # 65535
      <4>1. s + c = 65535 * (q + 1)
        BY <1>2, <1>5, <3>1, <3>3
      <4> QED BY <4>1
    <3> QED BY <3>2, <3>3
  <2> QED BY <2>1, <2>2
<1> QED BY <1>4, <1>7, <1>8, <1>9 DEF c, Ones

\* Whatever data cksum is given, the receiver's test accepts the data with the
\* checksum it returns: header or message, of any length, all zero or all ones.
THEOREM ChecksumsAccepted ==
    \A words \in Seq(Words) : Cksum(words) \in Words /\ AddsUp(words \o <<Cksum(words)>>)
<1> SUFFICES ASSUME NEW words \in Seq(Words)
             PROVE  Cksum(words) \in Words /\ AddsUp(words \o <<Cksum(words)>>)
  OBVIOUS
<1> DEFINE s == WordSum[words]
           c == Cksum(words)
<1>1. s \in Nat
  BY WordSumIs
<1>2. c \in Words /\ s + c > 0 /\ (s + c) % Ones = 0
  BY <1>1, ComplementFills DEF Cksum
<1>3. WordSum[words \o <<c>>] = s + c
  <2> HIDE DEF c
  <2>1. words \o <<c>> = Append(words, c)
    BY <1>2, AppendIsConcat, Zenon
  <2>2. WordSum[Append(words, c)] = WordSum[words] + c
    BY <1>2, WordSumAppend
  <2> QED BY <2>1, <2>2
<1> QED BY <1>2, <1>3 DEF AddsUp

-----------------------------------------------------------------------------
(* What routers and hosts make of a frame, field by field.                 *)

\* An octet, as the inequalities it stands for.
LEMMA OctetBounds == \A n : n \in Octets <=> n \in Int /\ 0 <= n /\ n <= 255
<1>1. \A m \in Int : \A n : n \in 0 .. m <=> n \in Int /\ 0 <= n /\ n <= m
  OBVIOUS
<1>2. 255 \in Int
  OBVIOUS
<1> QED BY <1>1, <1>2, Zenon DEF Octets

\* One hop less to live: of 0 it makes 255.
LEMMA TtlBelowIs ==
    \A t \in Octets : TtlBelow(t) \in Octets /\ (t > 0 => TtlBelow(t) = t - 1)
<1> SUFFICES ASSUME NEW t \in Octets
             PROVE  TtlBelow(t) \in Octets /\ (t > 0 => TtlBelow(t) = t - 1)
  OBVIOUS
<1>1. t \in Int /\ 0 <= t /\ t <= 255
  BY OctetBounds
<1>2. TtlBelow(t) \in Int /\ 0 <= TtlBelow(t) /\ TtlBelow(t) <= 255
  BY <1>1 DEF TtlBelow
<1>3. t > 0 => TtlBelow(t) = t - 1
  BY <1>1 DEF TtlBelow
<1> QED BY <1>2, <1>3, OctetBounds

\* The checksum by the standard is a word too.
LEMMA StandardCksumIsWord == \A w \in Seq(Words) : StandardCksum(w) \in Words
<1> SUFFICES ASSUME NEW w \in Seq(Words) PROVE StandardCksum(w) \in Words
  OBVIOUS
<1> DEFINE c == Carried[WordSum[w]]
<1>1. c \in Words
  BY WordSumIs, ComplementFills
<1> HIDE DEF c
<1>2. Ones \in Int /\ c \in Int /\ 0 <= c /\ c <= Ones
  BY <1>1, WordBounds DEF Ones
<1>3. Ones - c \in Int /\ 0 <= Ones - c /\ Ones - c <= Ones
  BY <1>2
<1> QED BY <1>3, WordBounds DEF StandardCksum, c

\* The first two words that are summed of a header.
LEMMA FirstWords ==
    ASSUME NEW f, f.ttl \in Octets
    PROVE  17664 \in Words /\ 256 * f.ttl + Protocol(f.kind) \in Words
<1> DEFINE w == 256 * f.ttl + Protocol(f.kind)
<1>1. Protocol(f.kind) \in Int /\ 0 <= Protocol(f.kind) /\ Protocol(f.kind) <= 17
  BY DEF Protocol
<1>2. f.ttl \in Int /\ 0 <= f.ttl /\ f.ttl <= 255
  BY OctetBounds
<1>3. w \in Int /\ 0 <= w /\ w <= Ones
  BY <1>1, <1>2 DEF Ones
<1>4. 17664 \in Int /\ 0 <= 17664 /\ 17664 <= Ones
  BY DEF Ones
<1> HIDE DEF w
<1>5. w \in Words
  BY <1>3, WordBounds
<1>6. 17664 \in Words
  BY <1>4, WordBounds
<1> QED BY <1>5, <1>6 DEF w

USE NetworkAssumption

\* What is summed of a header is words.
LEMMA HeaderIsWords ==
    ASSUME NEW f, f.ttl \in Octets, f.src \in Addresses, f.dst \in Addresses
    PROVE  HeaderWords(f) \in Seq(Words)
<1>1. 17664 \in Words /\ 256 * f.ttl + Protocol(f.kind) \in Words
  BY FirstWords
<1>2. Number[f.src] \in Words /\ Number[f.dst] \in Words
  OBVIOUS
<1> QED BY <1>1, <1>2 DEF HeaderWords

\* Sealing a frame changes its checksum only, and makes it right.
LEMMA SealedFrame ==
    ASSUME NEW f \in Frame
    PROVE  /\ Sealed(f) \in Frame /\ Undamaged(Sealed(f))
           /\ Sealed(f).from = f.from /\ Sealed(f).at = f.at
           /\ Sealed(f).src = f.src /\ Sealed(f).dst = f.dst
           /\ Sealed(f).ttl = f.ttl /\ Sealed(f).kind = f.kind
<1> DEFINE c == Cksum(HeaderWords(f))
<1>1. HeaderWords(f) \in Seq(Words)
  BY HeaderIsWords DEF Frame
<1>2. c \in Words
  BY <1>1, ChecksumsAccepted
<1> HIDE DEF c
<1> DEFINE g == [f EXCEPT !.sum = c]
<1>3. /\ g \in Frame /\ g.sum = c
      /\ g.from = f.from /\ g.at = f.at /\ g.src = f.src /\ g.dst = f.dst
      /\ g.ttl = f.ttl /\ g.kind = f.kind
  BY <1>2 DEF Frame
<1>4. g = Sealed(f)
  BY DEF Sealed, c
<1> HIDE DEF g
<1>5. HeaderWords(g) = HeaderWords(f)
  BY <1>3 DEF HeaderWords
<1> QED BY <1>3, <1>4, <1>5 DEF Undamaged, c

\* A link leads both ways, between a host or router and another.
LEMMA Neighbours ==
    ASSUME NEW m, NEW n, <<m, n>> \in Links
    PROVE  /\ <<n, m>> \in Links
           /\ m \in Hosts \cup Routers /\ n \in Hosts \cup Routers
           /\ m # n
           /\ m \in Routers => <<m, n>> \in Addresses
BY DEF Addresses

\* The words of type and code, and what else of a message is fixed.
LEMMA FixedWords == 0 \in Words /\ \A kind : <<TypeCode(kind)>> \in Seq(Words)
<1>1. 0 \in Words
  BY WordBounds DEF Ones
<1>2. ASSUME NEW kind PROVE TypeCode(kind) \in Words
  <2>1. TypeCode(kind) \in Int /\ 0 <= TypeCode(kind) /\ TypeCode(kind) <= 65535
    BY DEF TypeCode
  <2> QED BY <2>1, WordBounds DEF Ones
<1> QED BY <1>1, <1>2

\* An echo reply goes back to where the request came from.
LEMMA EchoReplyFrame ==
    ASSUME NEW f \in Frame, <<f.from, f.at>> \in Links, f.at \in Routers
    PROVE  LET g == EchoReply(f) IN
           /\ g \in Frame /\ Undamaged(g)
           /\ g.from = f.at /\ g.at = f.from /\ g.src = <<f.at, f.from>> /\ g.dst = f.src
           /\ g.ttl = f.ttl /\ g.kind = "reply"
<1> DEFINE c == Cksum(<<TypeCode("reply")>>)
           h == [f EXCEPT !.from = f.at, !.at = f.from, !.dst = f.src, !.src = AddressOf(f),
                          !.kind = "reply", !.icmp = c]
<1>1. <<TypeCode("reply")>> \in Seq(Words)
  BY FixedWords
<1>2. c \in Words
  BY <1>1, ChecksumsAccepted
<1> HIDE DEF c
<1>3. AddressOf(f) \in Addresses /\ "reply" \in Kinds
  BY Neighbours DEF AddressOf, Kinds, ICMP
<1>4. /\ h \in Frame
      /\ h.from = f.at /\ h.at = f.from /\ h.src = AddressOf(f) /\ h.dst = f.src
      /\ h.ttl = f.ttl /\ h.kind = "reply"
  BY <1>2, <1>3 DEF Frame
<1>5. EchoReply(f) = Sealed(h)
  BY DEF EchoReply, c
<1> HIDE DEF h
<1> QED BY <1>4, <1>5, SealedFrame DEF AddressOf

\* An error goes back to where the packet came from, under the address of the
\* interface it came in on.
LEMMA ErrorFrame ==
    ASSUME NEW f \in Frame, <<f.from, f.at>> \in Links, f.at \in Routers,
           NEW kind \in ICMP, NEW ttl \in Octets
    PROVE  LET g == Error(f, kind, ttl) IN
           /\ g \in Frame /\ Undamaged(g)
           /\ g.from = f.at /\ g.at = f.from /\ g.src = <<f.at, f.from>> /\ g.dst = f.src
           /\ g.ttl = ttl /\ g.kind = kind
<1> DEFINE c == Cksum(<<TypeCode(kind)>> \o Quoted(f))
           h == [from |-> f.at, at |-> f.from, src |-> AddressOf(f), dst |-> f.src, ttl |-> ttl,
                 kind |-> kind, len |-> f.len, body |-> Quoted(f), sum |-> 0, icmp |-> c]
<1>1. Quoted(f) \in Seq(Words)
  <2>1. HeaderWords(f) \in Seq(Words) /\ <<f.sum>> \in Seq(Words)
    BY HeaderIsWords DEF Frame
  <2> QED BY <2>1, ConcatProperties, Zenon DEF Quoted
<1>2. <<TypeCode(kind)>> \in Seq(Words)
  BY FixedWords
<1>3. <<TypeCode(kind)>> \o Quoted(f) \in Seq(Words)
  BY <1>1, <1>2, ConcatProperties, Zenon
<1>4. c \in Words
  BY <1>3, ChecksumsAccepted
<1> HIDE DEF c
<1>5. AddressOf(f) \in Addresses /\ kind \in Kinds /\ 0 \in Words
  BY Neighbours, FixedWords DEF AddressOf, Kinds
<1>6. /\ h \in Frame
      /\ h.from = f.at /\ h.at = f.from /\ h.src = AddressOf(f) /\ h.dst = f.src
      /\ h.ttl = ttl /\ h.kind = kind
  BY <1>1, <1>4, <1>5 DEF Frame
<1>7. Error(f, kind, ttl) = Sealed(h)
  BY DEF Error, ErrorFrom, c
<1> HIDE DEF h
<1> QED BY <1>6, <1>7, SealedFrame DEF AddressOf

\* A packet passed on keeps its addresses.
Passed(f, n) == Sealed([f EXCEPT !.from = f.at, !.at = n, !.ttl = TtlBelow(f.ttl)])

LEMMA PassedFrame ==
    ASSUME NEW f \in Frame, f.at \in Routers, NEW n, <<f.at, n>> \in Links
    PROVE  LET g == Passed(f, n) IN
           /\ g \in Frame /\ Undamaged(g)
           /\ g.from = f.at /\ g.at = n /\ g.src = f.src /\ g.dst = f.dst
           /\ g.ttl = TtlBelow(f.ttl) /\ g.kind = f.kind
<1> DEFINE h == [f EXCEPT !.from = f.at, !.at = n, !.ttl = TtlBelow(f.ttl)]
<1>1. TtlBelow(f.ttl) \in Octets
  BY TtlBelowIs DEF Frame
<1>2. n \in Hosts \cup Routers
  BY Neighbours
<1>3. /\ h \in Frame
      /\ h.from = f.at /\ h.at = n /\ h.src = f.src /\ h.dst = f.dst
      /\ h.ttl = TtlBelow(f.ttl) /\ h.kind = f.kind
  BY <1>1, <1>2 DEF Frame
<1>4. Passed(f, n) = Sealed(h)
  BY DEF Passed
<1> HIDE DEF h
<1> QED BY <1>3, <1>4, SealedFrame

\* What a host sends of its own has a frame's fields.
LEMMA ByHostFrame ==
    ASSUME NEW f \in Frame
    PROVE  LET g == ByHost(f) IN
           /\ g \in Frame
           /\ g.from = f.from /\ g.at = f.at /\ g.src = f.src /\ g.dst = f.dst
           /\ g.ttl = f.ttl /\ g.kind = f.kind
<1> DEFINE c == StandardCksum(HeaderWords(f))
           d == StandardCksum(<<TypeCode(f.kind)>> \o f.body)
<1>1. <<TypeCode(f.kind)>> \in Seq(Words) /\ f.body \in Seq(Words)
  BY FixedWords DEF Frame
<1>2. <<TypeCode(f.kind)>> \o f.body \in Seq(Words)
  BY <1>1, ConcatProperties, Zenon
<1>3. HeaderWords(f) \in Seq(Words)
  BY HeaderIsWords DEF Frame
<1>4. c \in Words /\ d \in Words
  BY <1>2, <1>3, StandardCksumIsWord
<1> HIDE DEF c, d
<1> DEFINE h == [f EXCEPT !.sum = c, !.icmp = d]
<1>5. /\ h \in Frame
      /\ h.from = f.from /\ h.at = f.at /\ h.src = f.src /\ h.dst = f.dst
      /\ h.ttl = f.ttl /\ h.kind = f.kind
  BY <1>4 DEF Frame
<1>6. ByHost(f) = h
  BY DEF ByHost, c, d
<1> HIDE DEF h
<1> QED BY <1>5, <1>6

\* A host's answer goes back the way the question came.
LEMMA HostAnswerFrame ==
    ASSUME NEW f \in Frame, NEW kind \in Kinds
    PROVE  LET g == HostAnswer(f, kind) IN
           /\ g \in Frame
           /\ g.from = f.at /\ g.at = f.from /\ g.src = f.dst /\ g.dst = f.src
           /\ g.ttl = HostTtl /\ g.kind = kind
<1> DEFINE h == [f EXCEPT !.from = f.at, !.at = f.from, !.src = f.dst, !.dst = f.src,
                          !.ttl = HostTtl, !.kind = kind]
<1>1. /\ h \in Frame
      /\ h.from = f.at /\ h.at = f.from /\ h.src = f.dst /\ h.dst = f.src
      /\ h.ttl = HostTtl /\ h.kind = kind
  BY DEF Frame
<1>2. HostAnswer(f, kind) = ByHost(h)
  BY DEF HostAnswer
<1> HIDE DEF h
<1> QED BY <1>1, <1>2, ByHostFrame

\* What a host sends first, whatever the link does to its checksum.
Disturbed(p, r, n) == [Originated(p, r) EXCEPT !.sum = (@ + n) % (Ones + 1)]

LEMMA OriginatedFrame ==
    ASSUME NEW p \in Packets, NEW r \in Routers, NEW n \in Noise[p]
    PROVE  LET g == Disturbed(p, r, n) IN
           /\ g \in Frame
           /\ g.from = Origin[p] /\ g.at = r /\ g.src = <<Origin[p], Origin[p]>> /\ g.dst = Target[p]
           /\ g.ttl = Ttl[p] /\ g.kind = Kind[p]
<1> DEFINE h == [from |-> Origin[p], at |-> r, src |-> <<Origin[p], Origin[p]>>,
                 dst |-> Target[p], ttl |-> Ttl[p], kind |-> Kind[p],
                 len |-> Length[p], body |-> Body[p], sum |-> 0, icmp |-> 0]
           f == ByHost(h)
<1>1. /\ h \in Frame
      /\ h.from = Origin[p] /\ h.at = r /\ h.src = <<Origin[p], Origin[p]>> /\ h.dst = Target[p]
      /\ h.ttl = Ttl[p] /\ h.kind = Kind[p]
  <2>1. 0 \in Words
    BY FixedWords
  <2>2. <<Origin[p], Origin[p]>> \in Addresses
    BY DEF Addresses
  <2> QED BY <2>1, <2>2 DEF Frame
<1>2. Originated(p, r) = f
  BY DEF Originated
<1> HIDE DEF h
<1>3. /\ f \in Frame
      /\ f.from = Origin[p] /\ f.at = r /\ f.src = <<Origin[p], Origin[p]>> /\ f.dst = Target[p]
      /\ f.ttl = Ttl[p] /\ f.kind = Kind[p]
  BY <1>1, ByHostFrame
<1> HIDE DEF f
<1> DEFINE s == (f.sum + n) % (Ones + 1)
<1>4. s \in Words
  <2>1. f.sum \in Nat /\ n \in Nat
    BY <1>3, WordBounds DEF Frame
  <2>2. s \in Int /\ 0 <= s /\ s <= Ones
    BY <2>1 DEF Ones
  <2> HIDE DEF s
  <2> QED BY <2>2, WordBounds
<1> HIDE DEF s
<1> DEFINE g == [f EXCEPT !.sum = s]
<1>5. /\ g \in Frame
      /\ g.from = f.from /\ g.at = f.at /\ g.src = f.src /\ g.dst = f.dst
      /\ g.ttl = f.ttl /\ g.kind = f.kind
  BY <1>3, <1>4 DEF Frame
<1>6. Disturbed(p, r, n) = g
  BY <1>2 DEF Disturbed, s
<1> HIDE DEF g
<1> QED BY <1>3, <1>5, <1>6

-----------------------------------------------------------------------------
(* The steps, as frames that become others.                                *)

\* What IP_packet makes of a frame, in the cases of the code.
RouterMakes(f, g) ==
    \/ g = None
    \/ ForRouter(f) /\ f.kind \in ICMP /\ g = EchoReply(f)
    \/ ForRouter(f) /\ f.kind = "datagram" /\ g = Error(f, "port_unreachable", f.ttl)
    \/ ~ForRouter(f) /\ Expired(f) /\ g = Error(f, "exceeded", TtlBelow(f.ttl))
    \/ ~ForRouter(f) /\ ~Expired(f) /\ g = Error(f, "host_unreachable", f.ttl)
    \/ /\ ~ForRouter(f) /\ ~Expired(f)
       /\ \E n : <<f.at, n>> \in Links /\ f.dst[1] = n /\ g = Passed(f, n)

\* What a host answers.
HostMakes(f, g) ==
    \/ g = None
    \/ f.kind = "request" /\ g = HostAnswer(f, "reply")
    \/ f.kind = "datagram" /\ g = HostAnswer(f, "port_unreachable")

\* A frame of one packet becomes another or is gone; heard may change for it.
Moves(p, g) == wire' = [wire EXCEPT ![p] = g]

LEMMA RouterStep ==
    ASSUME NEW p \in Packets, RouterHandles(p)
    PROVE  /\ wire[p] # None /\ wire[p].at \in Routers
           /\ \E g : RouterMakes(wire[p], g) /\ Moves(p, g)
           /\ UNCHANGED <<fresh, heard>>
<1> DEFINE f == wire[p]
<1>1. f # None /\ f.at \in Routers /\ UNCHANGED <<fresh, heard>>
  BY DEF RouterHandles
<1>2. ASSUME NEW kind, NEW ttl, SendError(p, kind, ttl)
      PROVE  Moves(p, Error(f, kind, ttl)) \/ Moves(p, None)
  BY <1>2 DEF SendError, Becomes, Moves
<1>3. CASE ~Valid(f) /\ Vanishes(p)
  BY <1>1, <1>3 DEF Vanishes, Becomes, Moves, RouterMakes
<1>4. CASE ForRouter(f) /\ f.kind \in ICMP /\ Becomes(p, EchoReply(f))
  BY <1>1, <1>4 DEF Becomes, Moves, RouterMakes
<1>5. CASE ForRouter(f) /\ f.kind = "datagram" /\ SendError(p, "port_unreachable", f.ttl)
  BY <1>1, <1>2, <1>5 DEF RouterMakes
<1>6. CASE ForRouter(f) /\ f.kind = "other" /\ Vanishes(p)
  BY <1>1, <1>6 DEF Vanishes, Becomes, Moves, RouterMakes
<1>7. CASE ~ForRouter(f) /\ Forward(p)
  <2>1. CASE Expired(f) /\ SendError(p, "exceeded", TtlBelow(f.ttl))
    BY <1>1, <1>2, <1>7, <2>1 DEF RouterMakes
  <2>2. CASE ~Expired(f) /\ SendError(p, "host_unreachable", f.ttl)
    BY <1>1, <1>2, <1>7, <2>2 DEF RouterMakes
  <2>3. ASSUME ~Expired(f),
               NEW i \in Matching(f.at, f.dst),
               LET n == Table[f.at][i].iface IN
               IF f.dst[1] = n
               THEN Becomes(p, Sealed([f EXCEPT !.from = f.at, !.at = n, !.ttl = TtlBelow(f.ttl)]))
               ELSE Vanishes(p)
        PROVE  \E g : RouterMakes(f, g) /\ Moves(p, g)
    <3> DEFINE n == Table[f.at][i].iface
    <3>1. <<f.at, n>> \in Links
      BY <1>1 DEF Matching
    <3> HIDE DEF n
    <3>2. (f.dst[1] = n /\ Becomes(p, Passed(f, n))) \/ Vanishes(p)
      BY <2>3 DEF Passed, n
    <3>3. CASE f.dst[1] = n /\ Becomes(p, Passed(f, n))
      BY <1>7, <2>3, <3>1, <3>3 DEF RouterMakes, Becomes, Moves
    <3>4. CASE Vanishes(p)
      BY <3>4 DEF RouterMakes, Becomes, Vanishes, Moves
    <3> QED BY <3>2, <3>3, <3>4
  <2> HIDE DEF f
  <2>4. \/ Expired(f) /\ SendError(p, "exceeded", TtlBelow(f.ttl))
        \/ ~Expired(f) /\ SendError(p, "host_unreachable", f.ttl)
        \/ /\ ~Expired(f)
           /\ \E i \in Matching(f.at, f.dst) :
                 LET n == Table[f.at][i].iface IN
                 IF f.dst[1] = n
                 THEN Becomes(p, Sealed([f EXCEPT !.from = f.at, !.at = n, !.ttl = TtlBelow(f.ttl)]))
                 ELSE Vanishes(p)
    BY <1>7, Zenon DEF Forward, f
  <2>5. CASE /\ ~Expired(f)
             /\ \E i \in Matching(f.at, f.dst) :
                   LET n == Table[f.at][i].iface IN
                   IF f.dst[1] = n
                   THEN Becomes(p, Sealed([f EXCEPT !.from = f.at, !.at = n, !.ttl = TtlBelow(f.ttl)]))
                   ELSE Vanishes(p)
    <3>1. \E g : RouterMakes(f, g) /\ Moves(p, g)
      BY <2>3, <2>5, Zenon
    <3> QED BY <1>1, <3>1 DEF f
  <2> QED BY <2>1, <2>2, <2>4, <2>5, Zenon DEF f
<1> QED BY <1>3, <1>4, <1>5, <1>6, <1>7, Zenon DEF RouterHandles

LEMMA HostStep ==
    ASSUME NEW p \in Packets, HostHandles(p)
    PROVE  /\ wire[p] # None /\ wire[p].at \in Hosts
           /\ \E g : HostMakes(wire[p], g) /\ Moves(p, g)
           /\ \/ UNCHANGED heard
              \/ /\ wire[p].kind \notin {"request", "datagram"}
                 /\ heard' = [heard EXCEPT ![p] = @ \cup {wire[p].kind}]
                 /\ wire[p].at = Origin[p]
           /\ UNCHANGED fresh
BY Zenon DEF HostHandles, HostMakes, Becomes, Vanishes, Moves

-----------------------------------------------------------------------------
(* Every frame comes over a link, under its sender's address if that is a  *)
(* host; what comes to a host is addressed to it; and what a router sent   *)
(* has a right checksum.                                                   *)

Sound(f) ==
    /\ f \in Frame
    /\ <<f.from, f.at>> \in Links
    /\ f.from \in Hosts => f.src = <<f.from, f.from>> /\ f.at \in Routers
    /\ f.at \in Hosts => f.dst = <<f.at, f.at>>
    /\ f.from \in Routers => Undamaged(f)

IInv ==
    /\ wire \in [Packets -> Frame \cup {None}]
    /\ heard \in [Packets -> SUBSET Kinds]
    /\ fresh \subseteq Packets
    /\ \A p \in Packets : wire[p] # None => Sound(wire[p])

\* An address whose node is a host is that host's.
LEMMA HostAddress == \A a \in Addresses : a[1] \in Hosts => a = <<a[1], a[1]>>
BY DEF Addresses

LEMMA RouterKeepsSound ==
    ASSUME NEW f, NEW g, Sound(f), f.at \in Routers, RouterMakes(f, g), g # None
    PROVE  Sound(g)
<1>1. f \in Frame /\ <<f.from, f.at>> \in Links /\ f.at \notin Hosts
  BY DEF Sound
<1>2. ASSUME g \in Frame, Undamaged(g), g.from = f.at, g.at = f.from, g.dst = f.src
      PROVE  Sound(g)
  BY <1>1, <1>2, Neighbours DEF Sound
<1>3. CASE ForRouter(f) /\ f.kind \in ICMP /\ g = EchoReply(f)
  BY <1>1, <1>2, <1>3, EchoReplyFrame
<1>4. ASSUME NEW kind \in ICMP, NEW ttl \in Octets, g = Error(f, kind, ttl)
      PROVE  Sound(g)
  BY <1>1, <1>2, <1>4, ErrorFrame
<1>5. f.ttl \in Octets /\ TtlBelow(f.ttl) \in Octets
  BY <1>1, TtlBelowIs DEF Frame
<1>6. CASE ForRouter(f) /\ f.kind = "datagram" /\ g = Error(f, "port_unreachable", f.ttl)
  BY <1>4, <1>5, <1>6 DEF ICMP
<1>7. CASE ~ForRouter(f) /\ Expired(f) /\ g = Error(f, "exceeded", TtlBelow(f.ttl))
  BY <1>4, <1>5, <1>7 DEF ICMP
<1>8. CASE ~ForRouter(f) /\ ~Expired(f) /\ g = Error(f, "host_unreachable", f.ttl)
  BY <1>4, <1>5, <1>8 DEF ICMP
<1>9. ASSUME NEW n, <<f.at, n>> \in Links, f.dst[1] = n, g = Passed(f, n)
      PROVE  Sound(g)
  <2>1. /\ g \in Frame /\ Undamaged(g)
        /\ g.from = f.at /\ g.at = n /\ g.dst = f.dst
    BY <1>1, <1>9, PassedFrame
  <2>2. n \in Hosts => g.dst = <<n, n>>
    BY <1>1, <1>9, <2>1, HostAddress DEF Frame
  <2> QED BY <1>1, <1>9, <2>1, <2>2 DEF Sound
<1> QED BY <1>3, <1>6, <1>7, <1>8, <1>9, Zenon DEF RouterMakes

LEMMA HostKeepsSound ==
    ASSUME NEW f, NEW g, Sound(f), f.at \in Hosts, HostMakes(f, g), g # None
    PROVE  Sound(g)
<1>1. f \in Frame /\ <<f.from, f.at>> \in Links /\ f.dst = <<f.at, f.at>> /\ f.from \in Routers
  BY Neighbours DEF Sound
<1>2. PICK kind \in Kinds : g = HostAnswer(f, kind)
  BY DEF HostMakes, Kinds, ICMP
<1>3. /\ g \in Frame /\ g.from = f.at /\ g.at = f.from /\ g.src = f.dst
  BY <1>1, <1>2, HostAnswerFrame
<1> QED BY <1>1, <1>3, Neighbours DEF Sound

LEMMA OriginatedSound ==
    ASSUME NEW p \in Packets, NEW r \in Routers, NEW n \in Noise[p], <<Origin[p], r>> \in Links
    PROVE  Sound(Disturbed(p, r, n))
<1> DEFINE g == Disturbed(p, r, n)
<1>1. g \in Frame /\ g.from = Origin[p] /\ g.at = r /\ g.src = <<Origin[p], Origin[p]>>
  BY OriginatedFrame
<1>2. Origin[p] \in Hosts /\ Origin[p] \notin Routers /\ r \notin Hosts
  OBVIOUS
<1> HIDE DEF g
<1>3. Sound(g)
  BY <1>1, <1>2 DEF Sound
<1> QED BY <1>3 DEF g

\* The invariant holds at the start, and what can happen of one packet keeps it.
LEMMA IInvInit == Init => IInv
BY DEF Init, IInv

LEMMA IInvMove ==
    ASSUME IInv, NEW p \in Packets, NEW g, Moves(p, g), g # None => Sound(g),
           heard' \in [Packets -> SUBSET Kinds], fresh' \subseteq Packets
    PROVE  IInv'
<1>1. g \in Frame \cup {None}
  BY DEF Sound
<1>2. wire' \in [Packets -> Frame \cup {None}]
  BY <1>1 DEF IInv, Moves
<1>3. ASSUME NEW q \in Packets, wire'[q] # None PROVE Sound(wire'[q])
  BY <1>3 DEF IInv, Moves
<1> QED BY <1>2, <1>3 DEF IInv, Sound, Undamaged

LEMMA IInvNext == IInv /\ [Next]_vars => IInv'
<1> SUFFICES ASSUME IInv, [Next]_vars PROVE IInv'
  OBVIOUS
<1>1. ASSUME NEW p \in Packets, Originate(p) PROVE IInv'
  <2>1. PICK r \in Routers, n \in Noise[p] :
           /\ <<Origin[p], r>> \in Links
           /\ Moves(p, Disturbed(p, r, n))
    BY <1>1 DEF Originate, Moves, Disturbed
  <2>2. heard' \in [Packets -> SUBSET Kinds] /\ fresh' \subseteq Packets
    BY <1>1 DEF Originate, IInv
  <2> QED BY <2>1, <2>2, OriginatedSound, IInvMove
<1>2. ASSUME NEW p \in Packets, RouterHandles(p) PROVE IInv'
  <2>1. PICK g : RouterMakes(wire[p], g) /\ Moves(p, g)
    BY <1>2, RouterStep
  <2>2. wire[p] # None /\ wire[p].at \in Routers /\ UNCHANGED <<fresh, heard>>
    BY <1>2, RouterStep
  <2>3. Sound(wire[p])
    BY <2>2 DEF IInv
  <2>4. g # None => Sound(g)
    BY <2>1, <2>2, <2>3, RouterKeepsSound
  <2>5. heard' \in [Packets -> SUBSET Kinds] /\ fresh' \subseteq Packets
    BY <2>2 DEF IInv
  <2> QED BY <2>1, <2>4, <2>5, IInvMove
<1>3. ASSUME NEW p \in Packets, HostHandles(p) PROVE IInv'
  <2>1. PICK g : HostMakes(wire[p], g) /\ Moves(p, g)
    BY <1>3, HostStep
  <2>2. wire[p] # None /\ wire[p].at \in Hosts /\ UNCHANGED fresh
    BY <1>3, HostStep
  <2>3. Sound(wire[p])
    BY <2>2 DEF IInv
  <2>4. g # None => Sound(g)
    BY <2>1, <2>2, <2>3, HostKeepsSound
  <2>5. heard' \in [Packets -> SUBSET Kinds] /\ fresh' \subseteq Packets
    <3>1. UNCHANGED heard \/ heard' = [heard EXCEPT ![p] = @ \cup {wire[p].kind}]
      BY <1>3, HostStep
    <3>2. wire[p].kind \in Kinds
      BY <2>3 DEF Sound, Frame
    <3>3. heard \in [Packets -> SUBSET Kinds] /\ fresh \subseteq Packets
      BY DEF IInv
    <3>4. CASE heard' = [heard EXCEPT ![p] = @ \cup {wire[p].kind}]
      <4>1. heard[p] \cup {wire[p].kind} \in SUBSET Kinds
        BY <3>2, <3>3
      <4> QED BY <2>2, <3>3, <3>4, <4>1
    <3> QED BY <2>2, <3>1, <3>3, <3>4
  <2> QED BY <2>1, <2>4, <2>5, IInvMove
<1>4. ASSUME NEW p \in Packets, Unattended(p) PROVE IInv'
  <2>1. Moves(p, None) /\ UNCHANGED <<fresh, heard>>
    BY <1>4 DEF Unattended, Vanishes, Becomes, Moves
  <2>2. heard' \in [Packets -> SUBSET Kinds] /\ fresh' \subseteq Packets
    BY <2>1 DEF IInv
  <2> QED BY <2>1, <2>2, IInvMove
<1>5. CASE UNCHANGED vars
  BY <1>5 DEF vars, IInv, Sound, Undamaged
<1> QED BY <1>1, <1>2, <1>3, <1>4, <1>5 DEF Next, Step, Done

LEMMA IInvAlways == Spec => []IInv
BY IInvInit, IInvNext, PTL DEF Spec

\* Replies and errors find their way back, and packets passed on go where they are
\* addressed to, through any network of these routers.
THEOREM AnswersReachTheirHost == Spec => []AnswersComeHome
<1>1. IInv => AnswersComeHome
  BY DEF IInv, Sound, AnswersComeHome
<1> QED BY <1>1, IInvAlways, PTL

\* Each header a router sends adds up with its checksum: none of the ways through the
\* code changes a header after, or without, computing its checksum anew.
THEOREM SentHeadersAddUp == Spec => []HeadersAddUp
<1>1. IInv => HeadersAddUp
  <2> SUFFICES ASSUME IInv, NEW p \in Packets, wire[p] # None, wire[p].from \in Routers
               PROVE  AddsUp(HeaderWords(wire[p]) \o <<wire[p].sum>>)
    BY DEF HeadersAddUp
  <2>1. wire[p] \in Frame /\ wire[p].sum = Cksum(HeaderWords(wire[p]))
    BY DEF IInv, Sound, Undamaged
  <2>2. HeaderWords(wire[p]) \in Seq(Words)
    BY <2>1, HeaderIsWords DEF Frame
  <2> QED BY <2>1, <2>2, ChecksumsAccepted
<1> QED BY <1>1, IInvAlways, PTL

-----------------------------------------------------------------------------
(* What traceroute is told, by a single router.                            *)

\* The probe that should hear of its TTL.
Ends(p) == Ttl[p] = 1 /\ Target[p] \notin Links

\* A frame from a host is the probe or, if the probe does not end at the router, an
\* answer; a frame from the router says "exceeded" of the probe that ends there only.
Truthful(p, f) ==
    /\ f.from \in Hosts =>
          /\ f.kind # "exceeded"
          /\ \/ f.ttl = Ttl[p] /\ f.dst = Target[p]
             \/ f.ttl = HostTtl /\ ~Ends(p)
    /\ f.from \in Routers => (f.kind = "exceeded" <=> Ends(p))

Told(p) ==
    /\ wire[p] # None => Truthful(p, wire[p])
    /\ Ends(p) => heard[p] \subseteq {"exceeded"}
    /\ ~Ends(p) => "exceeded" \notin heard[p]

TruthInv == IInv /\ \A p \in Packets : Told(p)

\* The one router takes for itself what is addressed to any of the links.
LEMMA OneRouterTakes ==
    ASSUME NEW r, Routers = {r}, NEW f \in Frame, f.at \in Routers
    PROVE  ForRouter(f) <=> f.dst \in Links
<1>1. f.dst \in Addresses
  BY DEF Frame
<1>2. CASE f.dst \in Links
  <2>1. f.dst[1] # f.dst[2]
    BY <1>2
  <2>2. f.dst[1] \in Routers
    BY <1>1, <2>1 DEF Addresses
  <2> QED BY <1>2, <2>2 DEF ForRouter
<1> QED BY <1>2 DEF ForRouter

LEMMA RouterKeepsTruthful ==
    ASSUME NEW r, Routers = {r}, HostTtl > 1,
           NEW p \in Packets, NEW f, NEW g, Sound(f), Truthful(p, f),
           f.at \in Routers, RouterMakes(f, g), g # None
    PROVE  Truthful(p, g)
<1>1. f \in Frame /\ <<f.from, f.at>> \in Links /\ f.from \in Hosts
  BY Neighbours DEF Sound
<1>2. f.kind # "exceeded" /\ ((f.ttl = Ttl[p] /\ f.dst = Target[p]) \/ (f.ttl = HostTtl /\ ~Ends(p)))
  BY <1>1 DEF Truthful
<1>3. ForRouter(f) <=> f.dst \in Links
  BY <1>1, OneRouterTakes
<1>4. ForRouter(f) => ~Ends(p)
  BY <1>2, <1>3 DEF Ends
<1>5. ~ForRouter(f) => (Expired(f) <=> Ends(p))
  <2>1. Ttl[p] \in Int /\ Ttl[p] > 0 /\ HostTtl \in Int
    BY OctetBounds
  <2> QED BY <1>2, <1>3, <2>1 DEF Ends, Expired
<1>6. f.ttl \in Octets /\ TtlBelow(f.ttl) \in Octets
  BY <1>1, TtlBelowIs DEF Frame
<1>7. g.from = f.at /\ (g.kind = "exceeded" <=> Ends(p))
  <2>1. CASE ForRouter(f) /\ f.kind \in ICMP /\ g = EchoReply(f)
    BY <1>1, <1>4, <2>1, EchoReplyFrame
  <2>2. ASSUME NEW kind \in ICMP, NEW ttl \in Octets, g = Error(f, kind, ttl)
        PROVE  g.from = f.at /\ g.kind = kind
    BY <1>1, <2>2, ErrorFrame
  <2>3. CASE ForRouter(f) /\ f.kind = "datagram" /\ g = Error(f, "port_unreachable", f.ttl)
    BY <1>4, <1>6, <2>2, <2>3 DEF ICMP
  <2>4. CASE ~ForRouter(f) /\ Expired(f) /\ g = Error(f, "exceeded", TtlBelow(f.ttl))
    BY <1>5, <1>6, <2>2, <2>4 DEF ICMP
  <2>5. CASE ~ForRouter(f) /\ ~Expired(f) /\ g = Error(f, "host_unreachable", f.ttl)
    BY <1>5, <1>6, <2>2, <2>5 DEF ICMP
  <2>6. ASSUME ~ForRouter(f), ~Expired(f), NEW n, <<f.at, n>> \in Links, g = Passed(f, n)
        PROVE  g.from = f.at /\ (g.kind = "exceeded" <=> Ends(p))
    BY <1>1, <1>2, <1>5, <2>6, PassedFrame
  <2> QED BY <2>1, <2>3, <2>4, <2>5, <2>6, Zenon DEF RouterMakes
<1>8. f.at \notin Hosts
  OBVIOUS
<1> QED BY <1>7, <1>8 DEF Truthful

LEMMA HostKeepsTruthful ==
    ASSUME NEW p \in Packets, NEW f, NEW g, Sound(f), Truthful(p, f),
           f.at \in Hosts, HostMakes(f, g), g # None
    PROVE  Truthful(p, g)
<1>1. f \in Frame /\ f.from \in Routers
  BY Neighbours DEF Sound
<1>2. ~Ends(p)
  BY <1>1 DEF HostMakes, Truthful
<1>3. PICK kind \in Kinds \ {"exceeded"} : g = HostAnswer(f, kind)
  BY DEF HostMakes, Kinds, ICMP
<1>4. g.ttl = HostTtl /\ g.from = f.at /\ g.kind = kind
  BY <1>1, <1>3, HostAnswerFrame
<1>5. f.at \notin Routers
  OBVIOUS
<1> QED BY <1>2, <1>3, <1>4, <1>5 DEF Truthful

LEMMA OriginatedTruthful ==
    ASSUME NEW p \in Packets, NEW r \in Routers, NEW n \in Noise[p], Kind[p] # "exceeded"
    PROVE  Truthful(p, Disturbed(p, r, n))
<1> DEFINE g == Disturbed(p, r, n)
<1>1. g.ttl = Ttl[p] /\ g.from = Origin[p] /\ g.dst = Target[p] /\ g.kind = Kind[p]
  BY OriginatedFrame
<1>2. Origin[p] \notin Routers
  OBVIOUS
<1> HIDE DEF g
<1>3. Truthful(p, g)
  BY <1>1, <1>2 DEF Truthful
<1> QED BY <1>3 DEF g

LEMMA TruthMove ==
    ASSUME TruthInv, IInv', NEW p \in Packets, NEW g, Moves(p, g), g # None => Truthful(p, g),
           \/ UNCHANGED heard
           \/ \E kind : /\ heard' = [heard EXCEPT ![p] = @ \cup {kind}]
                        /\ kind = "exceeded" <=> Ends(p)
    PROVE  TruthInv'
<1>1. ASSUME NEW q \in Packets, wire'[q] # None PROVE Truthful(q, wire'[q])
  BY <1>1 DEF TruthInv, Told, IInv, Moves
<1>2. ASSUME NEW q \in Packets
      PROVE  /\ Ends(q) => heard'[q] \subseteq {"exceeded"}
             /\ ~Ends(q) => "exceeded" \notin heard'[q]
  <2>1. heard \in [Packets -> SUBSET Kinds] /\ Told(q)
    BY DEF TruthInv, IInv
  <2>2. CASE UNCHANGED heard
    BY <2>1, <2>2 DEF Told
  <2>3. ASSUME NEW kind, heard' = [heard EXCEPT ![p] = @ \cup {kind}], kind = "exceeded" <=> Ends(p)
        PROVE  /\ Ends(q) => heard'[q] \subseteq {"exceeded"}
               /\ ~Ends(q) => "exceeded" \notin heard'[q]
    BY <2>1, <2>3 DEF Told
  <2> QED BY <2>2, <2>3
<1>3. ASSUME NEW q \in Packets PROVE Told(q)'
  BY <1>1, <1>2 DEF Told, Truthful, Ends
<1> QED BY <1>3 DEF TruthInv

\* Around one router, whose hosts answer with a TTL that gets back and do not send
\* "exceeded" messages of their own, a probe hears from the router if its TTL ends
\* there and is not for the router itself, and else hears nothing of the kind.
THEOREM TracerouteTold ==
    ASSUME NEW r, Routers = {r}, HostTtl > 1, \A p \in Packets : Kind[p] # "exceeded"
    PROVE  Spec => []TracerouteTruthful
<1>1. Init => TruthInv
  BY IInvInit DEF Init, TruthInv, Told
<1>2. TruthInv /\ [Next]_vars => TruthInv'
  <2> SUFFICES ASSUME TruthInv, [Next]_vars PROVE TruthInv'
    OBVIOUS
  <2>1. IInv /\ IInv'
    BY IInvNext DEF TruthInv
  <2>2. ASSUME NEW p \in Packets, Originate(p) PROVE TruthInv'
    <3>1. PICK s \in Routers, n \in Noise[p] : Moves(p, Disturbed(p, s, n))
      BY <2>2 DEF Originate, Moves, Disturbed
    <3>2. UNCHANGED heard
      BY <2>2 DEF Originate
    <3>3. Truthful(p, Disturbed(p, s, n))
      BY OriginatedTruthful
    <3> QED BY <2>1, <3>1, <3>2, <3>3, TruthMove
  <2>3. ASSUME NEW p \in Packets, RouterHandles(p) PROVE TruthInv'
    <3>1. PICK g : RouterMakes(wire[p], g) /\ Moves(p, g)
      BY <2>3, RouterStep
    <3>2. wire[p].at \in Routers /\ Sound(wire[p]) /\ Truthful(p, wire[p]) /\ UNCHANGED heard
      BY <2>3, RouterStep DEF TruthInv, Told, IInv
    <3>3. g # None => Truthful(p, g)
      BY <3>1, <3>2, RouterKeepsTruthful
    <3> QED BY <2>1, <3>1, <3>2, <3>3, TruthMove
  <2>4. ASSUME NEW p \in Packets, HostHandles(p) PROVE TruthInv'
    <3>1. PICK g : HostMakes(wire[p], g) /\ Moves(p, g)
      BY <2>4, HostStep
    <3>2. wire[p].at \in Hosts /\ Sound(wire[p]) /\ Truthful(p, wire[p])
      BY <2>4, HostStep DEF TruthInv, Told, IInv
    <3>3. g # None => Truthful(p, g)
      BY <3>1, <3>2, HostKeepsTruthful
    <3>4. wire[p].kind = "exceeded" <=> Ends(p)
      BY <3>2, Neighbours DEF Sound, Truthful
    <3>5. UNCHANGED heard \/ heard' = [heard EXCEPT ![p] = @ \cup {wire[p].kind}]
      BY <2>4, HostStep
    <3> QED BY <2>1, <3>1, <3>3, <3>4, <3>5, TruthMove
  <2>5. ASSUME NEW p \in Packets, Unattended(p) PROVE TruthInv'
    <3>1. Moves(p, None) /\ UNCHANGED heard
      BY <2>5 DEF Unattended, Vanishes, Becomes, Moves
    <3> QED BY <2>1, <3>1, TruthMove
  <2>6. CASE UNCHANGED vars
    BY <2>1, <2>6 DEF vars, TruthInv, Told, Truthful, Ends
  <2> QED BY <2>2, <2>3, <2>4, <2>5, <2>6 DEF Next, Step, Done
<1>3. TruthInv => TracerouteTruthful
  <2> SUFFICES ASSUME TruthInv, NEW p \in Packets
               PROVE  "exceeded" \in heard[p] <=> heard[p] # {} /\ Ends(p)
    BY DEF TracerouteTruthful, Ends
  <2> QED BY DEF TruthInv, Told
<1> QED BY <1>1, <1>2, <1>3, PTL DEF Spec

=============================================================================

--------------------------- MODULE Framing_proofs ---------------------------
(***************************************************************************)
(* What getProc finds in a stream, for every size of contentBuf, all       *)
(* messages, and however TCP cuts the bytes.                               *)
(*                                                                         *)
(* The sum of a message is a fold: that it is a byte takes an induction,   *)
(* which is done over sets of numbers (AllNumbers).  The bytes to come are *)
(* a concatenation of frames and junk; which ones is said without          *)
(* recursion, as the smallest set of streams that is closed under putting  *)
(* an item in front (Streams).                                             *)
(***************************************************************************)
EXTENDS Framing, FiniteSetTheorems, WellFoundedInduction, SequenceTheorems, TLAPS

-----------------------------------------------------------------------------
(* Induction, and the sum *)

\* Induction, for a set of numbers.
LEMMA AllNumbers ==
  ASSUME NEW A \in SUBSET Nat, 0 \in A, \A n \in A : n + 1 \in A
  PROVE  A = Nat
<1> SUFFICES ASSUME NEW b \in Nat \ A PROVE FALSE
  OBVIOUS
<1> DEFINE T == {0 .. n : n \in Nat \ A}
<1>1. T \subseteq FiniteSubsetsOf(Nat)
  <2>1. ASSUME NEW n \in Nat PROVE 0 .. n \in SUBSET Nat /\ IsFiniteSet(0 .. n)
    BY FS_Interval
  <2> QED BY <2>1 DEF FiniteSubsetsOf
<1>2. PICK s \in T : \A r \in T : <<r, s>> \notin StrictSubsetOrdering(Nat)
  <2>1. T # {}
    OBVIOUS
  <2>2. IsWellFoundedOn(StrictSubsetOrdering(Nat), FiniteSubsetsOf(Nat))
    BY FS_StrictSubsetOrderingWellFounded
  <2> HIDE DEF T
  <2> QED BY <1>1, <2>1, <2>2, WFMin
<1>3. PICK n \in Nat \ A : s = 0 .. n
  OBVIOUS
<1>4. n - 1 \in Nat \ A
  <2>1. n # 0 /\ n \in Nat
    OBVIOUS
  <2>2. n - 1 \in Nat /\ (n - 1) + 1 = n
    BY <2>1
  <2> QED BY <1>3, <2>2
<1>5. 0 .. n - 1 \in T
  BY <1>4
<1>6. <<0 .. n - 1, 0 .. n>> \in StrictSubsetOrdering(Nat)
  <2>1. n \in Nat /\ n - 1 \in Nat
    BY <1>4
  <2>2. /\ 0 .. n - 1 \in SUBSET Nat /\ 0 .. n \in SUBSET Nat
        /\ 0 .. n - 1 \subseteq 0 .. n /\ n \in 0 .. n /\ n \notin 0 .. n - 1
    BY <2>1
  <2> QED BY <2>2 DEF StrictSubsetOrdering
<1> QED BY <1>2, <1>3, <1>5, <1>6

IsFold(g, s) ==
  g = [t \in SUBSET DOMAIN s |->
         IF t = {} THEN 0 ELSE (g[t \ {Max(t)}] + s[Max(t)]) % 256]

\* The fold of the community modules, in the form the induction below needs.
LEMMA SumIsFold == ASSUME NEW s PROVE SumOf(s) = (CHOOSE g : IsFold(g, s))[DOMAIN s]
BY DEF SumOf, FoldLeft, MapThenFoldSet, IsFold

\* The provers are told what a byte is by its bounds, not by its 256 values.
LEMMA ByteBounds == \A x : x \in Byte <=> x \in Int /\ 0 <= x /\ x <= 255
BY DEF Byte

\* Intervals, for the solvers.
LEMMA Between == \A a, b \in Int : \A x : x \in a .. b <=> x \in Int /\ a <= x /\ x <= b
OBVIOUS

\* A word, for the solvers.
LEMMA WordBounds == \A x : x \in Word <=> x \in Int /\ 0 <= x /\ x <= 65535
<1>1. PICK w \in Int : w = 65535
  BY SMT
<1>2. Word = 0 .. w
  BY <1>1 DEF Word
<1>3. \A x : x \in Word <=> x \in Int /\ 0 <= x /\ x <= w
  BY <1>2, Between
<1> QED BY <1>1, <1>3, SMT

\* A table of sums exists, for the numbers up to k.
LEMMA FoldExists ==
  ASSUME NEW s, NEW n \in Nat, DOMAIN s = 1 .. n
  PROVE  \E g : IsFold(g, s)
<1> DEFINE UpTo(g, k) == g = [t \in SUBSET (1 .. k) |->
                                IF t = {} THEN 0 ELSE (g[t \ {Max(t)}] + s[Max(t)]) % 256]
           A == {k \in Nat : \E g : UpTo(g, k)}
<1>1. 0 \in A
  <2> DEFINE g == [t \in SUBSET (1 .. 0) |-> 0]
  <2>1. \A t \in SUBSET (1 .. 0) : t = {}
    OBVIOUS
  <2>2. g = [t \in SUBSET (1 .. 0) |->
               IF t = {} THEN 0 ELSE (g[t \ {Max(t)}] + s[Max(t)]) % 256]
    BY <2>1
  <2> QED BY <2>2
<1>2. ASSUME NEW k \in A PROVE k + 1 \in A
  <2>1. PICK g : UpTo(g, k)
    BY <1>2
  <2> DEFINE h == [t \in SUBSET (1 .. k + 1) |->
                     IF k + 1 \in t THEN (g[t \ {k + 1}] + s[k + 1]) % 256 ELSE g[t]]
  <2>2. ASSUME NEW t \in SUBSET (1 .. k + 1)
        PROVE  h[t] = IF t = {} THEN 0 ELSE (h[t \ {Max(t)}] + s[Max(t)]) % 256
    <3>1. CASE k + 1 \in t
      <4>1. Max(t) = k + 1
        <5>1. k \in Nat /\ \A y \in t : y \in Int /\ k + 1 >= y
          OBVIOUS
        <5>2. \A x \in t : (\A y \in t : x >= y) => x = k + 1
          BY <3>1, <5>1
        <5>3. Max(t) \in t /\ \A y \in t : Max(t) >= y
          BY <3>1, <5>1 DEF Max
        <5> QED BY <5>2, <5>3
      <4>2. t \ {k + 1} \in SUBSET (1 .. k + 1) /\ k + 1 \notin t \ {k + 1}
        OBVIOUS
      <4>3. h[t \ {k + 1}] = g[t \ {k + 1}]
        BY <4>2
      <4>4. h[t] = (g[t \ {k + 1}] + s[k + 1]) % 256
        BY <3>1
      <4> QED BY <3>1, <4>1, <4>3, <4>4
    <3>2. CASE k + 1 \notin t
      <4>1. t \in SUBSET (1 .. k) /\ t \ {Max(t)} \in SUBSET (1 .. k + 1)
            /\ k + 1 \notin t \ {Max(t)}
        <5>1. \A y \in t : y \in 1 .. k
          BY <3>2
        <5> QED BY <3>2, <5>1
      <4>2. h[t] = g[t] /\ h[t \ {Max(t)}] = g[t \ {Max(t)}]
        BY <3>2, <4>1
      <4>3. g[t] = IF t = {} THEN 0 ELSE (g[t \ {Max(t)}] + s[Max(t)]) % 256
        BY <2>1, <4>1
      <4> QED BY <4>2, <4>3
    <3> QED BY <3>1, <3>2
  <2>3. DOMAIN h = SUBSET (1 .. k + 1) /\ h = [t \in SUBSET (1 .. k + 1) |-> h[t]]
    OBVIOUS
  <2> HIDE DEF h
  <2>4. h = [t \in SUBSET (1 .. k + 1) |->
               IF t = {} THEN 0 ELSE (h[t \ {Max(t)}] + s[Max(t)]) % 256]
    BY <2>2, <2>3, Zenon
  <2>5. \E f : UpTo(f, k + 1)
    BY <2>4, Zenon
  <2>6. k + 1 \in Nat
    OBVIOUS
  <2> HIDE DEF UpTo
  <2> QED BY <2>5, <2>6
<1>3. n \in A
  <2> HIDE DEF A
  <2>1. A \subseteq Nat
    BY DEF A
  <2> QED BY <1>1, <1>2, <2>1, AllNumbers
<1>4. PICK g : UpTo(g, n)
  BY <1>3
<1>5. IsFold(g, s)
  BY <1>4 DEF IsFold
<1> QED BY <1>5

\* What a table of sums holds.
LEMMA FoldIsByte ==
  ASSUME NEW n \in Nat, NEW s, DOMAIN s = 1 .. n, \A i \in 1 .. n : s[i] \in Int,
         NEW g, IsFold(g, s)
  PROVE  g[1 .. n] \in Byte /\ g[{}] = 0
<1>1. \A t \in SUBSET (1 .. n) :
        g[t] = IF t = {} THEN 0 ELSE (g[t \ {Max(t)}] + s[Max(t)]) % 256
  BY DEF IsFold
<1> DEFINE A == {k \in Nat : k <= n => g[1 .. k] \in Byte}
<1>2. 0 \in A /\ g[{}] = 0
  <2>1. 1 .. 0 = {} /\ {} \in SUBSET (1 .. n)
    OBVIOUS
  <2>2. g[{}] = 0
    BY <1>1, <2>1
  <2> QED BY <2>1, <2>2, ByteBounds
<1>3. ASSUME NEW k \in Nat, k + 1 <= n, g[1 .. k] \in Byte PROVE g[1 .. k + 1] \in Byte
  <2>1. Max(1 .. k + 1) = k + 1
    <3>1. \A x \in 1 .. k + 1 : (\A y \in 1 .. k + 1 : x >= y) => x = k + 1
      OBVIOUS
    <3>2. k + 1 \in 1 .. k + 1 /\ \A y \in 1 .. k + 1 : k + 1 >= y
      OBVIOUS
    <3>3. Max(1 .. k + 1) \in 1 .. k + 1 /\ \A y \in 1 .. k + 1 : Max(1 .. k + 1) >= y
      BY <3>2 DEF Max
    <3> QED BY <3>1, <3>3
  <2>2. (1 .. k + 1) \ {k + 1} = 1 .. k /\ 1 .. k + 1 \in SUBSET (1 .. n) /\ 1 .. k + 1 # {}
    BY <1>3
  <2>3. g[1 .. k + 1] = (g[1 .. k] + s[k + 1]) % 256
    <3>1. g[1 .. k + 1] = (g[(1 .. k + 1) \ {Max(1 .. k + 1)}] + s[Max(1 .. k + 1)]) % 256
      BY <1>1, <2>2, Zenon
    <3> QED BY <2>1, <2>2, <3>1
  <2>4. g[1 .. k] \in Int /\ s[k + 1] \in Int
    BY <1>3, ByteBounds
  <2> QED BY <2>3, <2>4, ByteBounds
<1>4. \A k \in A : k + 1 \in A
  BY <1>3
<1>5. n \in A
  <2> HIDE DEF A
  <2>1. A \subseteq Nat
    BY DEF A
  <2> QED BY <1>2, <1>4, <2>1, AllNumbers
<1> QED BY <1>2, <1>5

\* The sum of bytes is a byte, and that of none is 0 (proc.c: the loop over contentBuf).
LEMMA SumIsByte ==
  ASSUME NEW s \in Seq(Byte)
  PROVE  SumOf(s) \in Byte /\ (s = <<>> => SumOf(s) = 0)
<1>1. PICK n \in Nat : n = Len(s) /\ DOMAIN s = 1 .. n
  BY LenProperties
<1>2. \A i \in 1 .. n : s[i] \in Int
  BY <1>1, ElementOfSeq, ByteBounds
<1>3. PICK g : IsFold(g, s) /\ SumOf(s) = g[1 .. n]
  BY <1>1, SumIsFold, FoldExists
<1>4. g[1 .. n] \in Byte /\ g[{}] = 0
  BY <1>1, <1>2, <1>3, FoldIsByte
<1>5. s = <<>> => 1 .. n = {}
  BY <1>1
<1> QED BY <1>3, <1>4, <1>5

-----------------------------------------------------------------------------
(* The sizes of things *)

\* What is assumed of the constants, with the bounds of numbers in place of sets.
LEMMA Sizes ==
  /\ PROC_CONTENT_LEN \in Int /\ 1 <= PROC_CONTENT_LEN /\ PROC_CONTENT_LEN <= 65535
  /\ HEAD_1 \in Byte /\ HEAD_2 \in Byte /\ HEAD_1 # HEAD_2
  /\ ChunkMax \in Nat \ {0}
BY FramingAssumption

\* A message is a non-empty sequence of bytes and fits contentBuf.
LEMMA MessageSize ==
  ASSUME NEW m \in Message
  PROVE  m \in Seq(Byte) /\ Len(m) \in Nat /\ 1 <= Len(m) /\ Len(m) <= PROC_CONTENT_LEN
<1>1. m \in Seq(Byte) /\ Len(m) \in 1 .. PROC_CONTENT_LEN
  BY FramingAssumption
<1>2. Len(m) \in Nat
  BY <1>1, LenProperties
<1> QED BY <1>1, <1>2, Sizes

\* Division of a 16 bit length in two bytes.
LEMMA LengthBytes ==
  ASSUME NEW n \in Nat, n <= 65535
  PROVE  n % 256 \in Byte /\ n \div 256 \in Byte /\ (n % 256) + 256 * (n \div 256) = n
<1>1. /\ n % 256 \in Int /\ 0 <= n % 256 /\ n % 256 <= 255
      /\ n \div 256 \in Int /\ 0 <= n \div 256 /\ n \div 256 <= 255
      /\ (n % 256) + 256 * (n \div 256) = n
  BY SMT
<1> QED BY <1>1, ByteBounds

-----------------------------------------------------------------------------
(* Streams: the bytes to come, and the messages in them *)

Pair       == Seq(Byte) \X Seq(Message)
Nil        == <<<<>>, <<>>>>
Join(i, p) == <<i[1] \o p[1], i[2] \o p[2]>>

\* a frame with its message, and what is no frame without one
Items == {<<FrameOf(m), <<m>>>> : m \in Message} \cup
         {<<j, <<>>>> : j \in Junk \cup {n \in Seq(Byte) : Noise(n)}}

Grows(R) == Nil \in R /\ \A i \in Items, p \in R : Join(i, p) \in R

Streams == {p \in Pair : \A R \in SUBSET Pair : Grows(R) => p \in R}

\* A frame is a sequence of bytes, with its message from the fifth one on.
LEMMA FrameShape ==
  ASSUME NEW m \in Message
  PROVE  /\ FrameOf(m) \in Seq(Byte) /\ Len(FrameOf(m)) = Len(m) + 5
         /\ HasHead(FrameOf(m)) /\ Claimed(FrameOf(m)) = Len(m)
         /\ \A i \in 1 .. Len(m) : FrameOf(m)[4 + i] = m[i]
         /\ FrameOf(m)[Len(m) + 5] = SumOf(m)
<1>1. PICK n \in Nat : n = Len(m) /\ 1 <= n
  BY MessageSize
<1>2. m \in Seq(Byte)
  BY MessageSize
<1>3. n % 256 \in Byte /\ n \div 256 \in Byte /\ (n % 256) + 256 * (n \div 256) = n
  <2>1. n <= 65535
    BY <1>1, MessageSize, Sizes
  <2> QED BY <2>1, LengthBytes
<1>4. PICK h : h = <<HEAD_1, HEAD_2, n % 256, n \div 256>>
  OBVIOUS
<1>5. PICK e : e = <<SumOf(m)>>
  OBVIOUS
<1>6. h \in Seq(Byte) /\ Len(h) = 4
  BY <1>3, <1>4, Sizes
<1>7. e \in Seq(Byte) /\ Len(e) = 1
  BY <1>2, <1>5, SumIsByte
<1>8. PICK g : g = h \o m
  OBVIOUS
<1>9. /\ g \in Seq(Byte) /\ Len(g) = 4 + n
      /\ \A i \in 1 .. 4 + n : g[i] = IF i <= 4 THEN h[i] ELSE m[i - 4]
  <2>1. /\ h \o m \in Seq(Byte) /\ Len(h \o m) = Len(h) + Len(m)
        /\ \A i \in 1 .. Len(h) + Len(m) : (h \o m)[i] = IF i <= Len(h) THEN h[i] ELSE m[i - Len(h)]
    BY <1>2, <1>6, ConcatProperties
  <2> QED BY <1>1, <1>6, <1>8, <2>1
<1>10. FrameOf(m) = g \o e
  BY <1>1, <1>4, <1>5, <1>8 DEF FrameOf
<1>11. /\ FrameOf(m) \in Seq(Byte) /\ Len(FrameOf(m)) = 4 + n + 1
       /\ \A i \in 1 .. 4 + n + 1 : FrameOf(m)[i] = IF i <= 4 + n THEN g[i] ELSE e[i - (4 + n)]
  <2>1. /\ g \o e \in Seq(Byte) /\ Len(g \o e) = Len(g) + Len(e)
        /\ \A i \in 1 .. Len(g) + Len(e) : (g \o e)[i] = IF i <= Len(g) THEN g[i] ELSE e[i - Len(g)]
    BY <1>7, <1>9, ConcatProperties
  <2> QED BY <1>1, <1>7, <1>9, <1>10, <2>1
<1>12. FrameOf(m)[4 + n + 1] = SumOf(m)
  BY <1>1, <1>5, <1>11
<1>13. \A i \in 1 .. n : FrameOf(m)[4 + i] = m[i]
  BY <1>1, <1>9, <1>11
<1>14. \A i \in 1 .. 4 : FrameOf(m)[i] = h[i]
  BY <1>1, <1>9, <1>11
<1>15. HasHead(FrameOf(m)) /\ Claimed(FrameOf(m)) = n
  <2>1. /\ FrameOf(m)[1] = HEAD_1 /\ FrameOf(m)[2] = HEAD_2
        /\ FrameOf(m)[3] = n % 256 /\ FrameOf(m)[4] = n \div 256
    BY <1>4, <1>14
  <2> QED BY <1>3, <2>1 DEF HasHead, Claimed
<1> QED BY <1>1, <1>11, <1>12, <1>13, <1>15

\* The bytes and the messages of a pair.
LEMMA PairParts ==
  ASSUME NEW p \in Pair
  PROVE  p[1] \in Seq(Byte) /\ p[2] \in Seq(Message) /\ p = <<p[1], p[2]>>
BY DEF Pair

\* Joining has a neutral element and is associative.
LEMMA JoinLaws ==
  /\ Nil \in Pair
  /\ \A p, q \in Pair : Join(p, q) \in Pair
  /\ \A p \in Pair : Join(p, Nil) = p /\ Join(Nil, p) = p
  /\ \A p, q, r \in Pair : Join(Join(p, q), r) = Join(p, Join(q, r))
<1>1. Nil \in Pair
  BY EmptySeq DEF Pair, Nil
<1>2. ASSUME NEW p \in Pair, NEW q \in Pair PROVE Join(p, q) \in Pair
  <2>1. p[1] \o q[1] \in Seq(Byte) /\ p[2] \o q[2] \in Seq(Message)
    BY PairParts, ConcatProperties
  <2> QED BY <2>1 DEF Join, Pair
<1>3. ASSUME NEW p \in Pair PROVE Join(p, Nil) = p /\ Join(Nil, p) = p
  <2>1. /\ p[1] \o <<>> = p[1] /\ <<>> \o p[1] = p[1]
        /\ p[2] \o <<>> = p[2] /\ <<>> \o p[2] = p[2]
    BY PairParts, ConcatEmptySeq
  <2> QED BY <2>1, PairParts DEF Join, Nil
<1>4. ASSUME NEW p \in Pair, NEW q \in Pair, NEW r \in Pair
      PROVE  Join(Join(p, q), r) = Join(p, Join(q, r))
  <2>1. (p[1] \o q[1]) \o r[1] = p[1] \o (q[1] \o r[1])
    <3>1. PICK s, t, u \in Seq(Byte) : s = p[1] /\ t = q[1] /\ u = r[1]
      BY PairParts
    <3>2. (s \o t) \o u = s \o (t \o u)
      BY ConcatAssociative
    <3> QED BY <3>1, <3>2
  <2>2. (p[2] \o q[2]) \o r[2] = p[2] \o (q[2] \o r[2])
    <3>1. PICK s, t, u \in Seq(Message) : s = p[2] /\ t = q[2] /\ u = r[2]
      BY PairParts
    <3>2. (s \o t) \o u = s \o (t \o u)
      BY ConcatAssociative
    <3> QED BY <3>1, <3>2
  <2> QED BY <2>1, <2>2 DEF Join
<1> QED BY <1>1, <1>2, <1>3, <1>4

\* What clients send besides frames are bytes.
LEMMA JunkBytes == Junk \subseteq Seq(Byte)
BY FramingAssumption

\* Items are bytes with the messages in them.
LEMMA ItemsArePairs == Items \subseteq Pair
<1>1. ASSUME NEW m \in Message PROVE <<FrameOf(m), <<m>>>> \in Pair
  <2>1. <<m>> \in Seq(Message)
    OBVIOUS
  <2> QED BY <2>1, FrameShape DEF Pair
<1>2. ASSUME NEW j \in Seq(Byte) PROVE <<j, <<>>>> \in Pair
  BY EmptySeq DEF Pair
<1> QED BY <1>1, <1>2, JunkBytes DEF Items

\* The streams are the least set that grows.
LEMMA LeastStreams ==
  /\ Streams \subseteq Pair /\ Grows(Streams)
  /\ \A R \in SUBSET Pair : Grows(R) => Streams \subseteq R
<1>1. Streams \subseteq Pair /\ \A R \in SUBSET Pair : Grows(R) => Streams \subseteq R
  BY DEF Streams
<1>2. Nil \in Streams
  BY JoinLaws DEF Streams, Grows
<1>3. ASSUME NEW i \in Items, NEW p \in Streams PROVE Join(i, p) \in Streams
  <2>1. Join(i, p) \in Pair
    BY <1>1, ItemsArePairs, JoinLaws
  <2>2. ASSUME NEW R \in SUBSET Pair, Grows(R) PROVE Join(i, p) \in R
    BY <1>1, <2>2 DEF Grows
  <2> QED BY <2>1, <2>2 DEF Streams
<1> QED BY <1>1, <1>2, <1>3 DEF Grows

\* An item alone is a stream.
LEMMA ItemsAreStreams == Items \subseteq Streams
BY LeastStreams, JoinLaws, ItemsArePairs DEF Grows

\* A stream can be sent after another.
LEMMA StreamsJoin == \A p, q \in Streams : Join(p, q) \in Streams
<1> DEFINE R == {p \in Streams : \A q \in Streams : Join(p, q) \in Streams}
<1>1. R \subseteq Pair /\ R \subseteq Streams
  BY LeastStreams
<1>2. Nil \in R
  BY LeastStreams, JoinLaws DEF Grows
<1>3. ASSUME NEW i \in Items, NEW p \in R PROVE Join(i, p) \in R
  <2>1. Join(i, p) \in Streams
    BY LeastStreams DEF Grows
  <2>2. ASSUME NEW q \in Streams PROVE Join(Join(i, p), q) \in Streams
    <3>1. Join(p, q) \in Streams
      OBVIOUS
    <3>2. Join(i, Join(p, q)) \in Streams
      BY <3>1, LeastStreams DEF Grows
    <3>3. i \in Pair /\ p \in Pair /\ q \in Pair
      BY <1>1, ItemsArePairs, LeastStreams
    <3> QED BY <3>2, <3>3, JoinLaws
  <2> QED BY <2>1, <2>2
<1>4. Streams \subseteq R
  <2> HIDE DEF R
  <2> QED BY <1>1, <1>2, <1>3, LeastStreams DEF Grows
<1> QED BY <1>4

\* A stream is empty, or starts with an item.
LEMMA StreamsFirst ==
  ASSUME NEW p \in Streams, p # Nil
  PROVE  \E i \in Items, q \in Streams : i[1] # <<>> /\ p = Join(i, q)
<1> DEFINE Starts(r) == \E i \in Items, q \in Streams : i[1] # <<>> /\ r = Join(i, q)
           R == {r \in Streams : r = Nil \/ Starts(r)}
<1>1. R \subseteq Pair /\ Nil \in R
  BY LeastStreams DEF Grows
<1>2. ASSUME NEW i \in Items, NEW r \in R PROVE Join(i, r) \in R
  <2>1. Join(i, r) \in Streams
    BY LeastStreams DEF Grows
  <2>2. CASE i[1] # <<>>
    BY <2>1, <2>2
  <2>3. CASE i[1] = <<>>
    <3>1. i = Nil
      <4>1. ASSUME NEW m \in Message, i = <<FrameOf(m), <<m>>>> PROVE FALSE
        <5>1. FrameOf(m) = <<>>
          BY <2>3, <4>1
        <5>2. Len(FrameOf(m)) = Len(m) + 5 /\ Len(m) \in Nat
          BY FrameShape, MessageSize
        <5> QED BY <5>1, <5>2
      <4> QED BY <2>3, <4>1 DEF Items, Nil
    <3>2. Join(i, r) = r
      BY <1>1, <3>1, JoinLaws
    <3> QED BY <3>2
  <2> QED BY <2>2, <2>3
<1>3. Streams \subseteq R
  <2> HIDE DEF R
  <2> QED BY <1>1, <1>2, LeastStreams DEF Grows
<1> QED BY <1>3

\* Nothing is missing of a stream without bytes.
LEMMA StreamsEnd ==
  ASSUME NEW p \in Streams, p[1] = <<>>
  PROVE  p[2] = <<>>
<1> SUFFICES ASSUME p # Nil PROVE FALSE
  BY DEF Nil
<1>1. PICK i \in Items, q \in Streams : i[1] # <<>> /\ p = Join(i, q)
  BY StreamsFirst
<1>2. i[1] \in Seq(Byte) /\ q[1] \in Seq(Byte)
  BY ItemsArePairs, LeastStreams, PairParts
<1>3. i[1] \o q[1] = <<>>
  BY <1>1 DEF Join
<1> QED BY <1>1, <1>2, <1>3, ConcatEqualIffEmpty

-----------------------------------------------------------------------------
(* Types, and the bounds of contentBuf *)

SafeInv == TypeOK /\ ContentInBounds

\* What is read from input is a byte; what is put in it are bytes.
LEMMA InputBytes ==
  ASSUME TypeOK
  PROVE  /\ input # <<>> => Head(input) \in Byte /\ Tail(input) \in Seq(Byte)
         /\ \A n \in Nat : n <= Len(wire) =>
              SubSeq(wire, 1, n) \in Seq(Byte) /\ SubSeq(wire, n + 1, Len(wire)) \in Seq(Byte)
<1>1. input \in Seq(Byte) /\ wire \in Seq(Byte)
  BY DEF TypeOK
<1>2. input # <<>> => Head(input) \in Byte /\ Tail(input) \in Seq(Byte)
  BY <1>1, HeadTailProperties
<1>3. ASSUME NEW n \in Nat, n <= Len(wire)
      PROVE  SubSeq(wire, 1, n) \in Seq(Byte) /\ SubSeq(wire, n + 1, Len(wire)) \in Seq(Byte)
  <2>1. Len(wire) \in Nat /\ \A i \in 1 .. Len(wire) : wire[i] \in Byte
    BY <1>1, LenProperties, ElementOfSeq
  <2>2. \A i \in 1 .. n : wire[i] \in Byte
    BY <1>3, <2>1
  <2>3. \A i \in n + 1 .. Len(wire) : wire[i] \in Byte
    BY <1>3, <2>1
  <2> QED BY <2>1, <2>2, <2>3, SubSeqProperties
<1> QED BY <1>2, <1>3

\* Content is a sequence of bytes when its length is within bounds.
LEMMA ContentBytes ==
  ASSUME TypeOK, proclen <= PROC_CONTENT_LEN
  PROVE  Content \in Seq(Byte) /\ Len(Content) = proclen
         /\ \A i \in 1 .. proclen : Content[i] = contentBuf[i - 1]
<1>1. proclen \in Nat /\ contentBuf \in [0 .. PROC_CONTENT_LEN - 1 -> Byte]
  BY WordBounds DEF TypeOK
<1>2. \A i \in 1 .. proclen : contentBuf[i - 1] \in Byte
  BY <1>1, Sizes
<1> QED BY <1>1, <1>2 DEF Content

\* contentBuf holds bytes after its memset.
LEMMA ZeroedBytes == Zeroed \in [0 .. PROC_CONTENT_LEN - 1 -> Byte] /\ 0 \in Byte /\ 0 \in Word
BY ByteBounds, WordBounds DEF Zeroed

\* A parser that has just been initialised.
LEMMA InitSafe == Init => SafeInv
BY ZeroedBytes, Sizes, EmptySeq DEF Init, SafeInv, TypeOK, ContentInBounds, ProcState

\* Writing one byte keeps contentBuf a buffer of bytes.
LEMMA ExceptBytes ==
  ASSUME NEW A, NEW S, NEW f \in [A -> S], NEW k, NEW b \in S
  PROVE  [f EXCEPT ![k] = b] \in [A -> S]
OBVIOUS

\* The states in which getProc consumes a byte.
LEMMA ConsumeSafe ==
  ASSUME SafeInv, Find1stHead \/ Find2ndHead \/ GetLenL \/ GetLenH \/ GetData \/ CheckSum
  PROVE  SafeInv'
<1> USE DEF SafeInv
<1>1. /\ Head(input) \in Byte /\ input' \in Seq(Byte) /\ wire' \in Seq(Byte)
      /\ expected' \in Seq(Message)
  <2>1. input # <<>> /\ input' = Tail(input) /\ UNCHANGED <<wire, expected>>
    BY DEF Find1stHead, Find2ndHead, GetLenL, GetLenH, GetData, CheckSum, Consume
  <2>2. Head(input) \in Byte /\ Tail(input) \in Seq(Byte)
    BY <2>1, InputBytes
  <2>3. wire \in Seq(Byte) /\ expected \in Seq(Message)
    BY DEF TypeOK
  <2> QED BY <2>1, <2>2, <2>3
<1>2. PICK b \in Int : b = Head(input) /\ 0 <= b /\ b <= 255
  BY <1>1, ByteBounds
<1>3. proclen \in Int /\ 0 <= proclen /\ proclen <= 65535
  BY WordBounds DEF TypeOK
<1>4. CASE Find1stHead \/ Find2ndHead
  BY <1>1, <1>4, ZeroedBytes DEF Find1stHead, Find2ndHead, Consume, TypeOK, ContentInBounds, ProcState
<1>5. CASE GetLenL
  <2>1. proclen' \in Word
    <3>1. proclen' = b + 256 * (proclen \div 256)
      BY <1>2, <1>5 DEF GetLenL
    <3>2. proclen' \in Int /\ 0 <= proclen' /\ proclen' <= 65535
      BY <1>2, <1>3, <3>1, SMT
    <3> QED BY <3>2, WordBounds
  <2> QED BY <1>1, <1>5, <2>1 DEF GetLenL, Consume, TypeOK, ContentInBounds, ProcState
<1>6. CASE GetLenH
  <2>1. proclen' \in Word /\ proclen' \in Int
    <3>1. proclen' = (proclen % 256) + 256 * b
      BY <1>2, <1>6 DEF GetLenH
    <3>2. proclen' \in Int /\ 0 <= proclen' /\ proclen' <= 65535
      BY <1>2, <1>3, <3>1, SMT
    <3> QED BY <3>2, WordBounds
  <2>2. /\ UNCHANGED <<pc, contentBuf, isLocked, sum>>
        /\ \/ procState' = "PROC_FIND_1ST_HEAD" /\ pWrite_contentBuf' = pWrite_contentBuf
           \/ procState' = "PROC_GET_DATA" /\ pWrite_contentBuf' = 0 /\ proclen' <= PROC_CONTENT_LEN
    BY <1>6, <2>1, Sizes DEF GetLenH
  <2> QED BY <1>1, <2>1, <2>2, Sizes, ZeroedBytes DEF TypeOK, ContentInBounds, ProcState
<1>7. CASE GetData
  <2>1. pWrite_contentBuf \in Int /\ 0 <= pWrite_contentBuf /\ pWrite_contentBuf < PROC_CONTENT_LEN
        /\ proclen <= PROC_CONTENT_LEN
    BY <1>7, WordBounds DEF GetData, Consume, TypeOK, ContentInBounds
  <2>2. pWrite_contentBuf' = pWrite_contentBuf + 1 /\ pWrite_contentBuf' \in Word
    <3>1. (pWrite_contentBuf + 1) % 65536 = pWrite_contentBuf + 1
      BY <2>1, Sizes, SMT
    <3>2. pWrite_contentBuf' = pWrite_contentBuf + 1
      BY <1>7, <3>1 DEF GetData
    <3> QED BY <2>1, <3>2, Sizes, WordBounds, SMT
  <2>3. contentBuf' \in [0 .. PROC_CONTENT_LEN - 1 -> Byte]
    <3>1. contentBuf \in [0 .. PROC_CONTENT_LEN - 1 -> Byte]
      BY DEF TypeOK
    <3>2. \/ contentBuf' = contentBuf
          \/ contentBuf' = [contentBuf EXCEPT ![pWrite_contentBuf % PROC_CONTENT_LEN] = Head(input)]
      BY <1>7 DEF GetData
    <3> QED BY <1>1, <3>1, <3>2, ExceptBytes
  <2>4. /\ procState' = IF pWrite_contentBuf' >= proclen THEN "PROC_CHECK_SUM" ELSE procState
        /\ procState = "PROC_GET_DATA" /\ UNCHANGED <<pc, proclen, isLocked, sum>>
    BY <1>7 DEF GetData, Consume
  <2>5. ContentInBounds'
    BY <1>3, <2>1, <2>2, <2>4, Sizes DEF ContentInBounds
  <2>6. TypeOK'
    BY <1>1, <2>2, <2>3, <2>4 DEF TypeOK, ProcState
  <2> QED BY <2>5, <2>6
<1>8. CASE CheckSum
  <2>1. sum' \in Byte
    <3>1. proclen <= PROC_CONTENT_LEN
      BY <1>8 DEF CheckSum, Consume, ContentInBounds
    <3>2. sum \in Int /\ SumOf(Content) \in Int
      BY <3>1, ContentBytes, SumIsByte, ByteBounds DEF TypeOK
    <3>3. sum' = (sum + SumOf(Content)) % 256
      BY <1>8 DEF CheckSum
    <3>4. sum' \in Int /\ 0 <= sum' /\ sum' <= 255
      BY <3>2, <3>3, SMT
    <3> QED BY <3>4, ByteBounds
  <2> QED BY <1>1, <1>8, <2>1 DEF CheckSum, Consume, TypeOK, ContentInBounds, ProcState
<1> QED BY <1>4, <1>5, <1>6, <1>7, <1>8

\* Every step of the client and the session keeps types and bounds.
LEMMA NextSafe == SafeInv /\ [Next]_vars => SafeInv'
<1> SUFFICES ASSUME SafeInv, [Next]_vars PROVE SafeInv'
  OBVIOUS
<1> USE DEF SafeInv
<1>1. ASSUME NEW m \in Message, SendMessage(m) PROVE SafeInv'
  <2>1. wire' \in Seq(Byte)
    <3>1. wire \in Seq(Byte) /\ FrameOf(m) \in Seq(Byte) /\ wire' = wire \o FrameOf(m)
      BY <1>1, FrameShape DEF SendMessage, TypeOK
    <3> QED BY <3>1, ConcatProperties
  <2>2. expected' \in Seq(Message)
    BY <1>1 DEF SendMessage, TypeOK
  <2> QED BY <1>1, <2>1, <2>2 DEF SendMessage, parserVars, TypeOK, ContentInBounds
<1>2. ASSUME NEW j \in Junk, SendJunk(j) PROVE SafeInv'
  <2>1. wire' \in Seq(Byte)
    <3>1. wire \in Seq(Byte) /\ j \in Seq(Byte) /\ wire' = wire \o j
      BY <1>2, JunkBytes DEF SendJunk, TypeOK
    <3> QED BY <3>1, ConcatProperties
  <2> QED BY <1>2, <2>1 DEF SendJunk, parserVars, TypeOK, ContentInBounds
<1>3. ASSUME NEW n \in 1 .. ChunkMax, ReadSocket(n) PROVE SafeInv'
  <2>1. n \in Nat /\ n <= Len(wire)
    BY <1>3, Sizes DEF ReadSocket
  <2>2. SubSeq(wire, 1, n) \in Seq(Byte) /\ wire' \in Seq(Byte)
    BY <1>3, <2>1, InputBytes DEF ReadSocket
  <2>3. input' \in Seq(Byte)
    BY <1>3, <2>2, ConcatProperties DEF ReadSocket, TypeOK
  <2> QED BY <1>3, <2>2, <2>3, ZeroedBytes DEF ReadSocket, TypeOK, ContentInBounds
<1>4. CASE EndSession
  <2>1. /\ pc' = pc /\ procState' = "PROC_FIND_1ST_HEAD" /\ contentBuf' = Zeroed
        /\ proclen' = 0 /\ pWrite_contentBuf' = 0 /\ isLocked' = FALSE /\ sum' = 0
        /\ input' = <<>> /\ wire' = <<>> /\ expected' = <<>>
    BY <1>4 DEF EndSession
  <2>2. ContentInBounds'
    BY <2>1, Sizes DEF ContentInBounds
  <2>3. input' \in Seq(Byte) /\ wire' \in Seq(Byte) /\ expected' \in Seq(Message)
    BY <2>1, EmptySeq
  <2>4. TypeOK'
    BY <2>1, <2>3, ZeroedBytes DEF TypeOK, ProcState
  <2> QED BY <2>2, <2>4
<1>5. CASE NotFound
  BY <1>5 DEF NotFound, parserVars, TypeOK, ContentInBounds
<1>6. CASE Handle \/ Unmatched
  <2>1. [i \in DOMAIN contentBuf |-> IF i < 4 THEN 0 ELSE contentBuf[i]]
          \in [0 .. PROC_CONTENT_LEN - 1 -> Byte]
    BY ZeroedBytes DEF TypeOK
  <2>2. Served \in Seq(Message)
    BY HeadTailProperties DEF TypeOK, Served
  <2> QED BY <1>6, <2>1, <2>2, ZeroedBytes DEF Handle, Unmatched, TypeOK, ContentInBounds
<1>7. CASE UNCHANGED vars
  BY <1>7 DEF vars, TypeOK, ContentInBounds
<1> QED BY <1>1, <1>2, <1>3, <1>4, <1>5, <1>6, <1>7, ConsumeSafe DEF Next, Session

\* The parser's variables keep their types.
THEOREM ParserTypeCorrect == Spec => []TypeOK
<1>1. Init => SafeInv
  BY InitSafe
<1>2. SafeInv /\ [Next]_vars => SafeInv'
  BY NextSafe
<1>3. SafeInv => TypeOK
  BY DEF SafeInv
<1> QED BY <1>1, <1>2, <1>3, PTL DEF Spec

\* Nothing is written or read behind contentBuf, whatever clients send: no assumption on
\* Junk but that it consists of bytes.
THEOREM BoundsKept == Spec => []ContentInBounds
<1>1. Init => SafeInv
  BY InitSafe
<1>2. SafeInv /\ [Next]_vars => SafeInv'
  BY NextSafe
<1>3. SafeInv => ContentInBounds
  BY DEF SafeInv
<1> QED BY <1>1, <1>2, <1>3, PTL DEF Spec

-----------------------------------------------------------------------------
(* Items *)

\* Junk that does not lead getProc astray; a damaged frame may, but not at one byte per
\* recv (the run Framing_stale_sum shows what it does otherwise).
Undisturbed == \A j \in Junk : Stray(j) \/ (ChunkMax = 1 /\ BadSum(j))
Undamaged   == \A j \in Junk : Stray(j)
AllKnown    == /\ 0 \in Known
               /\ \A m \in Message : m[1] \in Known
               /\ \A j \in Junk : BadSum(j) => j[5] \in Known

\* the bytes getProc takes for the content of a frame of length n
Size(n) == IF n = 0 THEN 1 ELSE n

Intact(i) == \E m \in Message : i = <<FrameOf(m), <<m>>>>

\* what there is to know of an item that starts with HEAD_1
Shape(i) ==
  LET j == i[1] IN
  /\ Len(j) >= 2
  /\ j[2] # HEAD_2 => Len(j) = 2 /\ i[2] = <<>>
  /\ j[2] = HEAD_2 =>
       /\ Len(j) >= 4 /\ j[3] \in Byte /\ j[4] \in Byte
       /\ Claimed(j) > PROC_CONTENT_LEN => Len(j) = 4 /\ i[2] = <<>>
       /\ Claimed(j) <= PROC_CONTENT_LEN =>
            /\ Len(j) = 5 + Size(Claimed(j))
            /\ IF Claimed(j) = 0
                 THEN i[2] = <<>>
                 ELSE \/ Intact(i)
                      \/ i[2] = <<>> /\ ChunkMax = 1 /\ BadSum(j)

\* Of the kinds of junk only noise begins with another byte than HEAD_1.
LEMMA NotHead ==
  ASSUME NEW j \in Seq(Byte), Noise(j) \/ j[1] # HEAD_1, j # <<>>,
         Noise(j) \/ LoneHead(j) \/ TooLong(j) \/ Empty(j) \/ BadSum(j)
  PROVE  Noise(j) /\ j[1] # HEAD_1
<1>1. Len(j) \in Nat \ {0}
  BY EmptySeq
<1> QED BY <1>1 DEF Noise, LoneHead, TooLong, Empty, BadSum, HasHead

\* A message in its frame has the shape of an item that getProc follows.
LEMMA IntactShape ==
  ASSUME NEW i \in Items, Intact(i)
  PROVE  i[1] # <<>> /\ i[1][1] = HEAD_1 /\ Shape(i)
<1>1. PICK m \in Message : i = <<FrameOf(m), <<m>>>>
  BY DEF Intact
<1>2. PICK j : j = FrameOf(m)
  OBVIOUS
<1>3. PICK n \in Nat : n = Len(m) /\ 1 <= n /\ n <= PROC_CONTENT_LEN
  BY MessageSize
<1>4. j \in Seq(Byte) /\ Len(j) = n + 5 /\ j[1] = HEAD_1 /\ j[2] = HEAD_2 /\ Claimed(j) = n
  BY <1>2, <1>3, FrameShape DEF HasHead
<1>5. j[3] \in Byte /\ j[4] \in Byte
  <2>1. 3 \in 1 .. Len(j) /\ 4 \in 1 .. Len(j)
    BY <1>4
  <2> QED BY <1>4, <2>1, ElementOfSeq
<1>6. j # <<>>
  BY <1>3, <1>4
<1>7. i[1] = j /\ n # 0 /\ Size(n) = n /\ ~(n > PROC_CONTENT_LEN)
  BY <1>1, <1>2, <1>3, Sizes DEF Size
<1>8. Len(j) >= 4 /\ Len(j) >= 2 /\ Len(j) = 5 + n
  BY <1>4
<1> QED BY <1>4, <1>5, <1>6, <1>7, <1>8 DEF Shape

\* So has junk that begins with HEAD_1.
LEMMA JunkShape ==
  ASSUME NEW j \in Seq(Byte), j # <<>>, j[1] = HEAD_1,
         Stray(j) \/ (ChunkMax = 1 /\ BadSum(j)), NEW i, i[1] = j, i[2] = <<>>
  PROVE  Shape(i)
<1>1. PICK n \in Nat : n = Len(j) /\ n >= 1
  BY EmptySeq
<1>2. ASSUME n >= 4 PROVE j[3] \in Byte /\ j[4] \in Byte /\ Claimed(j) \in Nat
  <2>1. j[3] \in Byte /\ j[4] \in Byte
    <3>1. 3 \in 1 .. Len(j) /\ 4 \in 1 .. Len(j)
      BY <1>1, <1>2
    <3> QED BY <3>1, ElementOfSeq
  <2> QED BY <2>1, ByteBounds DEF Claimed
<1>3. ~Noise(j)
  BY <1>1 DEF Noise
<1>4. CASE LoneHead(j)
  <2>1. Len(j) = 2 /\ j[2] # HEAD_2
    BY <1>4 DEF LoneHead
  <2>2. Len(j) >= 2
    BY <2>1
  <2> QED BY <2>1, <2>2 DEF Shape
<1>5. CASE TooLong(j)
  <2>1. n = 4 /\ j[2] = HEAD_2 /\ Claimed(j) > PROC_CONTENT_LEN
    BY <1>1, <1>5 DEF TooLong, HasHead
  <2>2. /\ n >= 4 /\ n >= 2 /\ ~(Claimed(j) <= PROC_CONTENT_LEN)
        /\ j[3] \in Byte /\ j[4] \in Byte
    BY <1>2, <2>1, Sizes
  <2> QED BY <1>1, <2>1, <2>2 DEF Shape
<1>6. CASE Empty(j)
  <2>1. n = 6 /\ j[2] = HEAD_2 /\ Claimed(j) = 0 /\ Size(0) = 1
    BY <1>1, <1>6 DEF Empty, HasHead, Size
  <2>2. /\ n >= 4 /\ n >= 2 /\ ~(Claimed(j) > PROC_CONTENT_LEN)
        /\ n = 5 + Size(Claimed(j)) /\ j[3] \in Byte /\ j[4] \in Byte
    BY <1>2, <2>1, Sizes
  <2> QED BY <1>1, <2>1, <2>2 DEF Shape
<1>7. CASE ChunkMax = 1 /\ BadSum(j)
  <2>1. n > 5 /\ j[2] = HEAD_2 /\ Claimed(j) = n - 5 /\ Claimed(j) <= PROC_CONTENT_LEN
    BY <1>1, <1>7 DEF BadSum, HasHead
  <2>2. Size(Claimed(j)) = n - 5 /\ ~(Claimed(j) > PROC_CONTENT_LEN) /\ Claimed(j) # 0
    BY <1>1, <2>1, Sizes DEF Size
  <2> QED BY <1>1, <1>2, <1>7, <2>1, <2>2 DEF Shape
<1> QED BY <1>3, <1>4, <1>5, <1>6, <1>7 DEF Stray

\* An item is a run of bytes that are no head, or has the shape of a frame.
LEMMA ItemKinds ==
  ASSUME Undisturbed, NEW i \in Items, i[1] # <<>>
  PROVE  IF i[1][1] = HEAD_1 THEN Shape(i) ELSE Noise(i[1]) /\ i[2] = <<>>
<1>1. CASE Intact(i)
  BY <1>1, IntactShape
<1>2. ASSUME NEW j \in Seq(Byte), i = <<j, <<>>>>, Stray(j) \/ (ChunkMax = 1 /\ BadSum(j))
      PROVE  IF i[1][1] = HEAD_1 THEN Shape(i) ELSE Noise(i[1]) /\ i[2] = <<>>
  <2>1. i[1] = j /\ i[2] = <<>> /\ j # <<>>
    BY <1>2
  <2>2. j[1] # HEAD_1 => Noise(j)
    BY <1>2, <2>1, NotHead DEF Stray
  <2>3. j[1] = HEAD_1 => Shape(i)
    BY <1>2, <2>1, JunkShape
  <2> QED BY <2>1, <2>2, <2>3
<1>3. ASSUME NEW j \in Junk PROVE j \in Seq(Byte) /\ (Stray(j) \/ (ChunkMax = 1 /\ BadSum(j)))
  BY JunkBytes DEF Undisturbed
<1>4. ASSUME NEW j \in Seq(Byte), Noise(j) PROVE Stray(j)
  BY <1>4 DEF Stray
<1> QED BY <1>1, <1>2, <1>3, <1>4 DEF Items, Intact

\* Without damaged frames every item that claims a content is an intact frame.
LEMMA UndamagedKinds ==
  ASSUME Undamaged, NEW i \in Items
  PROVE  Undisturbed /\ (Intact(i) \/ ~BadSum(i[1]))
<1>1. ASSUME NEW j \in Seq(Byte), Stray(j), BadSum(j) PROVE FALSE
  <2>1. Len(j) \in Nat /\ Len(j) > 5 /\ j[1] = HEAD_1 /\ j[2] = HEAD_2
        /\ Claimed(j) = Len(j) - 5 /\ Claimed(j) <= PROC_CONTENT_LEN
    BY <1>1, LenProperties DEF BadSum, HasHead
  <2>2. ~Noise(j)
    BY <2>1 DEF Noise
  <2>3. ~LoneHead(j)
    BY <2>1 DEF LoneHead
  <2>4. ~TooLong(j)
    BY <2>1, Sizes DEF TooLong
  <2>5. ~Empty(j)
    <3> SUFFICES ASSUME Empty(j) PROVE FALSE
      OBVIOUS
    <3>1. Len(j) = 6 /\ Claimed(j) = 0
      BY DEF Empty
    <3> QED BY <2>1, <3>1
  <2> QED BY <1>1, <2>2, <2>3, <2>4, <2>5 DEF Stray
<1>2. ASSUME NEW j \in Junk PROVE ~BadSum(j)
  BY <1>1, JunkBytes DEF Undamaged
<1>3. ASSUME NEW j \in Seq(Byte), Noise(j) PROVE ~BadSum(j)
  BY <1>1, <1>3 DEF Stray
<1>4. Undisturbed
  BY DEF Undamaged, Undisturbed
<1> QED BY <1>2, <1>3, <1>4 DEF Items, Intact

-----------------------------------------------------------------------------
(* Where getProc is in the stream *)

Coming == input \o wire

\* k bytes of the item with the bytes j have been consumed, and this is what getProc knows.
At(j, k) ==
  \/ procState = "PROC_FIND_2ND_HEAD" /\ k = 1
  \/ procState = "PROC_GET_LEN_L" /\ k = 2 /\ j[2] = HEAD_2 /\ proclen = 0
  \/ procState = "PROC_GET_LEN_H" /\ k = 3 /\ j[2] = HEAD_2 /\ proclen = j[3]
  \/ /\ procState \in {"PROC_GET_DATA", "PROC_CHECK_SUM"}
     /\ k = 4 + pWrite_contentBuf /\ j[2] = HEAD_2
     /\ proclen = Claimed(j) /\ proclen <= PROC_CONTENT_LEN
     /\ IF procState = "PROC_GET_DATA" THEN pWrite_contentBuf < Size(proclen)
                                       ELSE pWrite_contentBuf = Size(proclen)
     /\ proclen # 0 => \A a \in 1 .. pWrite_contentBuf : contentBuf[a - 1] = j[4 + a]

Rest(j, k, r) == r \in Seq(Byte) /\ Len(r) = Len(j) - k /\ \A a \in 1 .. Len(r) : r[a] = j[k + a]

\* Of the bytes to come and the messages undispatched, h is the part that belongs to the
\* item getProc is in; what follows is a stream.
Pending(h) ==
  IF pc = "dispatch"
    THEN /\ procState = "PROC_FIND_1ST_HEAD" /\ pWrite_contentBuf = Size(proclen)
         /\ h[1] = <<>> /\ h[2] = IF proclen = 0 THEN <<>> ELSE <<Content>>
    ELSE IF procState = "PROC_FIND_1ST_HEAD"
    THEN h = Nil
    ELSE \E i \in Items, k \in Nat :
           /\ 1 <= k /\ k < Len(i[1]) /\ i[1][1] = HEAD_1
           /\ At(i[1], k) /\ Rest(i[1], k, h[1]) /\ h[2] = i[2]

Ahead(h, q) == Pending(h) /\ <<Coming, expected>> = Join(h, q)

\* While the channel is locked outside a handler, nothing is claimed: the session does
\* not read on.
ParseInv ==
  /\ pc \in {"dispatch", "faulted"} => isLocked
  /\ pc = "dispatch" \/ ~isLocked => \E h \in Pair, q \in Streams : Ahead(h, q)

\* One call of getProc: sum is 0 before every byte it consumes.
CallInv ==
  /\ Len(input) <= ChunkMax
  /\ pc = "recv" /\ ~isLocked => input = <<>>
  /\ pc = "getProc" /\ ~isLocked => sum = 0 \/ (ChunkMax = 1 /\ input = <<>>)

\* Taking the first byte of the input takes the first of all bytes to come.
LEMMA HeadTailConcat ==
  ASSUME NEW S, NEW s \in Seq(S), NEW t \in Seq(S), s # <<>>
  PROVE  /\ s \o t # <<>> /\ Head(s \o t) = s[1]
         /\ Tail(s \o t) = Tail(s) \o t
<1>1. PICK m, n \in Nat : m = Len(s) /\ n = Len(t) /\ m >= 1
  BY LenProperties, EmptySeq
<1>2. /\ s \o t \in Seq(S) /\ Len(s \o t) = m + n
      /\ \A a \in 1 .. m + n : (s \o t)[a] = IF a <= m THEN s[a] ELSE t[a - m]
  BY <1>1, ConcatProperties
<1>3. s \o t # <<>>
  BY <1>1, <1>2, EmptySeq
<1>4. /\ Tail(s \o t) \in Seq(S) /\ Len(Tail(s \o t)) = m + n - 1
      /\ \A a \in 1 .. m + n - 1 : Tail(s \o t)[a] = (s \o t)[a + 1]
  BY <1>2, <1>3, HeadTailProperties
<1>5. /\ Tail(s) \in Seq(S) /\ Len(Tail(s)) = m - 1
      /\ \A a \in 1 .. m - 1 : Tail(s)[a] = s[a + 1]
  BY <1>1, HeadTailProperties
<1>6. /\ Tail(s) \o t \in Seq(S) /\ Len(Tail(s) \o t) = m - 1 + n
      /\ \A a \in 1 .. m - 1 + n :
           (Tail(s) \o t)[a] = IF a <= m - 1 THEN Tail(s)[a] ELSE t[a - (m - 1)]
  BY <1>1, <1>5, ConcatProperties
<1>7. ASSUME NEW a \in 1 .. m + n - 1 PROVE Tail(s \o t)[a] = (Tail(s) \o t)[a]
  <2>1. a + 1 \in 1 .. m + n /\ a \in 1 .. m - 1 + n /\ (a <= m - 1 <=> a + 1 <= m)
        /\ a - (m - 1) = a + 1 - m
    BY <1>1
  <2>2. a <= m - 1 => a \in 1 .. m - 1
    BY <1>1
  <2> QED BY <1>2, <1>4, <1>5, <1>6, <2>1, <2>2
<1>8. Tail(s \o t) = Tail(s) \o t
  BY <1>1, <1>4, <1>6, <1>7, SeqEqual
<1>9. Head(s \o t) = s[1]
  <2>1. 1 \in 1 .. m + n /\ 1 <= m
    BY <1>1
  <2> QED BY <1>2, <1>3, <2>1
<1> QED BY <1>3, <1>8, <1>9

\* Consuming a byte of the item with the bytes j.
LEMMA Advance ==
  ASSUME TypeOK, NEW j \in Seq(Byte), NEW k \in Nat, k < Len(j),
         NEW r, Rest(j, k, r), NEW c \in Seq(Byte), Coming = r \o c,
         input # <<>>, input' = Tail(input), UNCHANGED wire
  PROVE  /\ Head(input) = j[k + 1] /\ Rest(j, k + 1, Tail(r)) /\ Coming' = Tail(r) \o c
         /\ k + 1 = Len(j) => Tail(r) = <<>> /\ Coming' = c
<1>1. PICK m \in Nat : m = Len(j) /\ k + 1 <= m
  BY LenProperties
<1>2. /\ r \in Seq(Byte) /\ Len(r) = m - k /\ r # <<>>
      /\ \A a \in 1 .. m - k : r[a] = j[k + a]
  BY <1>1, EmptySeq DEF Rest
<1>3. input \in Seq(Byte) /\ wire \in Seq(Byte)
  BY DEF TypeOK
<1>4. Head(r \o c) = r[1] /\ Tail(r \o c) = Tail(r) \o c
  BY <1>2, HeadTailConcat
<1>5. Head(input \o wire) = input[1] /\ Tail(input \o wire) = Tail(input) \o wire
  BY <1>3, HeadTailConcat
<1>6. Head(input) = j[k + 1]
  <2>1. Head(input) = input[1] /\ input \o wire = r \o c
    BY <1>3 DEF Coming
  <2>2. 1 \in 1 .. m - k
    BY <1>1
  <2> QED BY <1>2, <1>4, <1>5, <2>1, <2>2
<1>7. Coming' = Tail(r) \o c
  BY <1>4, <1>5 DEF Coming
<1>8. /\ Tail(r) \in Seq(Byte) /\ Len(Tail(r)) = m - k - 1
      /\ \A a \in 1 .. m - k - 1 : Tail(r)[a] = r[a + 1]
  <2>1. /\ Tail(r) \in Seq(Byte) /\ Len(Tail(r)) = Len(r) - 1
        /\ \A a \in 1 .. Len(Tail(r)) : Tail(r)[a] = r[a + 1]
    BY <1>2, HeadTailProperties
  <2>2. Len(Tail(r)) = m - k - 1
    BY <1>2, <2>1
  <2> QED BY <2>1, <2>2
<1>9. ASSUME NEW a \in 1 .. m - k - 1 PROVE Tail(r)[a] = j[k + 1 + a]
  <2>1. a + 1 \in 1 .. m - k /\ k + (a + 1) = k + 1 + a
    BY <1>1
  <2> QED BY <1>2, <1>8, <2>1
<1>10. Rest(j, k + 1, Tail(r))
  <2>1. Len(Tail(r)) = Len(j) - (k + 1)
    BY <1>1, <1>8
  <2>2. \A a \in 1 .. Len(Tail(r)) : Tail(r)[a] = j[k + 1 + a]
    BY <1>8, <1>9
  <2> QED BY <1>8, <2>1, <2>2 DEF Rest
<1>11. k + 1 = m => Tail(r) = <<>> /\ Coming' = c
  <2>1. k + 1 = m => Tail(r) = <<>>
    BY <1>1, <1>8, EmptySeq
  <2> QED BY <1>7, <2>1, ConcatEmptySeq
<1> QED BY <1>1, <1>6, <1>7, <1>10, <1>11

\* Pending depends on these variables only.
LEMMA PendingSame ==
  ASSUME NEW h, UNCHANGED <<procState, proclen, contentBuf, pWrite_contentBuf>>,
         pc = "dispatch" <=> pc' = "dispatch"
  PROVE  Pending(h)' <=> Pending(h)
BY DEF Pending, At, Content

\* What is to come is a pair of bytes and messages.
LEMMA Positions ==
  ASSUME TypeOK
  PROVE  Coming \in Seq(Byte) /\ expected \in Seq(Message) /\ <<Coming, expected>> \in Pair
<1>1. input \in Seq(Byte) /\ wire \in Seq(Byte) /\ expected \in Seq(Message)
  BY DEF TypeOK
<1>2. Coming \in Seq(Byte)
  BY <1>1, ConcatProperties DEF Coming
<1> QED BY <1>1, <1>2 DEF Pair

\* Sending an item: it goes to the end of the stream.
LEMMA SendStep ==
  ASSUME TypeOK, ParseInv, UNCHANGED <<pc, input, parserVars>>, NEW u \in Items,
         wire' = wire \o u[1], expected' = expected \o u[2]
  PROVE  ParseInv'
<1>1. UNCHANGED <<procState, proclen, contentBuf, pWrite_contentBuf, isLocked>>
  BY DEF parserVars
<1>2. ASSUME pc = "dispatch" \/ ~isLocked PROVE \E h \in Pair, q \in Streams : Ahead(h, q)'
  <2>1. PICK h \in Pair, q \in Streams : Ahead(h, q)
    BY <1>2 DEF ParseInv
  <2>2. Join(q, u) \in Streams
    BY ItemsAreStreams, StreamsJoin
  <2>3. u \in Pair /\ q \in Pair
    BY ItemsArePairs, LeastStreams
  <2>4. Coming' = Coming \o u[1]
    <3>1. input \in Seq(Byte) /\ wire \in Seq(Byte) /\ u[1] \in Seq(Byte)
      BY <2>3, PairParts DEF TypeOK
    <3>2. PICK s, t, v \in Seq(Byte) : s = input /\ t = wire /\ v = u[1]
      BY <3>1
    <3>3. (s \o t) \o v = s \o (t \o v)
      BY ConcatAssociative
    <3> QED BY <3>2, <3>3 DEF Coming
  <2>5. <<Coming', expected'>> = Join(<<Coming, expected>>, u)
    BY <2>4 DEF Join
  <2>6. <<Coming', expected'>> = Join(h, Join(q, u))
    <3>1. <<Coming, expected>> = Join(h, q)
      BY <2>1 DEF Ahead
    <3>2. <<Coming', expected'>> = Join(Join(h, q), u)
      BY <2>5, <3>1
    <3> QED BY <2>3, <3>2, JoinLaws
  <2>7. Pending(h)'
    BY <1>1, <2>1, PendingSame DEF Ahead
  <2>8. Ahead(h, Join(q, u))'
    BY <2>6, <2>7 DEF Ahead
  <2> QED BY <2>2, <2>8
<1> QED BY <1>1, <1>2 DEF ParseInv

\* Reading, and the end of a call of getProc: the bytes to come stay the same.
LEMMA SameStream ==
  ASSUME ParseInv, UNCHANGED <<procState, proclen, contentBuf, pWrite_contentBuf, isLocked, expected>>,
         pc \in {"recv", "getProc"}, pc' \in {"recv", "getProc"},
         ~isLocked => Coming' = Coming
  PROVE  ParseInv'
<1>1. ASSUME ~isLocked PROVE \E h \in Pair, q \in Streams : Ahead(h, q)'
  <2>1. PICK h \in Pair, q \in Streams : Ahead(h, q)
    BY <1>1 DEF ParseInv
  <2>2. Pending(h)'
    BY <2>1, PendingSame DEF Ahead
  <2>3. Ahead(h, q)'
    BY <1>1, <2>1, <2>2 DEF Ahead
  <2> QED BY <2>3
<1> QED BY <1>1 DEF ParseInv

\* getProc is done with an item.
LEMMA ItemDone ==
  ASSUME NEW q \in Streams, Coming' = q[1], expected' = q[2],
         procState' = "PROC_FIND_1ST_HEAD", pc' # "dispatch"
  PROVE  \E h \in Pair, p \in Streams : Ahead(h, p)'
<1>1. Pending(Nil)'
  BY DEF Pending
<1>2. q \in Pair /\ q = <<q[1], q[2]>>
  BY LeastStreams, PairParts
<1>3. <<Coming', expected'>> = Join(Nil, q)
  BY <1>2, JoinLaws
<1>4. Ahead(Nil, q)'
  BY <1>1, <1>3 DEF Ahead
<1> QED BY <1>4, JoinLaws

\* getProc goes on to the next byte of an item.
LEMMA MoveOn ==
  ASSUME NEW i \in Items, NEW k \in Nat, 1 <= k, k < Len(i[1]), i[1][1] = HEAD_1,
         At(i[1], k)', procState' # "PROC_FIND_1ST_HEAD", pc' # "dispatch",
         NEW r, Rest(i[1], k, r), NEW q \in Streams, Coming' = r \o q[1],
         expected' = i[2] \o q[2]
  PROVE  \E h \in Pair, p \in Streams : Ahead(h, p)'
<1>1. PICK h : h = <<r, i[2]>>
  OBVIOUS
<1>2. h \in Pair /\ h[1] = r /\ h[2] = i[2]
  BY <1>1, ItemsArePairs DEF Pair, Rest
<1>3. Pending(h)'
  BY <1>2 DEF Pending
<1>4. <<Coming', expected'>> = Join(h, q)
  BY <1>2 DEF Join
<1>5. Ahead(h, q)'
  BY <1>3, <1>4 DEF Ahead
<1> QED BY <1>2, <1>5

\* A byte consumed in the middle of an item is the item's next one.
LEMMA InItem ==
  ASSUME TypeOK, Undisturbed, ParseInv, NEW st, Consume(st), st # "PROC_FIND_1ST_HEAD"
  PROVE  \E i \in Items, k \in Nat, q \in Streams, r \in Seq(Byte) :
           /\ 1 <= k /\ k < Len(i[1]) /\ Len(i[1]) \in Nat
           /\ i[1][1] = HEAD_1 /\ At(i[1], k) /\ Shape(i)
           /\ Head(input) = i[1][k + 1] /\ Rest(i[1], k + 1, r) /\ Coming' = r \o q[1]
           /\ k + 1 = Len(i[1]) => Coming' = q[1]
           /\ expected' = i[2] \o q[2]
           /\ i[2] = <<>> => expected' = q[2]
<1>1. /\ pc # "dispatch" /\ ~isLocked /\ procState # "PROC_FIND_1ST_HEAD"
      /\ input # <<>> /\ input' = Tail(input) /\ UNCHANGED <<wire, expected>>
  BY DEF Consume
<1>2. PICK h \in Pair, q \in Streams : Ahead(h, q)
  BY <1>1 DEF ParseInv
<1>3. PICK i \in Items, k \in Nat :
           /\ 1 <= k /\ k < Len(i[1]) /\ i[1][1] = HEAD_1
           /\ At(i[1], k) /\ Rest(i[1], k, h[1]) /\ h[2] = i[2]
  BY <1>1, <1>2 DEF Ahead, Pending
<1>4. /\ i[1] \in Seq(Byte) /\ q[1] \in Seq(Byte) /\ q[2] \in Seq(Message)
      /\ Len(i[1]) \in Nat
  <2>1. i \in Pair /\ q \in Pair
    BY ItemsArePairs, LeastStreams
  <2> QED BY <2>1, PairParts, LenProperties
<1>5. Coming = h[1] \o q[1] /\ expected = h[2] \o q[2]
  BY <1>2 DEF Ahead, Join
<1>6. PICK r : r = Tail(h[1])
  OBVIOUS
<1>7. /\ Head(input) = i[1][k + 1] /\ Rest(i[1], k + 1, r) /\ Coming' = r \o q[1]
      /\ k + 1 = Len(i[1]) => Coming' = q[1]
  BY <1>1, <1>3, <1>4, <1>5, <1>6, Advance
<1>8. Shape(i)
  <2>1. i[1] # <<>>
    BY <1>3, <1>4, EmptySeq
  <2> QED BY <1>3, <2>1, ItemKinds
<1>9. i[2] = <<>> => expected' = q[2]
  BY <1>1, <1>3, <1>4, <1>5, ConcatEmptySeq
<1>10. r \in Seq(Byte)
  BY <1>7 DEF Rest
<1> QED BY <1>1, <1>3, <1>4, <1>5, <1>7, <1>8, <1>9, <1>10

\* The states in which getProc looks for the head.
LEMMA HeadSteps ==
  ASSUME SafeInv, Undisturbed, ParseInv, Find1stHead \/ Find2ndHead
  PROVE  \E h \in Pair, q \in Streams : Ahead(h, q)'
<1> USE DEF SafeInv
<1>1. CASE Find1stHead
  <2>1. /\ pc # "dispatch" /\ pc' # "dispatch" /\ ~isLocked /\ procState = "PROC_FIND_1ST_HEAD"
        /\ input # <<>> /\ input' = Tail(input) /\ UNCHANGED <<wire, expected>>
        /\ procState' = IF Head(input) = HEAD_1 THEN "PROC_FIND_2ND_HEAD" ELSE procState
    BY <1>1 DEF Find1stHead, Consume
  <2>2. PICK q \in Streams : <<Coming, expected>> = q
    <3>1. PICK h \in Pair, q \in Streams : Ahead(h, q)
      BY <2>1 DEF ParseInv
    <3>2. <<Coming, expected>> = Join(Nil, q)
      BY <2>1, <3>1 DEF Ahead, Pending
    <3>3. <<Coming, expected>> = q
      BY <3>2, LeastStreams, JoinLaws
    <3> QED BY <3>3
  <2>3. q # Nil
    <3>1. input \in Seq(Byte) /\ wire \in Seq(Byte)
      BY DEF TypeOK
    <3>2. Coming # <<>>
      BY <2>1, <3>1, ConcatEqualIffEmpty DEF Coming
    <3> QED BY <2>2, <3>2 DEF Nil
  <2>4. PICK i \in Items, p \in Streams : i[1] # <<>> /\ q = Join(i, p)
    BY <2>3, StreamsFirst
  <2>5. PICK j \in Seq(Byte) : j = i[1]
    BY ItemsArePairs, PairParts
  <2>6. PICK n \in Nat : n = Len(j) /\ n >= 1
    BY <2>4, <2>5, EmptySeq
  <2>7. p[1] \in Seq(Byte) /\ p[2] \in Seq(Message)
    BY LeastStreams, PairParts
  <2>8. Coming = j \o p[1] /\ expected = i[2] \o p[2]
    <3>1. <<Coming, expected>> = <<j \o p[1], i[2] \o p[2]>>
      BY <2>2, <2>4, <2>5 DEF Join
    <3> QED BY <3>1
  <2>9. PICK k \in Nat : k = 0 /\ Rest(j, k, j)
    BY <2>6 DEF Rest
  <2>10. PICK r : r = Tail(j)
    OBVIOUS
  <2>11. Head(input) = j[1] /\ Rest(j, 1, r) /\ Coming' = r \o p[1]
    <3>1. Head(input) = j[k + 1] /\ Rest(j, k + 1, r) /\ Coming' = r \o p[1]
      <4>1. TypeOK /\ k < Len(j) /\ input # <<>> /\ input' = Tail(input) /\ UNCHANGED wire
        BY <2>1, <2>6, <2>9
      <4>2. Coming = j \o p[1] /\ Rest(j, k, j)
        BY <2>8, <2>9
      <4> QED BY <2>7, <2>10, <4>1, <4>2, Advance
    <3> QED BY <2>9, <3>1
  <2>12. CASE j[1] = HEAD_1
    <3>1. Shape(i)
      BY <2>4, <2>5, <2>12, ItemKinds
    <3>2. Len(j) >= 2
      BY <2>5, <3>1 DEF Shape
    <3>3. procState' = "PROC_FIND_2ND_HEAD"
      BY <2>1, <2>11, <2>12
    <3>4. At(i[1], 1)'
      BY <3>3 DEF At
    <3>5. 1 < Len(i[1]) /\ i[1][1] = HEAD_1 /\ Rest(i[1], 1, r)
      BY <2>5, <2>6, <2>11, <2>12, <3>2
    <3>6. expected' = i[2] \o p[2] /\ procState' # "PROC_FIND_1ST_HEAD" /\ 1 <= 1
      BY <2>1, <2>8, <3>3
    <3> QED BY <2>1, <2>11, <3>4, <3>5, <3>6, MoveOn DEF At
  <2>13. CASE j[1] # HEAD_1
    <3>1. Noise(j) /\ i[2] = <<>>
      BY <2>4, <2>5, <2>13, ItemKinds
    <3>2. r \in Seq(Byte) /\ Noise(r)
      <4>1. /\ r \in Seq(Byte) /\ Len(r) = n - 1
            /\ \A a \in 1 .. n - 1 : r[a] = j[1 + a]
        BY <2>6, <2>11 DEF Rest
      <4>2. \A a \in 1 .. n - 1 : 1 + a \in 1 .. n
        BY <2>6
      <4> QED BY <2>6, <3>1, <4>1, <4>2 DEF Noise
    <3>3. PICK u : u = <<r, <<>>>>
      OBVIOUS
    <3>4. u \in Items /\ u[1] = r /\ u[2] = <<>>
      BY <3>2, <3>3 DEF Items
    <3>5. PICK v \in Streams : v = Join(u, p)
      BY <3>4, LeastStreams DEF Grows
    <3>6. v[1] = r \o p[1] /\ v[2] = expected
      BY <2>7, <2>8, <3>1, <3>4, <3>5, ConcatEmptySeq DEF Join
    <3>7. procState' = "PROC_FIND_1ST_HEAD"
      BY <2>1, <2>11, <2>13
    <3> QED BY <2>1, <2>11, <3>6, <3>7, ItemDone
  <2> QED BY <2>12, <2>13
<1>2. CASE Find2ndHead
  <2>1. /\ Consume("PROC_FIND_2ND_HEAD") /\ procState = "PROC_FIND_2ND_HEAD"
        /\ pc' # "dispatch"
        /\ IF Head(input) = HEAD_2
             THEN procState' = "PROC_GET_LEN_L" /\ proclen' = 0
             ELSE procState' = "PROC_FIND_1ST_HEAD"
    BY <1>2 DEF Find2ndHead, Consume
  <2>2. PICK i \in Items, k \in Nat, q \in Streams, r \in Seq(Byte) :
           /\ 1 <= k /\ k < Len(i[1]) /\ Len(i[1]) \in Nat
           /\ i[1][1] = HEAD_1 /\ At(i[1], k) /\ Shape(i)
           /\ Head(input) = i[1][k + 1] /\ Rest(i[1], k + 1, r) /\ Coming' = r \o q[1]
           /\ k + 1 = Len(i[1]) => Coming' = q[1]
           /\ expected' = i[2] \o q[2]
           /\ i[2] = <<>> => expected' = q[2]
    BY <2>1, InItem
  <2>3. k = 1 /\ k + 1 = 2
    BY <2>1, <2>2 DEF At
  <2>4. CASE i[1][2] = HEAD_2
    <3>1. Len(i[1]) >= 4
      BY <2>2, <2>4 DEF Shape
    <3>2. procState' = "PROC_GET_LEN_L" /\ proclen' = 0
      BY <2>1, <2>2, <2>3, <2>4
    <3>3. At(i[1], 2)'
      BY <2>4, <3>2 DEF At
    <3>4. 2 < Len(i[1]) /\ Rest(i[1], 2, r)
      BY <2>2, <2>3, <3>1
    <3>5. procState' # "PROC_FIND_1ST_HEAD" /\ 1 <= 2 /\ 2 \in Nat
      BY <3>2
    <3> QED BY <2>1, <2>2, <3>3, <3>4, <3>5, MoveOn DEF At
  <2>5. CASE i[1][2] # HEAD_2
    <3>1. Len(i[1]) = 2 /\ i[2] = <<>>
      BY <2>2, <2>5 DEF Shape
    <3>2. procState' = "PROC_FIND_1ST_HEAD"
      BY <2>1, <2>2, <2>3, <2>5
    <3> QED BY <2>1, <2>2, <2>3, <3>1, <3>2, ItemDone
  <2> QED BY <2>4, <2>5
<1> QED BY <1>1, <1>2

\* The states in which getProc reads the length.
LEMMA LengthSteps ==
  ASSUME SafeInv, Undisturbed, ParseInv, GetLenL \/ GetLenH
  PROVE  \E h \in Pair, q \in Streams : Ahead(h, q)'
<1> USE DEF SafeInv
<1>1. CASE GetLenL
  <2>1. /\ Consume("PROC_GET_LEN_L") /\ procState = "PROC_GET_LEN_L" /\ pc' # "dispatch"
        /\ proclen' = Head(input) + 256 * (proclen \div 256)
        /\ procState' = "PROC_GET_LEN_H"
    BY <1>1 DEF GetLenL, Consume
  <2>2. PICK i \in Items, k \in Nat, q \in Streams, r \in Seq(Byte) :
           /\ 1 <= k /\ k < Len(i[1]) /\ Len(i[1]) \in Nat
           /\ i[1][1] = HEAD_1 /\ At(i[1], k) /\ Shape(i)
           /\ Head(input) = i[1][k + 1] /\ Rest(i[1], k + 1, r) /\ Coming' = r \o q[1]
           /\ k + 1 = Len(i[1]) => Coming' = q[1]
           /\ expected' = i[2] \o q[2]
           /\ i[2] = <<>> => expected' = q[2]
    BY <2>1, InItem
  <2>3. k = 2 /\ k + 1 = 3 /\ i[1][2] = HEAD_2 /\ proclen = 0
    BY <2>1, <2>2 DEF At
  <2>4. Len(i[1]) >= 4 /\ i[1][3] \in Byte
    BY <2>2, <2>3 DEF Shape
  <2>5. proclen' = i[1][3]
    <3>1. PICK b \in Int : b = i[1][3]
      BY <2>4, ByteBounds
    <3>2. proclen' = b + 256 * (0 \div 256)
      BY <2>1, <2>2, <2>3, <3>1
    <3> QED BY <3>1, <3>2, SMT
  <2>6. At(i[1], 3)'
    BY <2>1, <2>3, <2>5 DEF At
  <2>7. /\ 1 <= 3 /\ 3 \in Nat /\ 3 < Len(i[1]) /\ Rest(i[1], 3, r)
        /\ procState' # "PROC_FIND_1ST_HEAD"
    BY <2>1, <2>2, <2>3, <2>4
  <2> QED BY <2>1, <2>2, <2>6, <2>7, MoveOn DEF At
<1>2. CASE GetLenH
  <2>1. /\ Consume("PROC_GET_LEN_H") /\ procState = "PROC_GET_LEN_H" /\ pc' # "dispatch"
        /\ proclen' = (proclen % 256) + 256 * Head(input)
        /\ IF proclen' > PROC_CONTENT_LEN
             THEN procState' = "PROC_FIND_1ST_HEAD" /\ UNCHANGED pWrite_contentBuf
             ELSE procState' = "PROC_GET_DATA" /\ pWrite_contentBuf' = 0
    BY <1>2 DEF GetLenH, Consume
  <2>2. PICK i \in Items, k \in Nat, q \in Streams, r \in Seq(Byte) :
           /\ 1 <= k /\ k < Len(i[1]) /\ Len(i[1]) \in Nat
           /\ i[1][1] = HEAD_1 /\ At(i[1], k) /\ Shape(i)
           /\ Head(input) = i[1][k + 1] /\ Rest(i[1], k + 1, r) /\ Coming' = r \o q[1]
           /\ k + 1 = Len(i[1]) => Coming' = q[1]
           /\ expected' = i[2] \o q[2]
           /\ i[2] = <<>> => expected' = q[2]
    BY <2>1, InItem
  <2>3. k = 3 /\ k + 1 = 4 /\ i[1][2] = HEAD_2 /\ proclen = i[1][3]
    BY <2>1, <2>2 DEF At
  <2>4. i[1][3] \in Byte /\ i[1][4] \in Byte
    BY <2>2, <2>3 DEF Shape
  <2>5. proclen' = Claimed(i[1]) /\ proclen' \in Nat
    <3>1. PICK a, b \in Int : a = i[1][3] /\ b = i[1][4] /\ 0 <= a /\ a <= 255 /\ 0 <= b /\ b <= 255
      BY <2>4, ByteBounds
    <3>2. proclen' = (a % 256) + 256 * b
      BY <2>1, <2>2, <2>3, <3>1
    <3>3. (a % 256) + 256 * b = a + 256 * b /\ a + 256 * b \in Nat
      <4>1. a \in Int /\ b \in Int /\ 0 <= a /\ a <= 255 /\ 0 <= b
        BY <3>1
      <4>2. a % 256 = a
        BY <4>1, SMT
      <4>3. a + 256 * b \in Nat
        BY <4>1, SMT
      <4> QED BY <4>2, <4>3
    <3>4. proclen' = a + 256 * b /\ proclen' \in Nat
      BY <3>2, <3>3
    <3> QED BY <3>1, <3>4 DEF Claimed
  <2>6. CASE proclen' > PROC_CONTENT_LEN
    <3>1. Len(i[1]) = 4 /\ i[2] = <<>>
      BY <2>2, <2>3, <2>5, <2>6 DEF Shape
    <3> QED BY <2>1, <2>2, <2>3, <2>6, <3>1, ItemDone
  <2>7. CASE ~(proclen' > PROC_CONTENT_LEN)
    <3>1. proclen' <= PROC_CONTENT_LEN /\ 0 < Size(proclen') /\ Size(proclen') \in Nat
      BY <2>5, <2>7, Sizes DEF Size
    <3>2. Len(i[1]) = 5 + Size(proclen')
      BY <2>2, <2>3, <2>5, <3>1 DEF Shape
    <3>3. procState' = "PROC_GET_DATA" /\ pWrite_contentBuf' = 0 /\ 4 = 4 + 0
      BY <2>1, <2>7
    <3>4. At(i[1], 4)'
      BY <2>3, <2>5, <3>1, <3>3 DEF At
    <3>5. /\ 1 <= 4 /\ 4 \in Nat /\ 4 < Len(i[1]) /\ Rest(i[1], 4, r)
          /\ procState' # "PROC_FIND_1ST_HEAD"
      BY <2>2, <2>3, <3>1, <3>2, <3>3
    <3> QED BY <2>1, <2>2, <3>4, <3>5, MoveOn DEF At
  <2> QED BY <2>6, <2>7
<1> QED BY <1>1, <1>2

\* A byte of the content.
LEMMA DataStep ==
  ASSUME SafeInv, Undisturbed, ParseInv, GetData
  PROVE  \E h \in Pair, q \in Streams : Ahead(h, q)'
<1> USE DEF SafeInv
<1>1. /\ Consume("PROC_GET_DATA") /\ procState = "PROC_GET_DATA" /\ pc' # "dispatch"
      /\ contentBuf' = IF pWrite_contentBuf < proclen
                     THEN [contentBuf EXCEPT ![pWrite_contentBuf % PROC_CONTENT_LEN] = Head(input)]
                     ELSE contentBuf
      /\ pWrite_contentBuf' = (pWrite_contentBuf + 1) % 65536
      /\ procState' = IF pWrite_contentBuf' >= proclen THEN "PROC_CHECK_SUM" ELSE procState
      /\ proclen' = proclen
  BY DEF GetData, Consume
<1> DEFINE st == "PROC_GET_DATA"
<1>0. Consume(st) /\ st # "PROC_FIND_1ST_HEAD"
  BY <1>1
<1> HIDE DEF st
<1>2. PICK i \in Items, k \in Nat, q \in Streams, r \in Seq(Byte) :
           /\ 1 <= k /\ k < Len(i[1]) /\ Len(i[1]) \in Nat
           /\ i[1][1] = HEAD_1 /\ At(i[1], k) /\ Shape(i)
           /\ Head(input) = i[1][k + 1] /\ Rest(i[1], k + 1, r) /\ Coming' = r \o q[1]
           /\ k + 1 = Len(i[1]) => Coming' = q[1]
           /\ expected' = i[2] \o q[2]
           /\ i[2] = <<>> => expected' = q[2]
  BY <1>0, InItem
<1>3. PICK w \in Nat : w = pWrite_contentBuf /\ w < PROC_CONTENT_LEN
  BY <1>1, WordBounds DEF TypeOK, ContentInBounds
<1>4. PICK n \in Nat : n = proclen
  BY WordBounds DEF TypeOK
<1>5. /\ k = 4 + w /\ i[1][2] = HEAD_2 /\ n = Claimed(i[1]) /\ n <= PROC_CONTENT_LEN
      /\ w < Size(n)
      /\ n # 0 => \A a \in 1 .. w : contentBuf[a - 1] = i[1][4 + a]
  BY <1>1, <1>2, <1>3, <1>4 DEF At
<1>6. Len(i[1]) = 5 + Size(n) /\ Size(n) \in Nat
  BY <1>2, <1>5 DEF Shape, Size
<1>7. pWrite_contentBuf' = w + 1
  BY <1>1, <1>3, Sizes, SMT
<1>8. /\ procState' \in {"PROC_GET_DATA", "PROC_CHECK_SUM"}
      /\ IF procState' = "PROC_GET_DATA" THEN w + 1 < Size(n) ELSE w + 1 = Size(n)
  BY <1>1, <1>3, <1>4, <1>5, <1>7 DEF Size
<1>9. ASSUME n # 0, NEW a \in 1 .. w + 1 PROVE contentBuf'[a - 1] = i[1][4 + a]
  <2>1. w < n /\ Size(n) = n
    BY <1>5, <1>9 DEF Size
  <2>2. w % PROC_CONTENT_LEN = w
    BY <1>3, Sizes
  <2>3. contentBuf' = [contentBuf EXCEPT ![w] = i[1][4 + (w + 1)]]
    <3>1. Head(input) = i[1][4 + (w + 1)]
      BY <1>2, <1>3, <1>5
    <3>2. contentBuf' = [contentBuf EXCEPT ![pWrite_contentBuf % PROC_CONTENT_LEN] = Head(input)]
      BY <1>1, <1>3, <1>4, <2>1
    <3> QED BY <1>3, <2>2, <3>1, <3>2
  <2>4. DOMAIN contentBuf = 0 .. PROC_CONTENT_LEN - 1 /\ w \in 0 .. PROC_CONTENT_LEN - 1
    BY <1>3, Sizes DEF TypeOK
  <2>5. CASE a = w + 1
    <3>1. a - 1 = w
      BY <2>5
    <3> QED BY <2>3, <2>4, <2>5, <3>1
  <2>6. CASE a # w + 1
    <3>1. a \in 1 .. w /\ a - 1 \in 0 .. PROC_CONTENT_LEN - 1 /\ a - 1 # w
      BY <1>3, <2>6, Sizes
    <3> QED BY <1>5, <1>9, <2>3, <2>4, <3>1
  <2> QED BY <2>5, <2>6
<1>10. At(i[1], k + 1)'
  <2>1. k + 1 = 4 + (w + 1)
    BY <1>5
  <2> QED BY <1>1, <1>4, <1>5, <1>7, <1>8, <1>9, <2>1 DEF At
<1>11. PICK l \in Nat : l = k + 1
  OBVIOUS
<1>12. l = 5 + w /\ l < 5 + Size(n)
  BY <1>3, <1>5, <1>6, <1>11
<1>13. /\ 1 <= l /\ l < Len(i[1]) /\ Rest(i[1], l, r)
       /\ procState' # "PROC_FIND_1ST_HEAD"
  BY <1>2, <1>3, <1>6, <1>8, <1>11, <1>12
<1>14. At(i[1], l)'
  BY <1>10, <1>11
<1>15. /\ pc' # "dispatch" /\ i[1][1] = HEAD_1
       /\ Coming' = r \o q[1] /\ expected' = i[2] \o q[2]
  BY <1>1, <1>2
<1> QED BY <1>13, <1>14, <1>15, MoveOn DEF At

\* A sum that starts at 0 is the sum of the content.
LEMMA SumOfByte == ASSUME NEW s \in Seq(Byte) PROVE (0 + SumOf(s)) % 256 = SumOf(s)
<1>1. PICK b \in Int : b = SumOf(s) /\ 0 <= b /\ b <= 255
  BY SumIsByte, ByteBounds
<1>2. (0 + b) % 256 = b
  BY <1>1, SMT
<1> QED BY <1>1, <1>2

\* The end of a frame: an intact one is dispatched; a damaged one leaves sum as it is, but
\* then no byte is left in this call of getProc.
LEMMA SumStep ==
  ASSUME SafeInv, Undisturbed, ParseInv, CallInv, CheckSum
  PROVE  /\ \E h \in Pair, q \in Streams : Ahead(h, q)'
         /\ pc' = "dispatch" \/ sum' = 0 \/ ChunkMax = 1
         /\ Undamaged /\ proclen # 0 => pc' = "dispatch"
<1> USE DEF SafeInv
<1>1. /\ Consume("PROC_CHECK_SUM") /\ procState = "PROC_CHECK_SUM" /\ pc = "getProc" /\ ~isLocked
      /\ input # <<>>
      /\ sum' = (sum + SumOf(Content)) % 256
      /\ pc' = IF sum' = Head(input) THEN "dispatch" ELSE pc
      /\ procState' = "PROC_FIND_1ST_HEAD"
      /\ UNCHANGED <<proclen, contentBuf, pWrite_contentBuf>>
  BY DEF CheckSum, Consume
<1> DEFINE st == "PROC_CHECK_SUM"
<1>2. Consume(st) /\ st # "PROC_FIND_1ST_HEAD"
  BY <1>1
<1> HIDE DEF st
<1>3. PICK i \in Items, k \in Nat, q \in Streams, r \in Seq(Byte) :
           /\ 1 <= k /\ k < Len(i[1]) /\ Len(i[1]) \in Nat
           /\ i[1][1] = HEAD_1 /\ At(i[1], k) /\ Shape(i)
           /\ Head(input) = i[1][k + 1] /\ Rest(i[1], k + 1, r) /\ Coming' = r \o q[1]
           /\ k + 1 = Len(i[1]) => Coming' = q[1]
           /\ expected' = i[2] \o q[2]
           /\ i[2] = <<>> => expected' = q[2]
  BY <1>2, InItem
<1>4. PICK n \in Nat : n = proclen
  BY WordBounds DEF TypeOK
<1>5. /\ k = 4 + Size(n) /\ pWrite_contentBuf = Size(n) /\ i[1][2] = HEAD_2
      /\ n = Claimed(i[1]) /\ n <= PROC_CONTENT_LEN
      /\ n # 0 => \A a \in 1 .. Size(n) : contentBuf[a - 1] = i[1][4 + a]
  BY <1>1, <1>3, <1>4 DEF At
<1>6. /\ Len(i[1]) = 5 + Size(n) /\ Size(n) \in Nat
      /\ IF n = 0 THEN i[2] = <<>>
         ELSE Intact(i) \/ (i[2] = <<>> /\ ChunkMax = 1 /\ BadSum(i[1]))
  BY <1>3, <1>5 DEF Shape, Size
<1>7. Coming' = q[1] /\ Head(input) = i[1][5 + Size(n)]
  <2>1. k + 1 = Len(i[1]) /\ k + 1 = 5 + Size(n)
    BY <1>5, <1>6
  <2> QED BY <1>3, <2>1
<1>8. PICK c \in Seq(Byte) : c = Content
  BY <1>4, <1>5, ContentBytes
<1>9. Len(c) = n /\ \A a \in 1 .. n : c[a] = contentBuf[a - 1]
  BY <1>4, <1>5, <1>8, ContentBytes
<1>10. sum' = SumOf(c)
  <2>1. sum = 0
    BY <1>1 DEF CallInv
  <2>2. sum' = (0 + SumOf(c)) % 256
    BY <1>1, <1>8, <2>1
  <2> QED BY <2>2, SumOfByte
<1>11. n # 0 => \A a \in 1 .. n : c[a] = i[1][4 + a]
  BY <1>5, <1>9 DEF Size
<1>12. CASE n = 0
  <2>1. c = <<>>
    BY <1>9, <1>12, EmptySeq
  <2>2. sum' = 0
    BY <1>10, <2>1, SumIsByte
  <2>3. expected' = q[2]
    BY <1>3, <1>6, <1>12
  <2>4. CASE pc' = "dispatch"
    <3>1. Pending(Nil)'
      BY <1>1, <1>4, <1>5, <1>12, <2>4 DEF Pending, Nil
    <3>2. q \in Pair /\ q = <<q[1], q[2]>>
      BY LeastStreams, PairParts
    <3>3. <<Coming', expected'>> = Join(Nil, q)
      BY <1>7, <2>3, <3>2, JoinLaws
    <3>4. Ahead(Nil, q)'
      BY <3>1, <3>3 DEF Ahead
    <3> QED BY <1>4, <1>12, <2>4, <3>4, JoinLaws
  <2>5. CASE pc' # "dispatch"
    BY <1>1, <1>4, <1>7, <1>12, <2>2, <2>3, <2>5, ItemDone
  <2> QED BY <2>4, <2>5
<1>13. CASE n # 0 /\ Intact(i)
  <2>1. PICK m \in Message : i = <<FrameOf(m), <<m>>>>
    BY <1>13 DEF Intact
  <2>2. i[1] = FrameOf(m) /\ i[2] = <<m>>
    BY <2>1
  <2>3. /\ m \in Seq(Byte) /\ Len(m) = n
        /\ \A a \in 1 .. n : i[1][4 + a] = m[a]
        /\ i[1][n + 5] = SumOf(m)
    BY <1>5, <2>2, FrameShape, MessageSize
  <2>4. c = m
    BY <1>9, <1>11, <1>13, <2>3, SeqEqual
  <2>5. pc' = "dispatch"
    <3>1. 5 + Size(n) = n + 5
      BY <1>13 DEF Size
    <3> QED BY <1>1, <1>7, <1>10, <2>3, <2>4, <3>1
  <2>6. PICK h : h = <<<<>>, <<m>>>>
    OBVIOUS
  <2>7. h \in Pair /\ h[1] = <<>> /\ h[2] = <<m>>
    <3>1. <<>> \in Seq(Byte) /\ <<m>> \in Seq(Message)
      BY EmptySeq
    <3> QED BY <2>6, <3>1 DEF Pair
  <2>8. Pending(h)'
    <3>1. Content' = Content
      BY <1>1 DEF Content
    <3> QED BY <1>1, <1>4, <1>5, <1>8, <1>13, <2>4, <2>5, <2>7, <3>1 DEF Pending
  <2>9. <<Coming', expected'>> = Join(h, q)
    <3>1. <<>> \o q[1] = q[1]
      BY LeastStreams, PairParts, ConcatEmptySeq
    <3> QED BY <1>3, <1>7, <2>2, <2>7, <3>1 DEF Join
  <2>10. Ahead(h, q)'
    BY <2>8, <2>9 DEF Ahead
  <2> QED BY <2>5, <2>7, <2>10
<1>14. CASE n # 0 /\ ~Intact(i)
  <2>1. i[2] = <<>> /\ ChunkMax = 1 /\ BadSum(i[1])
    BY <1>6, <1>14
  <2>2. PICK j \in Seq(Byte) : j = i[1]
    BY ItemsArePairs, PairParts
  <2>3. Len(j) = 5 + n /\ j[5 + n] # SumOf(SubSeq(j, 5, 4 + n))
    <3>1. Size(n) = n
      BY <1>14 DEF Size
    <3>2. Len(j) = 5 + n /\ Len(j) - 1 = 4 + n
      BY <1>6, <2>2, <3>1
    <3> QED BY <2>1, <2>2, <3>2 DEF BadSum
  <2>4. SubSeq(j, 5, 4 + n) = c
    <3>1. \A a \in 5 .. 4 + n : j[a] \in Byte
      <4>1. \A a \in 5 .. 4 + n : a \in 1 .. Len(j)
        BY <2>3
      <4> QED BY <4>1, ElementOfSeq
    <3>2. PICK d : d = SubSeq(j, 5, 4 + n)
      OBVIOUS
    <3>3. d \in Seq(Byte) /\ Len(d) = n /\ \A a \in 1 .. n : d[a] = j[5 + a - 1]
      <4>1. /\ d \in Seq(Byte) /\ Len(d) = (IF 5 <= 4 + n THEN (4 + n) - 5 + 1 ELSE 0)
            /\ \A a \in 1 .. (4 + n) - 5 + 1 : d[a] = j[5 + a - 1]
        BY <3>1, <3>2, SubSeqProperties
      <4>2. (4 + n) - 5 + 1 = n /\ 5 <= 4 + n
        BY <1>14
      <4> QED BY <4>1, <4>2
    <3>4. ASSUME NEW a \in 1 .. n PROVE d[a] = c[a]
      <4>1. 5 + a - 1 = 4 + a
        OBVIOUS
      <4> QED BY <1>11, <1>14, <2>2, <3>3, <4>1
    <3> QED BY <1>9, <3>2, <3>3, <3>4, SeqEqual
  <2>5. pc' # "dispatch"
    <3>1. Head(input) = j[5 + n]
      BY <1>7, <1>14, <2>2 DEF Size
    <3> QED BY <1>1, <1>10, <2>3, <2>4, <3>1
  <2>6. expected' = q[2]
    BY <1>3, <2>1
  <2>7. ~Undamaged
    BY <1>14, <2>1, UndamagedKinds
  <2> QED BY <1>1, <1>7, <2>1, <2>5, <2>6, <2>7, ItemDone
<1> QED BY <1>12, <1>13, <1>14

\* The message in front has been dispatched; if the channel is unlocked, getProc goes on
\* behind its frame.
LEMMA DispatchStep ==
  ASSUME SafeInv, ParseInv, Handle \/ Unmatched
  PROVE  ParseInv'
<1> USE DEF SafeInv
<1>1. /\ pc = "dispatch" /\ pc' \in {"getProc", "faulted"}
      /\ pc' = "faulted" => isLocked' = isLocked
      /\ expected' = Served /\ UNCHANGED <<input, procState, proclen, pWrite_contentBuf, wire>>
  BY DEF Handle, Unmatched
<1>2. PICK h \in Pair, q \in Streams : Ahead(h, q)
  BY <1>1 DEF ParseInv
<1>3. /\ procState = "PROC_FIND_1ST_HEAD"
      /\ h[1] = <<>> /\ h[2] = (IF proclen = 0 THEN <<>> ELSE <<Content>>)
      /\ Coming = h[1] \o q[1] /\ expected = h[2] \o q[2]
  BY <1>1, <1>2 DEF Ahead, Pending, Join
<1>4. q[1] \in Seq(Byte) /\ q[2] \in Seq(Message) /\ h[2] \in Seq(Message)
  BY LeastStreams, PairParts
<1>5. Coming' = q[1]
  BY <1>1, <1>3, <1>4, ConcatEmptySeq DEF Coming
<1>6. expected' = q[2]
  <2>1. CASE proclen = 0
    BY <1>1, <1>3, <1>4, <2>1, ConcatEmptySeq DEF Served
  <2>2. CASE proclen # 0
    <3>1. PICK s \in Seq(Message) : s = h[2] /\ s = <<Content>>
      BY <1>3, <1>4, <2>2
    <3>2. s # <<>> /\ Tail(s) = <<>>
      BY <3>1
    <3>3. expected = s \o q[2]
      BY <1>3, <3>1
    <3>4. s \o q[2] # <<>> /\ Tail(s \o q[2]) = Tail(s) \o q[2]
      BY <1>4, <3>2, HeadTailConcat
    <3>5. Tail(expected) = q[2] /\ expected # <<>>
      BY <1>4, <3>2, <3>3, <3>4, ConcatEmptySeq
    <3> QED BY <1>1, <2>2, <3>5 DEF Served
  <2> QED BY <2>1, <2>2
<1>7. \E g \in Pair, p \in Streams : Ahead(g, p)'
  BY <1>1, <1>3, <1>5, <1>6, ItemDone
<1>8. pc' # "dispatch" /\ (pc' = "faulted" => isLocked')
  <2>1. isLocked
    BY <1>1 DEF ParseInv
  <2> QED BY <1>1, <2>1
<1> QED BY <1>7, <1>8 DEF ParseInv

FoundInv == SafeInv /\ ParseInv /\ CallInv

\* Nothing has been sent and nothing is pending.
LEMMA InitFound == Init => FoundInv
<1> SUFFICES ASSUME Init PROVE FoundInv
  OBVIOUS
<1>1. SafeInv
  BY InitSafe
<1>2. Ahead(Nil, Nil)
  <2>1. Pending(Nil)
    BY DEF Init, Pending
  <2>2. Coming = <<>> /\ expected = <<>>
    BY DEF Init, Coming
  <2>3. <<Coming, expected>> = Join(Nil, Nil)
    BY <2>2, JoinLaws DEF Nil
  <2> QED BY <2>1, <2>3 DEF Ahead
<1>3. ParseInv
  <2>1. Nil \in Pair /\ Nil \in Streams
    BY JoinLaws, LeastStreams DEF Grows
  <2>2. pc = "recv"
    BY DEF Init
  <2> QED BY <1>2, <2>1, <2>2 DEF ParseInv
<1>4. CallInv
  <2>1. pc = "recv" /\ input = <<>>
    BY DEF Init
  <2> QED BY <2>1, Sizes, EmptySeq DEF CallInv
<1> QED BY <1>1, <1>3, <1>4 DEF FoundInv

\* The steps of getProc that consume a byte.
LEMMA ConsumeFound ==
  ASSUME FoundInv, Undisturbed,
         Find1stHead \/ Find2ndHead \/ GetLenL \/ GetLenH \/ GetData \/ CheckSum
  PROVE  ParseInv' /\ CallInv'
<1> USE DEF FoundInv
<1>1. /\ pc = "getProc" /\ ~isLocked /\ input # <<>> /\ input' = Tail(input)
      /\ (pc' = pc /\ isLocked' = isLocked) \/ (pc' = "dispatch" /\ isLocked' = TRUE)
  BY DEF Find1stHead, Find2ndHead, GetLenL, GetLenH, GetData, CheckSum, Consume
<1>2. \E h \in Pair, q \in Streams : Ahead(h, q)'
  BY HeadSteps, LengthSteps, DataStep, SumStep
<1>3. ParseInv'
  BY <1>1, <1>2 DEF ParseInv
<1>4. pc' = "dispatch" \/ sum' = 0 \/ ChunkMax = 1
  <2>1. sum = 0
    BY <1>1 DEF CallInv
  <2>2. CASE CheckSum
    BY <2>2, SumStep
  <2>3. CASE ~CheckSum
    BY <2>1, <2>3 DEF Find1stHead, Find2ndHead, GetLenL, GetLenH, GetData
  <2> QED BY <2>2, <2>3
<1>5. Len(input') <= ChunkMax /\ (ChunkMax = 1 => input' = <<>>)
  <2>1. PICK n \in Nat : n = Len(input) /\ n >= 1 /\ n <= ChunkMax
    BY <1>1, LenProperties, EmptySeq DEF SafeInv, TypeOK, CallInv
  <2>2. input' \in Seq(Byte) /\ Len(input') = n - 1
    BY <1>1, <2>1, HeadTailProperties DEF SafeInv, TypeOK
  <2> QED BY <2>1, <2>2, Sizes, EmptySeq
<1>6. CallInv'
  BY <1>1, <1>4, <1>5 DEF CallInv
<1> QED BY <1>3, <1>6

\* Every step keeps the parser on the items the client has sent.
LEMMA NextFound ==
  ASSUME Undisturbed, FoundInv, [Next]_vars
  PROVE  FoundInv'
<1> USE DEF FoundInv
<1>1. SafeInv'
  BY NextSafe
<1>2. ASSUME NEW m \in Message, SendMessage(m) PROVE ParseInv' /\ CallInv'
  <2>1. /\ UNCHANGED <<pc, input, parserVars>>
        /\ wire' = wire \o FrameOf(m) /\ expected' = Append(expected, m)
    BY <1>2 DEF SendMessage
  <2>2. PICK u \in Items : u = <<FrameOf(m), <<m>>>>
    BY DEF Items
  <2>3. expected' = expected \o <<m>>
    BY <2>1, AppendIsConcat DEF SafeInv, TypeOK
  <2>4. ParseInv'
    BY <2>1, <2>2, <2>3, SendStep DEF SafeInv
  <2>5. CallInv'
    BY <2>1 DEF CallInv, parserVars
  <2> QED BY <2>4, <2>5
<1>3. ASSUME NEW j \in Junk, SendJunk(j) PROVE ParseInv' /\ CallInv'
  <2>1. /\ UNCHANGED <<pc, input, parserVars>>
        /\ wire' = wire \o j /\ expected' = expected
    BY <1>3 DEF SendJunk
  <2>2. PICK u \in Items : u = <<j, <<>>>>
    BY DEF Items
  <2>3. expected' = expected \o <<>>
    BY <2>1, ConcatEmptySeq DEF SafeInv, TypeOK
  <2>4. ParseInv'
    BY <2>1, <2>2, <2>3, SendStep DEF SafeInv
  <2>5. CallInv'
    BY <2>1 DEF CallInv, parserVars
  <2> QED BY <2>4, <2>5
<1>4. ASSUME NEW n \in 1 .. ChunkMax, ReadSocket(n) PROVE ParseInv' /\ CallInv'
  <2>1. /\ pc = "recv" /\ pc' = "getProc" /\ sum' = 0 /\ n <= Len(wire)
        /\ input' = IF isLocked THEN input ELSE input \o SubSeq(wire, 1, n)
        /\ wire' = SubSeq(wire, n + 1, Len(wire))
        /\ UNCHANGED <<procState, proclen, contentBuf, pWrite_contentBuf, isLocked, expected>>
    BY <1>4 DEF ReadSocket
  <2>2. PICK s \in Seq(Byte) : s = wire
    BY DEF SafeInv, TypeOK
  <2>3. PICK a \in Seq(Byte), b \in Seq(Byte) :
          a = SubSeq(s, 1, n) /\ b = SubSeq(s, n + 1, Len(s))
    <3>1. TypeOK /\ n \in Nat /\ n <= Len(wire)
      BY <2>1, Sizes DEF SafeInv
    <3>2. SubSeq(wire, 1, n) \in Seq(Byte) /\ SubSeq(wire, n + 1, Len(wire)) \in Seq(Byte)
      BY <3>1, InputBytes
    <3> QED BY <2>2, <3>2
  <2>4. s = a \o b /\ Len(a) = n
    <3>1. PICK l \in Nat : l = Len(s) /\ n <= l
      BY <2>1, <2>2, LenProperties
    <3>2. 1 \in 1 .. l + 1 /\ n \in 1 - 1 .. l /\ l \in n .. l /\ n \in Int /\ 1 <= n
      BY <3>1, Sizes
    <3>3. a \o b = SubSeq(s, 1, l)
      BY <2>3, <3>1, <3>2, ConcatAdjacentSubSeq
    <3>4. Len(a) = n
      <4>1. \A x \in 1 .. n : s[x] \in Byte
        <5>1. \A x \in 1 .. n : x \in 1 .. Len(s)
          BY <3>1
        <5> QED BY <5>1, ElementOfSeq
      <4>2. Len(a) = IF 1 <= n THEN n - 1 + 1 ELSE 0
        BY <2>3, <3>2, <4>1, SubSeqProperties
      <4> QED BY <3>2, <4>2
    <3> QED BY <3>1, <3>3, <3>4, SubSeqFull
  <2>5. CASE isLocked
    <3>1. ParseInv'
      BY <2>1, <2>5, SameStream
    <3>2. CallInv'
      BY <2>1, <2>5 DEF CallInv
    <3> QED BY <3>1, <3>2
  <2>6. CASE ~isLocked
    <3>1. input = <<>> /\ input' = a /\ wire' = b
      <4>1. input = <<>>
        BY <2>1, <2>6 DEF CallInv
      <4>2. input' = <<>> \o a
        BY <2>1, <2>2, <2>3, <2>6, <4>1
      <4> QED BY <2>1, <2>2, <2>3, <4>1, <4>2, ConcatEmptySeq
    <3>2. Coming = s /\ Coming' = s
      BY <2>2, <2>4, <3>1, ConcatEmptySeq DEF Coming
    <3>3. ParseInv'
      BY <2>1, <3>2, SameStream
    <3>4. CallInv'
      BY <2>1, <2>4, <3>1 DEF CallInv
    <3> QED BY <3>3, <3>4
  <2> QED BY <2>5, <2>6
<1>5. ASSUME EndSession PROVE ParseInv' /\ CallInv'
  <2>1. /\ pc = "recv" /\ pc' = pc /\ procState' = "PROC_FIND_1ST_HEAD" /\ isLocked' = FALSE
        /\ sum' = 0 /\ input' = <<>> /\ wire' = <<>> /\ expected' = <<>>
    BY <1>5 DEF EndSession
  <2>2. Coming' = Nil[1] /\ expected' = Nil[2] /\ Nil \in Streams
    BY <2>1, LeastStreams DEF Coming, Nil, Grows
  <2>3. \E h \in Pair, q \in Streams : Ahead(h, q)'
    BY <2>1, <2>2, ItemDone
  <2>4. CallInv'
    BY <2>1, Sizes, EmptySeq DEF CallInv
  <2> QED BY <2>1, <2>3, <2>4 DEF ParseInv
<1>6. ASSUME NotFound PROVE ParseInv' /\ CallInv'
  <2>1. /\ pc = "getProc" /\ pc' = "recv" /\ (isLocked \/ input = <<>>)
        /\ UNCHANGED <<input, parserVars, wire, expected>>
    BY <1>6 DEF NotFound
  <2>2. UNCHANGED <<procState, proclen, contentBuf, pWrite_contentBuf, isLocked, sum>>
    BY <2>1 DEF parserVars
  <2>3. Coming' = Coming
    BY <2>1 DEF Coming
  <2>4. ParseInv'
    BY <2>1, <2>2, <2>3, SameStream
  <2>5. CallInv'
    BY <2>1, <2>2 DEF CallInv
  <2> QED BY <2>4, <2>5
<1>7. ASSUME Handle \/ Unmatched PROVE ParseInv' /\ CallInv'
  <2>1. sum' = 0 /\ pc' \in {"getProc", "faulted"} /\ input' = input
    BY <1>7 DEF Handle, Unmatched
  <2>2. CallInv'
    BY <2>1 DEF CallInv
  <2> QED BY <1>7, <2>2, DispatchStep
<1>8. ASSUME UNCHANGED vars PROVE ParseInv' /\ CallInv'
  <2>1. UNCHANGED <<pc, input, procState, proclen, contentBuf, pWrite_contentBuf, isLocked, sum,
                    wire, expected>>
    BY <1>8 DEF vars
  <2>2. Coming' = Coming
    BY <2>1 DEF Coming
  <2>3. \A h, q : Ahead(h, q)' <=> Ahead(h, q)
    BY <2>1, <2>2, PendingSame DEF Ahead
  <2> QED BY <2>1, <2>3 DEF ParseInv, CallInv
<1> QED BY <1>1, <1>2, <1>3, <1>4, <1>5, <1>6, <1>7, <1>8, ConsumeFound DEF Next, Session

\* A frame that is dispatched is the item in front.
LEMMA FoundDispatch == FoundInv => DispatchedAsSent
<1> SUFFICES ASSUME FoundInv, pc = "dispatch", proclen # 0
             PROVE  /\ expected # <<>> /\ Content = Head(expected)
                    /\ pWrite_contentBuf = Len(Head(expected))
  BY DEF DispatchedAsSent
<1>1. PICK h \in Pair, q \in Streams : Ahead(h, q)
  BY DEF FoundInv, ParseInv
<1>2. pWrite_contentBuf = Size(proclen) /\ h[2] = <<Content>> /\ expected = h[2] \o q[2]
  BY <1>1 DEF Ahead, Pending, Join
<1>3. h[2] \in Seq(Message) /\ q[2] \in Seq(Message)
  BY LeastStreams, PairParts
<1>4. PICK s \in Seq(Message) : s = h[2] /\ s = <<Content>>
  BY <1>2, <1>3
<1>5. s # <<>> /\ s[1] = Content
  BY <1>4
<1>6. expected # <<>> /\ Head(expected) = Content
  BY <1>2, <1>3, <1>4, <1>5, HeadTailConcat
<1>7. Len(Content) = proclen
  <2>1. Content \in Message
    <3>1. 1 \in 1 .. Len(s)
      BY <1>4
    <3> QED BY <1>5, <3>1, ElementOfSeq
  <2>2. proclen \in Nat
    BY WordBounds DEF FoundInv, SafeInv, TypeOK
  <2> QED BY <2>2 DEF Content
<1> QED BY <1>2, <1>6, <1>7 DEF Size

\* What is dispatched is the next message that was sent, whole, however TCP cuts the
\* stream and whatever stray bytes there are between the frames.
THEOREM WholeDispatch ==
  ASSUME Undisturbed
  PROVE  Spec => []DispatchedAsSent
<1>1. Init => FoundInv
  BY InitFound
<1>2. FoundInv /\ [Next]_vars => FoundInv'
  BY NextFound
<1>3. FoundInv => DispatchedAsSent
  BY FoundDispatch
<1> QED BY <1>1, <1>2, <1>3, PTL DEF Spec

-----------------------------------------------------------------------------
(* Empty frames, and unlocking *)

\* Between two frames contentBuf starts with 0: a handler's post-processing leaves it so,
\* and getProc writes to it only in a frame that is going to be dispatched.
EmptyInv ==
  /\ pc \in {"recv", "getProc"} /\ ~isLocked
       /\ (procState \notin {"PROC_GET_DATA", "PROC_CHECK_SUM"} \/ proclen = 0
           \/ pWrite_contentBuf = 0)
       => contentBuf[0] = 0
  /\ pc = "dispatch" /\ proclen = 0 => contentBuf[0] = 0

\* The first byte of a zeroed contentBuf.
LEMMA FirstByte ==
  ASSUME TypeOK
  PROVE  /\ [i \in DOMAIN contentBuf |-> IF i < 4 THEN 0 ELSE contentBuf[i]][0] = 0
         /\ Zeroed[0] = 0
<1>1. DOMAIN contentBuf = 0 .. PROC_CONTENT_LEN - 1
  BY DEF TypeOK
<1>2. 0 \in 0 .. PROC_CONTENT_LEN - 1
  BY Sizes
<1> QED BY <1>1, <1>2 DEF Zeroed

\* Every step keeps the first byte of contentBuf at 0 between frames.
LEMMA NextEmpty ==
  ASSUME Undamaged, Undisturbed, FoundInv, EmptyInv, [Next]_vars
  PROVE  EmptyInv'
<1>1. TypeOK /\ (pc = "dispatch" => isLocked)
  BY DEF FoundInv, SafeInv, ParseInv
<1>2. CASE Find1stHead \/ Find2ndHead \/ GetLenL \/ GetLenH
  <2>1. contentBuf[0] = 0
    BY <1>2 DEF Find1stHead, Find2ndHead, GetLenL, GetLenH, Consume, EmptyInv
  <2>2. contentBuf' = contentBuf
    BY <1>2 DEF Find1stHead, Find2ndHead, GetLenL, GetLenH
  <2> QED BY <2>1, <2>2 DEF EmptyInv
<1>3. CASE GetData
  <2>1. /\ pc = "getProc" /\ pc' = pc /\ ~isLocked /\ proclen' = proclen
        /\ procState = "PROC_GET_DATA"
        /\ procState' \in {"PROC_GET_DATA", "PROC_CHECK_SUM"}
        /\ pWrite_contentBuf' = (pWrite_contentBuf + 1) % 65536
        /\ ~(pWrite_contentBuf < proclen) => contentBuf' = contentBuf
    BY <1>3 DEF GetData, Consume
  <2>2. pWrite_contentBuf \in Nat /\ pWrite_contentBuf < PROC_CONTENT_LEN
    BY <2>1, WordBounds DEF FoundInv, SafeInv, TypeOK, ContentInBounds
  <2>3. pWrite_contentBuf' # 0
    BY <2>1, <2>2, Sizes, SMT
  <2>4. proclen = 0 => contentBuf' = contentBuf /\ contentBuf[0] = 0
    BY <2>1, <2>2 DEF EmptyInv
  <2>5. proclen' = 0 => contentBuf'[0] = 0
    BY <2>1, <2>4
  <2> QED BY <2>1, <2>3, <2>5 DEF EmptyInv
<1>4. CASE CheckSum
  <2>1. /\ pc = "getProc" /\ ~isLocked /\ UNCHANGED <<proclen, contentBuf>>
    BY <1>4 DEF CheckSum, Consume
  <2>2. pc' = "dispatch" \/ proclen = 0
    BY <1>4, SumStep DEF FoundInv
  <2>3. proclen = 0 => contentBuf[0] = 0
    BY <2>1 DEF EmptyInv
  <2> QED BY <2>1, <2>2, <2>3 DEF EmptyInv
<1>5. CASE Handle \/ Unmatched
  <2>1. pc' # "dispatch" /\ pc = "dispatch"
    BY <1>5 DEF Handle, Unmatched
  <2>2. isLocked' = isLocked
          \/ contentBuf' = [i \in DOMAIN contentBuf |-> IF i < 4 THEN 0 ELSE contentBuf[i]]
    BY <1>5 DEF Handle, Unmatched
  <2>3. isLocked' = isLocked \/ contentBuf'[0] = 0
    BY <1>1, <2>2, FirstByte
  <2> QED BY <1>1, <2>1, <2>3 DEF EmptyInv
<1>6. CASE EndSession
  <2>1. contentBuf'[0] = 0
    BY <1>1, <1>6, FirstByte DEF EndSession
  <2> QED BY <2>1 DEF EmptyInv
<1>7. ASSUME UNCHANGED <<procState, proclen, contentBuf, pWrite_contentBuf, isLocked>>,
             pc' = pc \/ (pc \in {"recv", "getProc"} /\ pc' \in {"recv", "getProc"})
      PROVE  EmptyInv'
  BY <1>7 DEF EmptyInv
<1>8. ASSUME NEW m \in Message, SendMessage(m) PROVE EmptyInv'
  BY <1>7, <1>8 DEF SendMessage, parserVars
<1>9. ASSUME NEW j \in Junk, SendJunk(j) PROVE EmptyInv'
  BY <1>7, <1>9 DEF SendJunk, parserVars
<1>10. ASSUME NEW n \in 1 .. ChunkMax, ReadSocket(n) PROVE EmptyInv'
  BY <1>7, <1>10 DEF ReadSocket
<1>11. CASE NotFound
  BY <1>7, <1>11 DEF NotFound, parserVars
<1>12. CASE UNCHANGED vars
  BY <1>7, <1>12 DEF vars
<1> QED BY <1>2, <1>3, <1>4, <1>5, <1>6, <1>8, <1>9, <1>10, <1>11, <1>12 DEF Next, Session

\* Without damaged frames nothing disturbs the parser.
LEMMA UndamagedUndisturbed == Undamaged => Undisturbed
BY DEF Undamaged, Undisturbed

\* contentBuf starts zeroed.
LEMMA InitEmpty == Init => EmptyInv
<1> SUFFICES ASSUME Init PROVE EmptyInv
  OBVIOUS
<1>1. contentBuf[0] = 0
  BY InitSafe, FirstByte DEF SafeInv, Init
<1> QED BY <1>1 DEF EmptyInv

\* A frame of length 0 is dispatched as the control byte 0 with one byte of content,
\* which no handler acts on, as long as no frame is damaged.
THEOREM InertFrames ==
  ASSUME Undamaged
  PROVE  Spec => []EmptyFrameInert
<1>1. Init => FoundInv /\ EmptyInv
  BY InitFound, InitEmpty
<1>2. FoundInv /\ EmptyInv /\ [Next]_vars => FoundInv' /\ EmptyInv'
  BY UndamagedUndisturbed, NextFound, NextEmpty
<1>3. FoundInv /\ EmptyInv => EmptyFrameInert
  <2> SUFFICES ASSUME FoundInv, EmptyInv, pc = "dispatch", proclen = 0
               PROVE  contentBuf[0] = 0 /\ pWrite_contentBuf = 1
    BY DEF EmptyFrameInert
  <2>1. PICK h \in Pair, q \in Streams : Ahead(h, q)
    BY DEF FoundInv, ParseInv
  <2>2. pWrite_contentBuf = Size(0)
    BY <2>1 DEF Ahead, Pending
  <2> QED BY <2>2 DEF EmptyInv, Size
<1> QED BY <1>1, <1>2, <1>3, PTL DEF Spec

\* When all control bytes are known, the channel is locked only while a handler runs.
OpenInv == pc # "faulted" /\ (pc \in {"recv", "getProc"} => ~isLocked)

\* contentBuf starts with a known control byte between two frames: 0, or that of a frame
\* whose sum was wrong, which is what a frame of length 0 is then dispatched on.
KnownInv ==
  /\ pc \in {"recv", "getProc"} /\ ~isLocked
       /\ (procState \notin {"PROC_GET_DATA", "PROC_CHECK_SUM"} \/ proclen = 0
           \/ pWrite_contentBuf = 0)
       => contentBuf[0] \in Known
  /\ pc = "dispatch" /\ proclen = 0 => contentBuf[0] \in Known

\* contentBuf starts zeroed, and 0 is known.
LEMMA InitKnown == AllKnown /\ Init => KnownInv
<1> SUFFICES ASSUME AllKnown, Init PROVE KnownInv
  OBVIOUS
<1>1. contentBuf[0] = 0
  BY InitSafe, FirstByte DEF SafeInv, Init
<1> QED BY <1>1 DEF KnownInv, AllKnown

\* What getProc is about to check begins with a known control byte, damaged or not.
LEMMA CheckedKnown ==
  ASSUME Undisturbed, AllKnown, FoundInv,
         pc = "getProc", ~isLocked, procState = "PROC_CHECK_SUM", proclen # 0
  PROVE  contentBuf[0] \in Known
<1>1. PICK h \in Pair, q \in Streams : Ahead(h, q)
  BY DEF FoundInv, ParseInv
<1>2. PICK i \in Items, k \in Nat : k < Len(i[1]) /\ i[1][1] = HEAD_1 /\ At(i[1], k)
  BY <1>1 DEF Ahead, Pending
<1>3. proclen \in Nat /\ proclen >= 1
  BY WordBounds DEF FoundInv, SafeInv, TypeOK
<1>4. proclen = Claimed(i[1]) /\ pWrite_contentBuf = proclen /\ k = 4 + proclen
  BY <1>2, <1>3 DEF At, Size
<1>5. contentBuf[0] = i[1][5]
  <2>1. \A a \in 1 .. proclen : contentBuf[a - 1] = i[1][4 + a]
    BY <1>2, <1>3, <1>4 DEF At
  <2>2. 1 \in 1 .. proclen
    BY <1>3
  <2>3. contentBuf[1 - 1] = i[1][4 + 1]
    BY <2>1, <2>2
  <2> QED BY <2>3
<1>6. PICK n \in Nat : n = Len(i[1]) /\ n > 5
  <2>1. Len(i[1]) \in Nat
    BY ItemsArePairs, PairParts, LenProperties
  <2> QED BY <1>2, <1>3, <1>4, <2>1
<1>7. ASSUME NEW m \in Message, i = <<FrameOf(m), <<m>>>> PROVE i[1][5] \in Known
  <2>1. FrameOf(m)[4 + 1] = m[1]
    BY FrameShape, MessageSize
  <2> QED BY <1>7, <2>1 DEF AllKnown
<1>8. ASSUME NEW j \in Junk \cup {b \in Seq(Byte) : Noise(b)}, i = <<j, <<>>>>
      PROVE  i[1][5] \in Known
  <2>1. i[1] = j
    BY <1>8
  <2>2. ~Noise(j)
    BY <1>2, <1>6, <2>1 DEF Noise
  <2>3. ~LoneHead(j) /\ ~TooLong(j)
    BY <1>6, <2>1 DEF LoneHead, TooLong
  <2>4. ~Empty(j)
    BY <1>3, <1>4, <2>1 DEF Empty
  <2>5. j \in Junk /\ BadSum(j)
    BY <1>8, <2>2, <2>3, <2>4 DEF Undisturbed, Stray
  <2> QED BY <2>1, <2>5 DEF AllKnown
<1> QED BY <1>5, <1>7, <1>8 DEF Items

\* Every step keeps the first byte of contentBuf known between frames.
LEMMA NextKnown ==
  ASSUME Undisturbed, AllKnown, FoundInv, KnownInv, [Next]_vars
  PROVE  KnownInv'
<1>1. TypeOK /\ (pc = "dispatch" => isLocked) /\ 0 \in Known
  BY DEF FoundInv, SafeInv, ParseInv, AllKnown
<1>2. CASE Find1stHead \/ Find2ndHead \/ GetLenL \/ GetLenH
  <2>1. contentBuf[0] \in Known
    BY <1>2 DEF Find1stHead, Find2ndHead, GetLenL, GetLenH, Consume, KnownInv
  <2>2. contentBuf' = contentBuf
    BY <1>2 DEF Find1stHead, Find2ndHead, GetLenL, GetLenH
  <2> QED BY <2>1, <2>2 DEF KnownInv
<1>3. CASE GetData
  <2>1. /\ pc = "getProc" /\ pc' = pc /\ ~isLocked /\ proclen' = proclen
        /\ procState = "PROC_GET_DATA"
        /\ procState' \in {"PROC_GET_DATA", "PROC_CHECK_SUM"}
        /\ pWrite_contentBuf' = (pWrite_contentBuf + 1) % 65536
        /\ ~(pWrite_contentBuf < proclen) => contentBuf' = contentBuf
    BY <1>3 DEF GetData, Consume
  <2>2. pWrite_contentBuf \in Nat /\ pWrite_contentBuf < PROC_CONTENT_LEN
    BY <2>1, WordBounds DEF FoundInv, SafeInv, TypeOK, ContentInBounds
  <2>3. pWrite_contentBuf' # 0
    BY <2>1, <2>2, Sizes, SMT
  <2>4. proclen = 0 => contentBuf' = contentBuf /\ contentBuf[0] \in Known
    BY <2>1, <2>2 DEF KnownInv
  <2>5. proclen' = 0 => contentBuf'[0] \in Known
    BY <2>1, <2>4
  <2> QED BY <2>1, <2>3, <2>5 DEF KnownInv
<1>4. CASE CheckSum
  <2>1. /\ pc = "getProc" /\ ~isLocked /\ procState = "PROC_CHECK_SUM"
        /\ UNCHANGED <<proclen, contentBuf>>
    BY <1>4 DEF CheckSum, Consume
  <2>2. contentBuf[0] \in Known
    BY <2>1, CheckedKnown DEF KnownInv
  <2> QED BY <2>1, <2>2 DEF KnownInv
<1>5. CASE Handle \/ Unmatched
  <2>1. pc' # "dispatch" /\ pc = "dispatch"
    BY <1>5 DEF Handle, Unmatched
  <2>2. isLocked' = isLocked
          \/ contentBuf' = [i \in DOMAIN contentBuf |-> IF i < 4 THEN 0 ELSE contentBuf[i]]
    BY <1>5 DEF Handle, Unmatched
  <2>3. isLocked' = isLocked \/ contentBuf'[0] = 0
    BY <1>1, <2>2, FirstByte
  <2> QED BY <1>1, <2>1, <2>3 DEF KnownInv
<1>6. CASE EndSession
  <2>1. contentBuf'[0] = 0
    BY <1>1, <1>6, FirstByte DEF EndSession
  <2> QED BY <1>1, <2>1 DEF KnownInv
<1>7. ASSUME UNCHANGED <<procState, proclen, contentBuf, pWrite_contentBuf, isLocked>>,
             pc' = pc \/ (pc \in {"recv", "getProc"} /\ pc' \in {"recv", "getProc"})
      PROVE  KnownInv'
  BY <1>7 DEF KnownInv
<1>8. ASSUME NEW m \in Message, SendMessage(m) PROVE KnownInv'
  BY <1>7, <1>8 DEF SendMessage, parserVars
<1>9. ASSUME NEW j \in Junk, SendJunk(j) PROVE KnownInv'
  BY <1>7, <1>9 DEF SendJunk, parserVars
<1>10. ASSUME NEW n \in 1 .. ChunkMax, ReadSocket(n) PROVE KnownInv'
  BY <1>7, <1>10 DEF ReadSocket
<1>11. CASE NotFound
  BY <1>7, <1>11 DEF NotFound, parserVars
<1>12. CASE UNCHANGED vars
  BY <1>7, <1>12 DEF vars
<1> QED BY <1>2, <1>3, <1>4, <1>5, <1>6, <1>8, <1>9, <1>10, <1>11, <1>12 DEF Next, Session

\* What is dispatched has a handler if every message has.
LEMMA KnownDispatch ==
  ASSUME AllKnown, FoundInv, KnownInv, pc = "dispatch"
  PROVE  contentBuf[0] \in Known
<1>1. CASE proclen = 0
  BY <1>1 DEF KnownInv
<1>2. CASE proclen # 0
  <2>1. expected # <<>> /\ Content = Head(expected)
    BY <1>2, FoundDispatch DEF DispatchedAsSent
  <2>2. expected \in Seq(Message)
    BY DEF FoundInv, SafeInv, TypeOK
  <2>3. Content \in Message
    BY <2>1, <2>2, HeadTailProperties
  <2>4. proclen \in Nat /\ 1 \in 1 .. proclen
    BY <1>2, WordBounds DEF FoundInv, SafeInv, TypeOK
  <2>5. Content[1] = contentBuf[0]
    BY <2>4 DEF Content
  <2> QED BY <2>3, <2>5 DEF AllKnown
<1> QED BY <1>1, <1>2

\* Every step leaves the channel unlocked outside a handler.
LEMMA NextOpen ==
  ASSUME AllKnown, FoundInv, KnownInv, OpenInv, [Next]_vars
  PROVE  OpenInv'
<1>1. ~Unmatched
  BY KnownDispatch DEF Unmatched
<1>2. CASE Find1stHead \/ Find2ndHead \/ GetLenL \/ GetLenH \/ GetData \/ CheckSum
  <2>1. (pc' = pc /\ isLocked' = isLocked) \/ pc' = "dispatch"
    BY <1>2 DEF Find1stHead, Find2ndHead, GetLenL, GetLenH, GetData, CheckSum
  <2> QED BY <2>1 DEF OpenInv
<1>3. CASE Handle
  BY <1>3 DEF Handle, OpenInv
<1>4. CASE NotFound
  BY <1>4 DEF NotFound, parserVars, OpenInv
<1>5. CASE EndSession
  BY <1>5 DEF EndSession, OpenInv
<1>6. ASSUME NEW m \in Message, SendMessage(m) PROVE OpenInv'
  BY <1>6 DEF SendMessage, parserVars, OpenInv
<1>7. ASSUME NEW j \in Junk, SendJunk(j) PROVE OpenInv'
  BY <1>7 DEF SendJunk, parserVars, OpenInv
<1>8. ASSUME NEW n \in 1 .. ChunkMax, ReadSocket(n) PROVE OpenInv'
  BY <1>8 DEF ReadSocket, OpenInv
<1>9. CASE UNCHANGED vars
  BY <1>9 DEF vars, OpenInv
<1> QED BY <1>1, <1>2, <1>3, <1>4, <1>5, <1>6, <1>7, <1>8, <1>9 DEF Next, Session

\* No intact message is missed: when everything sent has been received and consumed,
\* all of them have been dispatched, also behind damaged frames if every recv returns one byte.
THEOREM AllDispatched ==
  ASSUME Undisturbed, AllKnown
  PROVE  Spec => []NoneMissed
<1>1. Init => FoundInv /\ KnownInv /\ OpenInv
  BY InitFound, InitKnown DEF Init, OpenInv
<1>2. FoundInv /\ KnownInv /\ OpenInv /\ [Next]_vars => FoundInv' /\ KnownInv' /\ OpenInv'
  BY NextFound, NextKnown, NextOpen
<1>3. FoundInv /\ OpenInv => NoneMissed
  <2> SUFFICES ASSUME FoundInv, OpenInv, pc = "recv", wire = <<>>, input = <<>>
               PROVE  expected = <<>>
    BY DEF NoneMissed
  <2>1. PICK h \in Pair, q \in Streams : Ahead(h, q)
    BY DEF FoundInv, ParseInv, OpenInv
  <2>2. /\ h[1] \in Seq(Byte) /\ h[2] \in Seq(Message)
        /\ q[1] \in Seq(Byte) /\ q[2] \in Seq(Message)
    BY LeastStreams, PairParts
  <2>3. <<>> = h[1] \o q[1] /\ expected = h[2] \o q[2]
    <3>1. Coming = <<>>
      BY EmptySeq, ConcatEmptySeq DEF Coming
    <3> QED BY <2>1, <3>1 DEF Ahead, Join
  <2>4. h[1] = <<>> /\ q[1] = <<>>
    <3>1. PICK a, b \in Seq(Byte) : a = h[1] /\ b = q[1]
      BY <2>2
    <3>2. a \o b = <<>>
      BY <2>3, <3>1
    <3> QED BY <3>1, <3>2, ConcatEqualIffEmpty
  <2>5. h = Nil
    <3> SUFFICES ASSUME procState # "PROC_FIND_1ST_HEAD" PROVE FALSE
      BY <2>1 DEF Ahead, Pending
    <3>1. PICK i \in Items, k \in Nat : k < Len(i[1]) /\ Rest(i[1], k, h[1])
      BY <2>1 DEF Ahead, Pending
    <3>2. Len(i[1]) \in Nat /\ Len(h[1]) = 0 /\ Len(h[1]) = Len(i[1]) - k
      BY <2>4, <3>1, ItemsArePairs, PairParts, LenProperties, EmptySeq DEF Rest
    <3> QED BY <3>1, <3>2
  <2>6. q[2] = <<>>
    BY <2>4, StreamsEnd
  <2> QED BY <2>2, <2>3, <2>5, <2>6, ConcatEmptySeq DEF Nil
<1> QED BY <1>1, <1>2, <1>3, PTL DEF Spec
=============================================================================

-------------------------- MODULE RecvRing_proofs --------------------------
(***************************************************************************)
(* What RecvRing keeps for every size of ring, of recv and of index, as    *)
(* long as the ring holds one recv and the range of the indices is a       *)
(* multiple of it.                                                         *)
(*                                                                         *)
(* The invariant says that the ring holds at most one recv while anybody   *)
(* still reads it; the refinement rests on two facts about remainders: an  *)
(* index that wraps is still the same place in the ring, and the bytes of  *)
(* one recv go to different places.                                        *)
(***************************************************************************)
EXTENDS RecvRing, SequenceTheorems, TLAPS

-----------------------------------------------------------------------------
(* Remainders *)

\* Division with a remainder.
LEMMA Division ==
  ASSUME NEW R \in Nat \ {0}, NEW x \in Int
  PROVE  /\ x \div R \in Int
         /\ x % R \in 0 .. R - 1
         /\ x = R * (x \div R) + (x % R)
BY SMT

\* The remainder is the only one.
LEMMA Remainder ==
  ASSUME NEW R \in Nat \ {0}, NEW q \in Int, NEW m \in 0 .. R - 1
  PROVE  (R * q + m) % R = m
<1> DEFINE x == R * q + m
           d == x \div R
           a == x % R
<1>1. x \in Int /\ x = R * q + m
  OBVIOUS
<1> HIDE DEF x
<1>2. d \in Int /\ a \in 0 .. R - 1 /\ x = R * d + a
  BY <1>1, Division
<1> HIDE DEF d, a
<1>3. R * (q - d) = a - m
  <2>1. R * (q - d) = R * q - R * d
    BY <1>2
  <2> QED BY <1>1, <1>2, <2>1
<1>4. ~(q - d >= 1)
  <2>1. ASSUME q - d >= 1 PROVE R * (q - d) >= R
    BY <1>2, <2>1
  <2> QED BY <1>2, <1>3, <2>1
<1>5. ~(d - q >= 1)
  <2>1. ASSUME d - q >= 1 PROVE R * (d - q) >= R
    BY <1>2, <2>1
  <2>2. R * (d - q) = - (R * (q - d))
    BY <1>2
  <2> QED BY <1>2, <1>3, <2>1, <2>2
<1>6. q = d
  BY <1>2, <1>4, <1>5
<1>7. a = m
  BY <1>1, <1>2, <1>6
<1> QED BY <1>7 DEF a, x

\* A multiple of the divisor makes no difference.
LEMMA Shift ==
  ASSUME NEW R \in Nat \ {0}, NEW x \in Int, NEW q \in Int
  PROVE  (R * q + x) % R = x % R
<1> DEFINE d == x \div R
           a == x % R
<1>1. d \in Int /\ a \in 0 .. R - 1 /\ x = R * d + a
  BY Division
<1> HIDE DEF d, a
<1>2. R * q + x = R * (q + d) + a
  BY <1>1
<1>3. (R * (q + d) + a) % R = a
  BY <1>1, Remainder
<1> QED BY <1>2, <1>3 DEF a

\* An index that is cut to R is the same place in a ring whose size L divides R.
LEMMA SamePlace ==
  ASSUME NEW R \in Nat \ {0}, NEW L \in Nat \ {0}, R % L = 0, NEW x \in Int
  PROVE  (x % R) % L = x % L
<1> DEFINE k == R \div L
           d == x \div R
           a == x % R
<1>1. k \in Int /\ R = L * k
  BY Division
<1>2. d \in Int /\ a \in 0 .. R - 1 /\ x = R * d + a
  BY Division
<1> HIDE DEF k, d, a
<1> DEFINE q == k * d
<1>3. q \in Int /\ R * d = L * q
  BY <1>1, <1>2
<1> HIDE DEF q
<1>4. a \in Int /\ x = L * q + a
  BY <1>2, <1>3
<1>5. (L * q + a) % L = a % L
  BY <1>3, <1>4, Shift
<1> QED BY <1>4, <1>5 DEF a

\* L bytes in a row go to different places.
LEMMA OtherPlace ==
  ASSUME NEW R \in Nat \ {0}, NEW L \in Nat \ {0}, R % L = 0, NEW w \in Int,
         NEW i \in 0 .. L - 1, NEW j \in 0 .. L - 1,
         ((w + i) % R) % L = ((w + j) % R) % L, i <= j
  PROVE  i = j
<1> DEFINE c == (w + i) \div L
           d == (w + j) \div L
           a == (w + i) % L
<1>1. a = (w + j) % L
  <2>1. w + i \in Int /\ w + j \in Int
    OBVIOUS
  <2>2. ((w + i) % R) % L = (w + i) % L
    BY <2>1, SamePlace
  <2>3. ((w + j) % R) % L = (w + j) % L
    BY <2>1, SamePlace
  <2> QED BY <2>2, <2>3
<1>2. c \in Int /\ d \in Int /\ a \in Int /\ w + i = L * c + a /\ w + j = L * d + a
  BY <1>1, Division
<1> HIDE DEF a, c, d
<1>3. j - i = L * (d - c) + 0
  <2>1. L * (d - c) = L * d - L * c
    BY <1>2
  <2> QED BY <1>2, <2>1
<1>4. (j - i) % L = 0
  BY <1>2, <1>3, Remainder
<1>5. (L * 0 + (j - i)) % L = j - i
  BY Remainder
<1> QED BY <1>4, <1>5

-----------------------------------------------------------------------------
(* The indices *)

IInv ==
  /\ TypeOK
  /\ pc = "dispatch" => isLocked
  /\ DrainedBeforeRecv

\* What is known of the sizes.
LEMMA Sizes ==
  /\ PROC_BUF_LEN \in Nat \ {0} /\ IndexRange \in Nat \ {0}
  /\ IndexRange % PROC_BUF_LEN = 0
  /\ PROC_SOCKET_BUF_LEN \in 1 .. PROC_BUF_LEN
  /\ PROC_SOCKET_BUF_LEN < IndexRange
BY RecvRingAssumption

\* Advancing an index twice is advancing it by the sum.
LEMMA AdvanceTwice ==
  ASSUME NEW x \in Int, NEW m \in Int, NEW n \in Int
  PROVE  Advance(Advance(x, m), n) = Advance(x, m + n)
<1> DEFINE R == IndexRange
           d == (x + m) \div R
           a == (x + m) % R
<1>1. d \in Int /\ a \in Int /\ x + m = R * d + a
  BY Sizes, Division
<1>0. R \in Nat \ {0}
  BY Sizes
<1> HIDE DEF d, a, R
<1>2. a + n \in Int
  BY <1>1
<1>3. (R * d + (a + n)) % R = (a + n) % R
  BY <1>0, <1>1, <1>2, Shift
<1>4. R * d + (a + n) = x + (m + n)
  BY <1>0, <1>1
<1> QED BY <1>3, <1>4 DEF Advance, a, R

\* An index advanced by less than the range is that far from where it was.
LEMMA AdvancedBy ==
  ASSUME NEW x \in Int, NEW n \in 0 .. IndexRange - 1
  PROVE  (Advance(x, n) - x) % IndexRange = n
<1>1. Advance(Advance(x, n), - x) = Advance(x, n + (- x))
  BY Sizes, AdvanceTwice
<1>2. Advance(x, n) \in Int
  BY Sizes, Division DEF Advance
<1>3. Advance(x, n) + (- x) = Advance(x, n) - x /\ x + (n + (- x)) = IndexRange * 0 + n
  BY <1>2, Sizes
<1>4. (IndexRange * 0 + n) % IndexRange = n
  BY Sizes, Remainder
<1> QED BY <1>1, <1>3, <1>4 DEF Advance

\* The indices are equal exactly if the ring holds nothing.
LEMMA HeldZero ==
  ASSUME NEW r \in Index, NEW w \in Index
  PROVE  /\ (w - r) % IndexRange \in 0 .. IndexRange - 1
         /\ (w - r) % IndexRange = 0 <=> w = r
<1> DEFINE R == IndexRange
           d == (w - r) \div R
           a == (w - r) % R
<1>1. R \in Nat \ {0} /\ r \in 0 .. R - 1 /\ w \in 0 .. R - 1
  BY Sizes DEF Index
<1> HIDE DEF R
<1>2. d \in Int /\ a \in 0 .. R - 1 /\ w - r = R * d + a
  BY <1>1, Division
<1> HIDE DEF d, a
<1>3. ASSUME a = 0 PROVE w = r
  <2>1. ASSUME d >= 1 PROVE R * d >= R
    BY <1>1, <1>2, <2>1
  <2>2. ASSUME d <= -1 PROVE R * d <= - R
    BY <1>1, <1>2, <2>2
  <2>3. d = 0
    BY <1>1, <1>2, <1>3, <2>1, <2>2
  <2> QED BY <1>1, <1>2, <1>3, <2>3
<1>4. ASSUME w = r PROVE a = 0
  <2>1. (R * 0 + 0) % R = 0
    BY <1>1, Remainder
  <2>2. w - r = R * 0 + 0
    BY <1>1, <1>4
  <2> QED BY <2>1, <2>2 DEF a
<1> QED BY <1>2, <1>3, <1>4 DEF a, R

\* A byte taken is one less to read.
LEMMA HeldLess ==
  ASSUME NEW r \in Index, NEW w \in Index, r # w
  PROVE  (w - Advance(r, 1)) % IndexRange = ((w - r) % IndexRange) - 1
<1> DEFINE R == IndexRange
           d == (w - r) \div R
           a == (w - r) % R
           e == (r + 1) \div R
           b == (r + 1) % R
<1>1. R \in Nat \ {0} /\ r \in Int /\ w \in Int
  BY Sizes DEF Index
<1>2. a \in 1 .. R - 1
  BY HeldZero, <1>1
<1> HIDE DEF R
<1>3. d \in Int /\ w - r = R * d + a
  BY <1>1, Division
<1>4. e \in Int /\ b \in Int /\ r + 1 = R * e + b
  BY <1>1, Division
<1> HIDE DEF a, b, d, e
<1>5. w - b = R * (d + e) + (a - 1)
  <2>1. R * (d + e) = R * d + R * e
    BY <1>1, <1>3, <1>4
  <2> QED BY <1>1, <1>2, <1>3, <1>4, <2>1
<1>6. (R * (d + e) + (a - 1)) % R = a - 1
  BY <1>1, <1>2, <1>3, <1>4, Remainder
<1> QED BY <1>5, <1>6 DEF a, b, R, Advance
\* The indices stay in their range.
LEMMA AdvanceType ==
  ASSUME NEW x \in Int, NEW n \in Int
  PROVE  Advance(x, n) \in Index
BY Sizes, Division DEF Advance, Index

-----------------------------------------------------------------------------
(* The bytes of one recv *)

\* What one recv returns is a sequence of its length.
LEMMA ReceivedSeq ==
  ASSUME NEW n \in 1 .. PROC_SOCKET_BUF_LEN, NEW s \in [1 .. n -> Byte]
  PROVE  s \in Seq(Byte) /\ Len(s) = n
BY Sizes

\* Each byte is in its place of the ring afterwards, and the ring still holds bytes.
LEMMA WrittenInPlace ==
  ASSUME TypeOK, NEW n \in 1 .. PROC_SOCKET_BUF_LEN, NEW s \in [1 .. n -> Byte]
  PROVE  /\ Written(s) \in [Place -> Byte]
         /\ \A k \in 1 .. n : Written(s)[Advance(pWrite, k - 1) % PROC_BUF_LEN] = s[k]
<1> DEFINE at(k) == Advance(pWrite, k - 1) % PROC_BUF_LEN
<1>1. Len(s) = n
  BY ReceivedSeq
<1>2. pWrite \in Int /\ buf \in [Place -> Byte]
  BY Sizes DEF TypeOK, Index
<1>3. ASSUME NEW k \in 1 .. n PROVE at(k) \in Place
  <2>1. Advance(pWrite, k - 1) \in Int
    BY <1>2, AdvanceType, Sizes DEF Index
  <2> QED BY <2>1, Sizes, Division DEF Place
<1>4. ASSUME NEW j \in 1 .. n, NEW k \in 1 .. n, at(j) = at(k) PROVE j = k
  <2>1. /\ j - 1 \in 0 .. PROC_BUF_LEN - 1 /\ k - 1 \in 0 .. PROC_BUF_LEN - 1
    BY Sizes
  <2>2. ((pWrite + (j - 1)) % IndexRange) % PROC_BUF_LEN
          = ((pWrite + (k - 1)) % IndexRange) % PROC_BUF_LEN
    BY <1>4 DEF Advance
  <2>3. ASSUME j - 1 <= k - 1 PROVE j - 1 = k - 1
    BY <1>2, <2>1, <2>2, <2>3, Sizes, OtherPlace, Zenon
  <2>4. ASSUME k - 1 <= j - 1 PROVE k - 1 = j - 1
    BY <1>2, <2>1, <2>2, <2>4, Sizes, OtherPlace, Zenon
  <2> QED BY <2>1, <2>3, <2>4
<1>5. Written(s) = [i \in Place |->
                      IF \E k \in 1 .. n : at(k) = i
                        THEN s[CHOOSE k \in 1 .. n : at(k) = i] ELSE buf[i]]
  BY <1>1 DEF Written
<1> HIDE DEF at
<1>6. ASSUME NEW k \in 1 .. n PROVE (CHOOSE j \in 1 .. n : at(j) = at(k)) = k
  BY <1>4
<1>7. \A k \in 1 .. n : Written(s)[at(k)] = s[k]
  BY <1>3, <1>5, <1>6
<1>8. ASSUME NEW i \in Place PROVE Written(s)[i] \in Byte
  <2>1. CASE \E k \in 1 .. n : at(k) = i
    <3>1. PICK k \in 1 .. n : at(k) = i
      BY <2>1
    <3> QED BY <1>7, <3>1
  <2>2. CASE ~ \E k \in 1 .. n : at(k) = i
    BY <1>2, <1>5, <2>2
  <2> QED BY <2>1, <2>2
<1>9. Written(s) \in [Place -> Byte]
  BY <1>5, <1>8
<1> QED BY <1>7, <1>9 DEF at

-----------------------------------------------------------------------------
(* The invariant *)

\* A fresh channel.
LEMMA InitIInv == Init => IInv
<1> SUFFICES ASSUME Init PROVE IInv
  OBVIOUS
<1>1. 0 \in Index /\ Zeroed \in [Place -> Byte]
  BY Sizes, RecvRingAssumption DEF Index, Zeroed
<1>2. Held = 0
  BY <1>1, HeldZero DEF Init, Held
<1>3. TypeOK
  BY <1>1 DEF Init, TypeOK
<1>4. 0 <= PROC_SOCKET_BUF_LEN
  BY Sizes
<1>5. DrainedBeforeRecv
  BY <1>2, <1>4 DEF DrainedBeforeRecv
<1>6. pc # "dispatch"
  BY DEF Init
<1> QED BY <1>3, <1>5, <1>6 DEF IInv

\* What one recv adds to an empty ring.
LEMMA ReadSocketKeeps ==
  ASSUME IInv, NEW n \in 1 .. PROC_SOCKET_BUF_LEN, NEW s \in [1 .. n -> Byte], ReadSocket(s)
  PROVE  /\ IInv'
         /\ ~Deaf => Held' = n /\ pRead = pWrite
<1>1. TypeOK /\ Len(s) = n /\ pc = "recv"
  BY ReceivedSeq DEF IInv, ReadSocket
<1>2. buf' \in [Place -> Byte] /\ pWrite' \in Index
  <2>1. pWrite \in Int /\ n \in Int
    BY <1>1, Sizes DEF TypeOK, Index
  <2>2. Advance(pWrite, n) \in Index
    BY <2>1, AdvanceType
  <2>3. Written(s) \in [Place -> Byte]
    BY <1>1, WrittenInPlace
  <2> QED BY <1>1, <2>2, <2>3 DEF ReadSocket
<1>3. TypeOK'
  BY <1>1, <1>2 DEF TypeOK, ReadSocket
<1>4. ASSUME ~Deaf PROVE Held' = n /\ pRead = pWrite
  <2>1. pRead = pWrite
    BY <1>1, <1>4, HeldZero DEF IInv, DrainedBeforeRecv, Held, TypeOK
  <2>2. n \in 0 .. IndexRange - 1 /\ pWrite \in Int
    BY <1>1, Sizes DEF TypeOK, Index
  <2>3. pWrite' = Advance(pWrite, n) /\ pRead' = pWrite
    BY <1>1, <2>1 DEF ReadSocket
  <2> QED BY <2>1, <2>2, <2>3, AdvancedBy DEF Held
<1>5. Deaf' <=> Deaf
  BY <1>1 DEF ReadSocket, Deaf
<1>6. DrainedBeforeRecv'
  BY <1>4, <1>5, Sizes DEF DrainedBeforeRecv, ReadSocket
<1> QED BY <1>3, <1>4, <1>6 DEF IInv, ReadSocket

\* A byte is taken from a ring that is not empty.
LEMMA TakeByteKeeps ==
  ASSUME IInv, TakeByte
  PROVE  IInv' /\ ~Deaf /\ ~Deaf' /\ Held \in Nat \ {0} /\ Held' = Held - 1
<1>1. TypeOK /\ pRead \in Index /\ pWrite \in Index /\ pRead # pWrite
  BY DEF IInv, TypeOK, TakeByte
<1>2. TypeOK'
  <2>1. pRead \in Int
    BY <1>1, Sizes DEF Index
  <2>2. pRead' \in Index /\ buf' = buf /\ pWrite' = pWrite
    BY <2>1, AdvanceType DEF TakeByte
  <2>3. /\ pc' \in {"recv", "getProc", "dispatch"}
        /\ isLocked' \in BOOLEAN
    BY <1>1 DEF TypeOK, TakeByte
  <2> QED BY <1>1, <2>2, <2>3 DEF TypeOK
<1>3. ~Deaf /\ ~Deaf'
  BY DEF TakeByte, Deaf
<1>4. Held \in Nat \ {0}
  BY <1>1, HeldZero, Sizes DEF Held
<1>5. Held' = Held - 1
  BY <1>1, HeldLess DEF TakeByte, Held
<1>6. DrainedBeforeRecv'
  BY <1>3, <1>4, <1>5, Sizes DEF IInv, DrainedBeforeRecv, TakeByte
<1> QED BY <1>2, <1>3, <1>4, <1>5, <1>6 DEF IInv, TakeByte

\* Every step keeps the invariant.
LEMMA NextIInv == IInv /\ [Next]_vars => IInv'
<1> SUFFICES ASSUME IInv, [Next]_vars PROVE IInv'
  OBVIOUS
<1>0. TypeOK
  BY DEF IInv
<1>1. CASE NotFound
  <2>1. Held' = Held /\ (Deaf' <=> Deaf)
    BY <1>1 DEF NotFound, Held, Deaf
  <2>2. ~Deaf => Held = 0
    BY <1>0, <1>1, HeldZero DEF NotFound, Deaf, Held, TypeOK
  <2> QED BY <1>0, <1>1, <2>1, <2>2, Sizes DEF IInv, TypeOK, NotFound, DrainedBeforeRecv
<1>2. CASE Dispatch
  <2>1. Held' = Held /\ ~Deaf /\ pc' = "getProc"
    BY <1>2 DEF Dispatch, Held, Deaf
  <2> QED BY <1>0, <1>2, <2>1 DEF IInv, TypeOK, Dispatch, DrainedBeforeRecv
<1>3. CASE EndSession
  <2>1. 0 \in Index /\ Zeroed \in [Place -> Byte]
    BY Sizes, RecvRingAssumption DEF Index, Zeroed
  <2>2. Held' = 0
    BY <1>3, <2>1, HeldZero DEF EndSession, Held
  <2>3. TypeOK' /\ pc' # "dispatch"
    BY <1>0, <1>3, <2>1 DEF TypeOK, EndSession
  <2>4. 0 <= PROC_SOCKET_BUF_LEN
    BY Sizes
  <2>5. DrainedBeforeRecv'
    BY <2>2, <2>4 DEF DrainedBeforeRecv
  <2> QED BY <2>3, <2>5 DEF IInv
<1>4. CASE UNCHANGED vars
  <2>1. Held' = Held /\ (Deaf' <=> Deaf)
    BY <1>4 DEF vars, Held, Deaf
  <2> QED BY <1>0, <1>4, <2>1 DEF IInv, TypeOK, vars, DrainedBeforeRecv
<1> QED BY <1>1, <1>2, <1>3, <1>4, ReadSocketKeeps, TakeByteKeeps DEF Next

\* The invariant holds always.
THEOREM Invariance == Spec => []IInv
BY InitIInv, NextIInv, PTL DEF Spec

\* The indices stay in 16 bits and the ring holds bytes.
THEOREM TypeCorrect == Spec => []TypeOK
<1>1. IInv => TypeOK
  BY DEF IInv
<1> QED BY <1>1, Invariance, PTL

\* The ring is empty before every recv: readSocket, which never looks for room, always
\* has it, whatever the client sends and however often the indices have wrapped.
THEOREM AlwaysRoom == Spec => []DrainedBeforeRecv
<1>1. IInv => DrainedBeforeRecv
  BY DEF IInv
<1> QED BY <1>1, Invariance, PTL

-----------------------------------------------------------------------------
(* The ring implements the queue *)

\* A ring that holds nothing is the empty queue.
LEMMA NothingHeld == Held = 0 => Unread = <<>>
BY DEF Unread

\* The ring after a recv holds what the recv returned.
LEMMA UnreadReceived ==
  ASSUME IInv, ~Deaf, NEW n \in 1 .. PROC_SOCKET_BUF_LEN, NEW s \in [1 .. n -> Byte],
         ReadSocket(s)
  PROVE  Unread' = s
<1>1. Held' = n /\ pRead = pWrite
  BY ReadSocketKeeps
<1>2. pRead' = pWrite /\ buf' = Written(s)
  BY <1>1 DEF ReadSocket
<1>3. Unread' = [k \in 1 .. n |-> Written(s)[Advance(pWrite, k - 1) % PROC_BUF_LEN]]
  BY <1>1, <1>2 DEF Unread
<1>4. \A k \in 1 .. n : Written(s)[Advance(pWrite, k - 1) % PROC_BUF_LEN] = s[k]
  BY WrittenInPlace DEF IInv
<1> QED BY <1>3, <1>4

\* What is left after a byte has been taken.
LEMMA UnreadTaken ==
  ASSUME IInv, TakeByte
  PROVE  Unread # <<>> /\ Unread' = Tail(Unread)
<1>1. Held \in Nat \ {0} /\ Held' = Held - 1
  BY TakeByteKeeps
<1>2. TypeOK /\ buf \in [Place -> Byte] /\ pRead \in Int
  BY Sizes DEF IInv, TypeOK, Index
<1>3. Unread \in Seq(Byte) /\ Len(Unread) = Held
  <2>1. ASSUME NEW k \in 1 .. Held PROVE buf[Advance(pRead, k - 1) % PROC_BUF_LEN] \in Byte
    <3>1. Advance(pRead, k - 1) \in Int
      BY <1>1, <1>2, AdvanceType, Sizes DEF Index
    <3>2. Advance(pRead, k - 1) % PROC_BUF_LEN \in Place
      BY <3>1, Sizes, Division DEF Place
    <3> QED BY <1>2, <3>2
  <2> QED BY <1>1, <2>1 DEF Unread
<1>4. Unread' = [k \in 1 .. Held - 1 |-> buf[Advance(Advance(pRead, 1), k - 1) % PROC_BUF_LEN]]
  BY <1>1 DEF Unread, TakeByte
<1>5. ASSUME NEW k \in 1 .. Held - 1
      PROVE  Advance(Advance(pRead, 1), k - 1) = Advance(pRead, (k + 1) - 1)
  <2>1. k - 1 \in Int /\ 1 + (k - 1) = (k + 1) - 1
    BY <1>1
  <2>2. Advance(Advance(pRead, 1), k - 1) = Advance(pRead, 1 + (k - 1))
    BY <1>2, <2>1, AdvanceTwice
  <2> QED BY <2>1, <2>2
<1>6. Tail(Unread) = [k \in 1 .. Held - 1 |-> Unread[k + 1]]
  <2>1. /\ Tail(Unread) \in Seq(Byte)
        /\ Len(Tail(Unread)) = Held - 1
        /\ \A k \in 1 .. Held - 1 : Tail(Unread)[k] = Unread[k + 1]
    BY <1>1, <1>3
  <2>2. Tail(Unread) \in [1 .. Held - 1 -> Byte]
    BY <2>1, LenProperties
  <2> QED BY <2>1, <2>2
<1>7. \A k \in 1 .. Held - 1 : Unread[k + 1] = buf[Advance(pRead, (k + 1) - 1) % PROC_BUF_LEN]
  BY <1>1 DEF Unread
<1>8. Unread # <<>>
  BY <1>1, <1>3
<1> QED BY <1>4, <1>5, <1>6, <1>7, <1>8

\* A fresh channel is an empty queue.
LEMMA InitQueue == Init => Queue!Init
<1> SUFFICES ASSUME Init PROVE Queue!Init
  OBVIOUS
<1>1. ~Deaf
  BY DEF Init, Deaf
<1>2. 0 \in Index /\ pRead = 0 /\ pWrite = 0
  BY Sizes DEF Init, Index
<1>3. Unread = <<>>
  BY <1>2, HeldZero, NothingHeld DEF Held
<1> QED BY <1>1, <1>3 DEF Queue!Init

\* Every step receives, consumes, abandons or renews, or is invisible.
LEMMA NextQueue == IInv /\ [Next]_vars => [Queue!Next]_(Queue!queueVars)
<1> SUFFICES ASSUME IInv, [Next]_vars PROVE [Queue!Next]_(Queue!queueVars)
  OBVIOUS
<1> USE DEF Queue!queueVars
<1>1. ASSUME NEW n \in 1 .. PROC_SOCKET_BUF_LEN, NEW s \in [1 .. n -> Byte], ReadSocket(s)
      PROVE  Queue!Receive(s) \/ UNCHANGED Queue!queueVars
  <2>1. Deaf' = Deaf
    BY <1>1 DEF ReadSocket, Deaf
  <2>2. CASE Deaf
    BY <2>1, <2>2
  <2>3. CASE ~Deaf
    <3>1. Held = 0
      BY <1>1, <2>3 DEF IInv, DrainedBeforeRecv, ReadSocket
    <3> QED BY <1>1, <2>1, <2>3, <3>1, NothingHeld, UnreadReceived DEF Queue!Receive
  <2> QED BY <2>2, <2>3
<1>2. CASE TakeByte
  <2>1. ~Deaf /\ ~Deaf'
    BY <1>2, TakeByteKeeps
  <2>2. Deaf' = Deaf
    BY <2>1 DEF Deaf
  <2> QED BY <1>2, <2>1, <2>2, UnreadTaken DEF Queue!Consume, Queue!Next
<1>3. CASE NotFound \/ UNCHANGED vars
  <2>1. Deaf' = Deaf
    BY <1>3 DEF NotFound, vars, Deaf
  <2>2. Unread' = Unread
    BY <1>3 DEF NotFound, vars, Unread, Held
  <2> QED BY <2>1, <2>2
<1>4. CASE Dispatch
  <2>1. ~Deaf /\ Unread' = Unread
    BY <1>4 DEF Dispatch, Deaf, Unread, Held
  <2>2. CASE Deaf'
    BY <2>1, <2>2 DEF Queue!Abandon, Queue!Next
  <2>3. CASE ~Deaf'
    <3>1. Deaf' = Deaf
      BY <2>1, <2>3 DEF Deaf
    <3> QED BY <2>1, <3>1
  <2> QED BY <2>2, <2>3
<1>5. CASE EndSession
  <2>1. ~Deaf'
    BY <1>5 DEF EndSession, Deaf
  <2>2. 0 \in Index /\ pRead' = 0 /\ pWrite' = 0
    BY <1>5, Sizes DEF EndSession, Index
  <2>3. Held' = 0
    BY <2>2, HeldZero DEF Held
  <2>4. Unread' = <<>>
    BY <2>3 DEF Unread
  <2> QED BY <2>1, <2>4 DEF Queue!Renew, Queue!Next
<1> QED BY <1>1, <1>2, <1>3, <1>4, <1>5 DEF Next, Queue!Next

\* The ring with its wrapping indices is a queue: each byte comes out once, unchanged
\* and in order, for every size of ring, recv and index.
THEOREM Refinement == Spec => ImplementsQueue
BY InitQueue, NextQueue, Invariance, PTL DEF Spec, ImplementsQueue, Queue!Spec
=============================================================================

------------------------ MODULE HistoryPaging_proofs ------------------------
(***************************************************************************)
(* What HistoryPaging keeps for every size of frame, record and result.    *)
(*                                                                         *)
(* The invariants the runs check are not inductive: they speak of the last *)
(* frame, and the next one is made from the cache.  The strengthening says *)
(* what a live cache looks like (CacheLive): all packages but the last are *)
(* full, so that pUpload is RecsPerPkg times pkgSent, and RecsPerPkg times *)
(* (pkgTotal - 1) records leave room for lastPkgCnt more.                  *)
(***************************************************************************)
EXTENDS HistoryPaging, TLAPS

-----------------------------------------------------------------------------
(* Arithmetic *)

\* Division with a remainder.
LEMMA Division ==
  ASSUME NEW P \in Nat \ {0}, NEW n \in Nat
  PROVE  /\ n \div P \in Nat
         /\ n % P \in 0 .. P - 1
         /\ n = P * (n \div P) + (n % P)
BY SMT

\* The number of packages of P records that n records need: one less would not
\* hold them, and the remainder of n fits after the full ones.
LEMMA Packages ==
  ASSUME NEW P \in Nat \ {0}, NEW n \in Nat \ {0},
         NEW q, q = (n + (P - 1)) \div P
  PROVE  /\ q \in Nat \ {0}
         /\ P * (q - 1) < n
         /\ n <= P * q
         /\ P * (q - 1) + (n % P) <= n
         /\ n % P # 0 => P * (q - 1) + (n % P) = n
<1> DEFINE m == n + (P - 1)
           d == n \div P
           r == n % P
<1>0. m \in Nat /\ m = n + P - 1
  OBVIOUS
<1>1. q \in Nat /\ m % P \in 0 .. P - 1 /\ m = P * q + (m % P)
  <2> HIDE DEF m
  <2>1. m \div P \in Nat /\ m % P \in 0 .. P - 1 /\ m = P * (m \div P) + (m % P)
    BY <1>0, Division
  <2>2. q = m \div P
    BY DEF m
  <2> QED BY <2>1, <2>2
<1>2. d \in Nat /\ r \in 0 .. P - 1 /\ n = P * d + r
  BY Division
<1> HIDE DEF d, r, m
<1>3. P * (q - 1) = P * q - P
  BY <1>1
<1>4. q # 0
  BY <1>0, <1>1
<1>5. P * (q - 1) < n /\ n <= P * q
  BY <1>0, <1>1, <1>3
<1>6. q - 1 <= d
  <2>1. SUFFICES ASSUME q - 1 >= d + 1 PROVE FALSE
    BY <1>1, <1>2
  <2>2. P * (q - 1) >= P * (d + 1)
    BY <1>1, <1>2, <2>1
  <2>3. P * (d + 1) = P * d + P
    BY <1>2
  <2> QED BY <1>1, <1>2, <1>3, <1>5, <2>2, <2>3
<1>7. P * (q - 1) <= P * d
  BY <1>1, <1>2, <1>4, <1>6
<1>8. r # 0 => q - 1 = d
  <2>1. SUFFICES ASSUME r # 0, q - 1 < d PROVE FALSE
    BY <1>1, <1>2, <1>6
  <2>2. P * q <= P * d
    BY <1>1, <1>2, <2>1
  <2> QED BY <1>1, <1>2, <1>5, <2>1, <2>2
<1> QED BY <1>1, <1>2, <1>4, <1>5, <1>7, <1>8 DEF r

\* A package holds at least one record, and a full one fits a frame.
LEMMA PackageSize ==
  /\ RecsPerPkg \in Nat \ {0}
  /\ RecordSize * RecsPerPkg <= PROC_CONTENT_LEN - 10
<1> DEFINE len == PROC_CONTENT_LEN - 10
<1>1. /\ len \in Nat /\ RecordSize \in Nat \ {0} /\ RecordSize <= len
      /\ PROC_CONTENT_LEN \in Nat
  BY HistoryPagingAssumption
<1>2. RecsPerPkg = len \div RecordSize
  BY DEF RecsPerPkg
<1> HIDE DEF len
<1>3. RecsPerPkg \in Nat /\ len % RecordSize \in 0 .. RecordSize - 1
      /\ len = RecordSize * RecsPerPkg + (len % RecordSize)
  BY <1>1, <1>2, Division
<1>4. RecsPerPkg # 0
  BY <1>1, <1>3
<1> QED BY <1>1, <1>3, <1>4 DEF len

-----------------------------------------------------------------------------
(* The inductive invariant *)

Cache == [recordBuf : Nat, pUpload : Nat, recordCnt : Nat,
          lastPkgCnt : Nat, pkgTotal : Nat, pkgSent : Nat]

\* a cache with packages still to send
CacheLive(p) ==
  /\ p \in Cache
  /\ p.recordBuf # 0
  /\ p.recordCnt = p.recordBuf
  /\ p.pkgTotal \in 1 .. 255
  /\ p.pkgSent \in 0 .. p.pkgTotal - 1
  /\ p.pUpload = RecsPerPkg * p.pkgSent
  /\ p.lastPkgCnt \in 0 .. RecsPerPkg - 1
  /\ RecsPerPkg * (p.pkgTotal - 1) < p.recordBuf
  /\ RecsPerPkg * (p.pkgTotal - 1) + p.lastPkgCnt <= p.recordBuf

\* the last frame and the cache it was made from
FrameInv ==
  /\ frame.count <= RecsPerPkg
  /\ frame.ctrl = FOLLOWS =>
       /\ pRecord # Cleared
       /\ pRecord.pUpload = frame.from + frame.count
  /\ pRecord # Cleared => frame.ctrl = FOLLOWS

IInv ==
  /\ TypeOK
  /\ pRecord = Cleared \/ (CacheLive(pRecord) /\ pRecord.pkgSent # 0)
  /\ HeapBalanced
  /\ ReadsInBounds
  /\ LastFrameFlagged
  /\ FrameInv

\* What api_phoneQuery makes of a result of n records.
LEMMA Filled ==
  ASSUME NEW n \in 1 .. MAX_RECORD_CNT, NEW p, p = Fill(Cleared, n)
  PROVE  /\ CacheLive(p)
         /\ p.recordBuf = n /\ p.pUpload = 0 /\ p.pkgSent = 0
         /\ p.pkgTotal = 1 => n <= RecsPerPkg
<1> DEFINE q == (n + (RecsPerPkg - 1)) \div RecsPerPkg
           r == n % RecsPerPkg
<1>1. n \in Nat \ {0} /\ n <= 255 * RecsPerPkg
  BY HistoryPagingAssumption, PackageSize
<1>2. p = [recordBuf |-> n, pUpload |-> 0, recordCnt |-> n,
           lastPkgCnt |-> r, pkgTotal |-> q, pkgSent |-> 0]
  BY DEF Fill, Cleared
<1>3. /\ q \in Nat \ {0}
      /\ RecsPerPkg * (q - 1) < n
      /\ n <= RecsPerPkg * q
      /\ RecsPerPkg * (q - 1) + r <= n
  BY <1>1, PackageSize, Packages
<1>4. r \in 0 .. RecsPerPkg - 1
  BY <1>1, PackageSize, Division
<1> HIDE DEF q, r
<1>5. q <= 255
  <2>1. SUFFICES ASSUME q - 1 >= 255 PROVE FALSE
    BY <1>3
  <2>2. RecsPerPkg * (q - 1) >= RecsPerPkg * 255
    BY <1>3, <2>1, PackageSize
  <2> QED BY <1>1, <1>3, <2>2, PackageSize
<1>6. q = 1 => n <= RecsPerPkg
  BY <1>3, PackageSize
<1>7. RecsPerPkg * 0 = 0
  BY PackageSize
<1>8. p \in Cache
  BY <1>1, <1>2, <1>3, <1>4, PackageSize DEF Cache
<1> QED BY <1>1, <1>2, <1>3, <1>4, <1>5, <1>6, <1>7, <1>8 DEF CacheLive

\* What a package takes from a live cache is in its buffer.
LEMMA LiveRead ==
  ASSUME NEW p, CacheLive(p)
  PROVE  /\ p.pkgTotal - p.pkgSent > 1 => p.pUpload + RecsPerPkg < p.recordBuf
         /\ p.pkgTotal - p.pkgSent = 1 => p.pUpload + p.lastPkgCnt <= p.recordBuf
         /\ RecsPerPkg * (p.pkgSent + 1) = p.pUpload + RecsPerPkg
<1>1. /\ p.pkgSent \in Nat /\ p.pkgTotal \in Nat /\ p.recordBuf \in Nat
      /\ RecsPerPkg \in Nat \ {0} /\ p.lastPkgCnt \in Nat
      /\ p.pUpload = RecsPerPkg * p.pkgSent
      /\ RecsPerPkg * (p.pkgTotal - 1) < p.recordBuf
      /\ RecsPerPkg * (p.pkgTotal - 1) + p.lastPkgCnt <= p.recordBuf
  BY PackageSize DEF CacheLive, Cache
<1>2. RecsPerPkg * (p.pkgSent + 1) = p.pUpload + RecsPerPkg
  BY <1>1
<1>3. ASSUME p.pkgTotal - p.pkgSent > 1 PROVE p.pUpload + RecsPerPkg < p.recordBuf
  <2>1. p.pkgSent + 1 <= p.pkgTotal - 1
    BY <1>1, <1>3
  <2>2. RecsPerPkg * (p.pkgSent + 1) <= RecsPerPkg * (p.pkgTotal - 1)
    BY <1>1, <2>1
  <2>3. RecsPerPkg * (p.pkgTotal - 1) \in Int
    BY <1>1
  <2> QED BY <1>1, <1>2, <2>2, <2>3
<1>4. ASSUME p.pkgTotal - p.pkgSent = 1 PROVE p.pUpload + p.lastPkgCnt <= p.recordBuf
  <2>1. p.pkgSent = p.pkgTotal - 1
    BY <1>1, <1>4
  <2> QED BY <1>1, <2>1
<1> QED BY <1>2, <1>3, <1>4

-----------------------------------------------------------------------------
(* Every step keeps it *)

\* A live cache gives the last package: the frame is right, the buffer is freed.
LEMMA LastKeeps ==
  ASSUME NEW p, CacheLive(p), p.pkgTotal - p.pkgSent = 1,
         NEW count \in 0 .. RecsPerPkg, p.pUpload + count <= p.recordBuf,
         SendLast(p, count, p.recordBuf)
  PROVE  IInv'
<1>1. /\ p \in Cache /\ p.pkgTotal \in 1 .. 255 /\ p.pkgSent \in Nat
      /\ p.pkgSent + 1 = p.pkgTotal
      /\ RecsPerPkg \in Nat
  BY PackageSize DEF CacheLive, Cache
<1>2. /\ pRecord' = Cleared
      /\ heap' = p.recordBuf - p.recordBuf
      /\ frame' = [ctrl |-> LAST, total |-> p.pkgTotal, sent |-> p.pkgTotal,
                   from |-> p.pUpload, count |-> count, room |-> p.recordBuf]
  <2>1. p.pkgTotal % 256 = p.pkgTotal
    BY <1>1
  <2> QED BY <1>1, <2>1 DEF SendLast, Package
<1>3. heap' = 0
  BY <1>1, <1>2 DEF Cache
<1>4. TypeOK'
  <2>1. Cleared \in Cache
    BY DEF Cleared, Cache
  <2>2. frame' \in Frame
    BY <1>1, <1>2 DEF Frame, Cache
  <2> QED BY <1>2, <1>3, <2>1, <2>2 DEF TypeOK, Cache
<1>5. HeapBalanced'
  BY <1>2, <1>3 DEF HeapBalanced, Cleared
<1>6. ReadsInBounds'
  BY <1>2 DEF ReadsInBounds
<1>7. LastFrameFlagged'
  BY <1>2 DEF LastFrameFlagged, LAST, FOLLOWS
<1>8. FrameInv'
  BY <1>1, <1>2 DEF FrameInv, LAST, FOLLOWS
<1> QED BY <1>2, <1>4, <1>5, <1>6, <1>7, <1>8 DEF IInv

\* A live cache gives a package that others follow: it stays live.
LEMMA MoreKeeps ==
  ASSUME NEW p, CacheLive(p), p.pkgTotal - p.pkgSent > 1,
         SendMore(p), heap' = p.recordBuf
  PROVE  IInv'
<1>1. /\ p \in Cache /\ p.pkgTotal \in 1 .. 255 /\ p.pkgSent \in Nat
      /\ p.pkgSent + 1 < p.pkgTotal /\ p.recordBuf \in Nat \ {0}
      /\ p.pUpload \in Nat
      /\ RecsPerPkg \in Nat
  BY PackageSize DEF CacheLive, Cache
<1>2. /\ p.pUpload + RecsPerPkg < p.recordBuf
      /\ RecsPerPkg * (p.pkgSent + 1) = p.pUpload + RecsPerPkg
  BY LiveRead
<1>3. frame' = [ctrl |-> FOLLOWS, total |-> p.pkgTotal, sent |-> p.pkgSent + 1,
                from |-> p.pUpload, count |-> RecsPerPkg, room |-> p.recordBuf]
  <2>1. p.pkgTotal % 256 = p.pkgTotal /\ (p.pkgSent + 1) % 256 = p.pkgSent + 1
    BY <1>1
  <2> QED BY <2>1 DEF SendMore, Package
<1>4. /\ pRecord' \in Cache
      /\ pRecord'.recordBuf = p.recordBuf
      /\ pRecord'.recordCnt = p.recordCnt
      /\ pRecord'.lastPkgCnt = p.lastPkgCnt
      /\ pRecord'.pkgTotal = p.pkgTotal
      /\ pRecord'.pkgSent = p.pkgSent + 1
      /\ pRecord'.pUpload = p.pUpload + RecsPerPkg
  <2>1. pRecord' = [p EXCEPT !.pkgSent = p.pkgSent + 1, !.pUpload = p.pUpload + RecsPerPkg]
    BY DEF SendMore
  <2>2. p.pkgSent + 1 \in Nat /\ p.pUpload + RecsPerPkg \in Nat
    BY <1>1
  <2> QED BY <1>1, <2>1, <2>2 DEF Cache
<1>5. CacheLive(pRecord') /\ pRecord'.pkgSent # 0
  BY <1>1, <1>2, <1>4 DEF CacheLive
<1>6. TypeOK'
  <2>1. frame' \in Frame
    BY <1>1, <1>3 DEF Frame
  <2> QED BY <1>1, <1>4, <2>1 DEF TypeOK, Cache
<1>7. HeapBalanced'
  BY <1>4 DEF HeapBalanced
<1>8. ReadsInBounds'
  BY <1>1, <1>2, <1>3 DEF ReadsInBounds
<1>9. LastFrameFlagged'
  BY <1>1, <1>3, <1>4 DEF LastFrameFlagged, LAST, FOLLOWS
<1>10. FrameInv'
  <2>1. pRecord' # Cleared
    BY <1>1, <1>4 DEF Cleared
  <2> QED BY <1>1, <1>3, <1>4, <2>1 DEF FrameInv
<1> QED BY <1>5, <1>6, <1>7, <1>8, <1>9, <1>10 DEF IInv

\* app_process leaves an empty cache and nothing allocated before it calls any
\* handler but those of a follow-ack and a heartbeat.
LEMMA DropClears ==
  ASSUME IInv
  PROVE  CacheDropped = Cleared /\ HeapDropped = 0
<1>1. CASE pRecord = Cleared
  BY <1>1 DEF IInv, HeapBalanced, CacheDropped, HeapDropped, Cleared
<1>2. CASE CacheLive(pRecord)
  BY <1>2 DEF IInv, HeapBalanced, CacheDropped, HeapDropped, CacheLive, Cache
<1> QED BY <1>1, <1>2 DEF IInv

\* A session starts without a transfer.
LEMMA InitIInv == Init => IInv
<1> SUFFICES ASSUME Init PROVE IInv
  OBVIOUS
<1>1. TypeOK
  BY DEF Init, TypeOK, Cleared
<1> QED BY <1>1, PackageSize DEF Init, IInv, HeapBalanced, ReadsInBounds,
           LastFrameFlagged, FrameInv, Cleared, NoFrame, LAST, FOLLOWS

\* Every message of the phone keeps the invariant.
LEMMA NextIInv == IInv /\ [Next]_vars => IInv'
<1> SUFFICES ASSUME IInv, [Next]_vars PROVE IInv'
  OBVIOUS
<1>0. CacheDropped = Cleared /\ HeapDropped = 0
  BY DropClears
<1>1. ASSUME NEW found \in FoundCnt, PhoneQuery(found) PROVE IInv'
  <2> DEFINE n == Kept(found)
             p == Fill(CacheDropped, n)
  <2>1. n \in 1 .. MAX_RECORD_CNT
    BY <1>1, HistoryPagingAssumption DEF PhoneQuery, Kept
  <2> HIDE DEF n
  <2>2. /\ CacheLive(p)
        /\ p.recordBuf = n /\ p.pUpload = 0 /\ p.pkgSent = 0
        /\ p.pkgTotal = 1 => n <= RecsPerPkg
    BY <1>0, <2>1, Filled
  <2>3. /\ p.pkgTotal = 1 => SendLast(p, p.recordCnt, HeapDropped + n)
        /\ p.pkgTotal # 1 => SendMore(p) /\ heap' = HeapDropped + n
    BY <1>1 DEF PhoneQuery, n
  <2> HIDE DEF p
  <2>4. HeapDropped + n = p.recordBuf
    BY <1>0, <2>1, <2>2
  <2>5. CASE p.pkgTotal = 1
    <3>1. p.recordCnt = n
      BY <2>2 DEF CacheLive
    <3>2. p.recordCnt \in 0 .. RecsPerPkg /\ p.pUpload + p.recordCnt <= p.recordBuf
      BY <2>1, <2>2, <2>5, <3>1, PackageSize
    <3>3. p.pkgTotal - p.pkgSent = 1
      BY <2>2, <2>5
    <3> QED BY <2>2, <2>3, <2>4, <2>5, <3>2, <3>3, LastKeeps
  <2>6. CASE p.pkgTotal # 1
    <3>1. p.pkgTotal - p.pkgSent > 1
      BY <2>2, <2>6 DEF CacheLive
    <3> QED BY <2>2, <2>3, <2>4, <2>6, <3>1, MoreKeeps
  <2> QED BY <2>5, <2>6
<1>2. CASE PhoneQueryEmpty
  <2>1. pRecord' = Cleared /\ heap' = 0
    BY <1>0, <1>2 DEF PhoneQueryEmpty
  <2>2. frame' = [ctrl |-> LAST, total |-> 0, sent |-> 0, from |-> 0, count |-> 0, room |-> 0]
    <3>1. frame' = [NoFrame EXCEPT !.ctrl = LAST, !.count = 0]
      BY <1>0, <1>2 DEF PhoneQueryEmpty, Cleared
    <3> QED BY <3>1 DEF NoFrame
  <2>3. TypeOK'
    BY <2>1, <2>2 DEF TypeOK, Cleared, Frame
  <2>4. HeapBalanced' /\ ReadsInBounds'
    BY <2>1, <2>2 DEF HeapBalanced, ReadsInBounds, Cleared
  <2>5. LastFrameFlagged'
    BY <2>1, <2>2 DEF LastFrameFlagged, LAST, FOLLOWS
  <2>6. FrameInv'
    BY <2>1, <2>2, PackageSize DEF FrameInv, LAST, FOLLOWS
  <2> QED BY <2>1, <2>3, <2>4, <2>5, <2>6 DEF IInv
<1>3. CASE PhoneFollowAck
  <2>0. pRecord.pkgTotal - pRecord.pkgSent >= 1
    BY <1>3 DEF PhoneFollowAck, IInv, TypeOK
  <2>1. CacheLive(pRecord)
    BY <2>0 DEF IInv, Cleared
  <2>2. heap = pRecord.recordBuf
    BY DEF IInv, HeapBalanced
  <2>3. CASE pRecord.pkgTotal - pRecord.pkgSent = 1
    <3>1. SendLast(pRecord, pRecord.lastPkgCnt, pRecord.recordBuf)
      BY <1>3, <2>2, <2>3 DEF PhoneFollowAck
    <3>2. pRecord.lastPkgCnt \in 0 .. RecsPerPkg
      BY <2>1, PackageSize DEF CacheLive
    <3>3. pRecord.pUpload + pRecord.lastPkgCnt <= pRecord.recordBuf
      BY <2>1, <2>3, LiveRead
    <3> QED BY <2>1, <2>3, <3>1, <3>2, <3>3, LastKeeps
  <2>4. CASE pRecord.pkgTotal - pRecord.pkgSent > 1
    <3>1. SendMore(pRecord) /\ heap' = pRecord.recordBuf
      BY <1>3, <2>2, <2>4 DEF PhoneFollowAck
    <3> QED BY <2>1, <2>4, <3>1, MoreKeeps
  <2> QED BY <1>3, <2>3, <2>4 DEF PhoneFollowAck
<1>4. CASE Drop
  <2>1. pRecord' = Cleared /\ heap' = 0 /\ frame' = NoFrame
    BY <1>0, <1>4 DEF Drop
  <2>2. TypeOK'
    BY <2>1 DEF TypeOK, Cleared
  <2> QED BY <2>1, <2>2, PackageSize DEF IInv, HeapBalanced, ReadsInBounds,
             LastFrameFlagged, FrameInv, Cleared, NoFrame, LAST, FOLLOWS
<1>5. CASE UNCHANGED vars
  BY <1>5 DEF vars, IInv, TypeOK, CacheLive, HeapBalanced, ReadsInBounds,
              LastFrameFlagged, FrameInv
<1> QED BY <1>1, <1>2, <1>3, <1>4, <1>5 DEF Next

\* The invariant holds of every run, whatever the phone sends and in which order.
THEOREM Invariance == Spec => []IInv
BY InitIInv, NextIInv, PTL DEF Spec

-----------------------------------------------------------------------------
(* The theorems *)

\* The cache, the heap and the frames have their types.
THEOREM TypeCorrect == Spec => []TypeOK
<1>1. IInv => TypeOK
  BY DEF IInv
<1> QED BY <1>1, Invariance, PTL

\* No package is ever copied from outside the buffer of the transfer.
THEOREM NoOverread == Spec => []ReadsInBounds
<1>1. IInv => ReadsInBounds
  BY DEF IInv
<1> QED BY <1>1, Invariance, PTL

\* Every frame fits ackBuf, for every size of a record and of a frame.
THEOREM NoOverflow == Spec => []FrameFits
<1>1. IInv => FrameFits
  <2> SUFFICES ASSUME IInv PROVE FrameFits
    OBVIOUS
  <2>1. frame.count \in Nat /\ frame.count <= RecsPerPkg
    BY DEF IInv, FrameInv, TypeOK, Frame, NoFrame
  <2>2. RecordSize \in Nat \ {0} /\ PROC_CONTENT_LEN \in Nat
    BY HistoryPagingAssumption
  <2>3. RecordSize * frame.count <= RecordSize * RecsPerPkg
    BY <2>1, <2>2, PackageSize
  <2>4. RecordSize * frame.count \in Nat /\ RecordSize * RecsPerPkg \in Nat
    BY <2>1, <2>2, PackageSize
  <2> QED BY <2>2, <2>3, <2>4, PackageSize DEF FrameFits
<1> QED BY <1>1, Invariance, PTL

\* Every buffer a query allocates is freed exactly once: with the last package, by
\* the message that interrupts the transfer, or at the end of the session.
THEOREM NoLeak == Spec => []HeapBalanced
<1>1. IInv => HeapBalanced
  BY DEF IInv
<1> QED BY <1>1, Invariance, PTL

\* The last package, and no other, is flagged as the last one.
THEOREM LastFlagged == Spec => []LastFrameFlagged
<1>1. IInv => LastFrameFlagged
  BY DEF IInv
<1> QED BY <1>1, Invariance, PTL

\* f is followed by the package g of the same transfer
NextPackage(f, g) ==
  /\ f.ctrl = FOLLOWS
  /\ g.sent = f.sent + 1
  /\ g.total = f.total
  /\ g.from = f.from + f.count

\* A follow-ack is answered with the package after the last one sent.
LEMMA FollowAckInOrder ==
  ASSUME IInv, PhoneFollowAck
  PROVE  NextPackage(frame, frame') /\ frame'.sent > 1
<1>1. pRecord # Cleared
  BY DEF PhoneFollowAck, Cleared
<1>2. /\ frame.ctrl = FOLLOWS
      /\ pRecord.pUpload = frame.from + frame.count
      /\ pRecord.pkgTotal = frame.total
      /\ pRecord.pkgSent = frame.sent
  BY <1>1 DEF IInv, FrameInv, LastFrameFlagged
<1>3. /\ pRecord.pkgTotal \in 1 .. 255
      /\ pRecord.pkgSent \in 1 .. pRecord.pkgTotal - 1
  BY <1>1 DEF IInv, CacheLive
<1>4. /\ frame'.total = pRecord.pkgTotal % 256
      /\ frame'.sent = (pRecord.pkgSent + 1) % 256
      /\ frame'.from = pRecord.pUpload
  BY DEF PhoneFollowAck, SendLast, SendMore, Package
<1>5. pRecord.pkgTotal % 256 = pRecord.pkgTotal
      /\ (pRecord.pkgSent + 1) % 256 = pRecord.pkgSent + 1
  BY <1>3
<1> QED BY <1>2, <1>3, <1>4, <1>5 DEF NextPackage

\* The first package of a transfer has the first record.
LEMMA QueryStarts ==
  ASSUME NEW found, PhoneQuery(found), CacheDropped = Cleared
  PROVE  frame'.ctrl \in {FOLLOWS, LAST} /\ frame'.sent = 1 /\ frame'.from = 0
<1> DEFINE p == Fill(Cleared, Kept(found))
<1>1. p.pkgSent = 0 /\ p.pUpload = 0
  BY DEF Fill, Cleared
<1>2. /\ frame'.sent = (p.pkgSent + 1) % 256
      /\ frame'.from = p.pUpload
      /\ frame'.ctrl \in {FOLLOWS, LAST}
  BY DEF PhoneQuery, SendLast, SendMore, Package
<1> QED BY <1>1, <1>2

\* A follow-ack always gets the package after the one before, from the record after
\* the last one sent.
THEOREM InOrder == Spec => PackagesInOrder
<1> DEFINE A == frame' # frame /\ frame'.sent > 1 =>
                  /\ frame.ctrl = FOLLOWS
                  /\ frame'.sent = frame.sent + 1
                  /\ frame'.total = frame.total
                  /\ frame'.from = frame.from + frame.count
<1>1. ASSUME IInv, [Next]_vars PROVE [A]_vars
  <2>1. ASSUME NEW found \in FoundCnt, PhoneQuery(found) PROVE A
    BY <1>1, <2>1, DropClears, QueryStarts
  <2>2. CASE PhoneQueryEmpty
    BY <2>2 DEF PhoneQueryEmpty, NoFrame
  <2>3. CASE PhoneFollowAck
    BY <1>1, <2>3, FollowAckInOrder DEF NextPackage
  <2>4. CASE Drop
    BY <2>4 DEF Drop, NoFrame
  <2>5. CASE UNCHANGED vars
    BY <2>5
  <2> QED BY <1>1, <2>1, <2>2, <2>3, <2>4, <2>5 DEF Next
<1>2. Spec => [][IInv /\ [Next]_vars]_vars
  BY Invariance, PTL DEF Spec
<1> QED BY <1>1, <1>2, PTL DEF PackagesInOrder

-----------------------------------------------------------------------------
(* Completeness, where the code has it *)

\* the last package of a live cache ends where the buffer ends
Whole(p) == RecsPerPkg * (p.pkgTotal - 1) + p.lastPkgCnt = p.recordBuf

CompleteInv ==
  /\ IInv
  /\ pRecord # Cleared /\ pRecord.recordBuf % RecsPerPkg # 0 => Whole(pRecord)
  /\ OtherSizesComplete

\* Unless the records are a multiple of a package, the full packages and the last
\* one together hold all of them.
LEMMA FilledComplete ==
  ASSUME NEW n \in 1 .. MAX_RECORD_CNT, NEW p, p = Fill(Cleared, n),
         n % RecsPerPkg # 0
  PROVE  Whole(p)
<1> DEFINE q == (n + (RecsPerPkg - 1)) \div RecsPerPkg
<1>1. n \in Nat \ {0}
  BY HistoryPagingAssumption
<1>2. RecsPerPkg * (q - 1) + (n % RecsPerPkg) = n
  BY <1>1, PackageSize, Packages
<1> HIDE DEF q
<1>3. p.pkgTotal = q /\ p.lastPkgCnt = n % RecsPerPkg /\ p.recordBuf = n
  BY DEF Fill, q
<1> QED BY <1>2, <1>3 DEF Whole

\* Every message keeps what is sent and what is left complete.
LEMMA NextComplete ==
  ASSUME CompleteInv, [Next]_vars
  PROVE  CompleteInv'
<1>0. IInv /\ IInv' /\ CacheDropped = Cleared
  BY NextIInv, DropClears DEF CompleteInv
<1>1. ASSUME NEW found \in FoundCnt, PhoneQuery(found) PROVE CompleteInv'
  <2> DEFINE n == Kept(found)
             p == Fill(CacheDropped, n)
  <2>1. n \in 1 .. MAX_RECORD_CNT
    BY <1>1, HistoryPagingAssumption DEF PhoneQuery, Kept
  <2> HIDE DEF n
  <2>2. p.recordBuf = n /\ p.pUpload = 0 /\ p.recordCnt = n
    BY <1>0, <2>1, Filled DEF CacheLive
  <2>3. /\ p.pkgTotal = 1 => SendLast(p, p.recordCnt, HeapDropped + n)
        /\ p.pkgTotal # 1 => SendMore(p)
    BY <1>1 DEF PhoneQuery, n
  <2>4. CASE p.pkgTotal = 1
    <3>1. /\ pRecord' = Cleared
          /\ frame'.from = 0 /\ frame'.count = n /\ frame'.room = n
      BY <2>2, <2>3, <2>4 DEF SendLast, Package
    <3> QED BY <1>0, <2>1, <3>1 DEF CompleteInv, OtherSizesComplete
  <2>5. CASE p.pkgTotal # 1
    <3>1. p.recordBuf % RecsPerPkg # 0 => Whole(p)
      BY <1>0, <2>1, <2>2, FilledComplete
    <3>2. /\ pRecord'.pkgTotal = p.pkgTotal
          /\ pRecord'.lastPkgCnt = p.lastPkgCnt
          /\ pRecord'.recordBuf = p.recordBuf
          /\ frame'.ctrl = FOLLOWS
      <4>1. CacheLive(p)
        BY <1>0, <2>1, Filled
      <4>2. SendMore(p)
        BY <2>3, <2>5
      <4> HIDE DEF p
      <4> QED BY <4>1, <4>2 DEF SendMore, Package, CacheLive, Cache
    <3> HIDE DEF p
    <3> QED BY <1>0, <3>1, <3>2 DEF CompleteInv, OtherSizesComplete, Whole, FOLLOWS, LAST
  <2> QED BY <2>4, <2>5
<1>2. CASE PhoneQueryEmpty
  <2>1. /\ pRecord' = Cleared
        /\ frame'.from = 0 /\ frame'.count = 0 /\ frame'.room = 0
    BY <1>0, <1>2 DEF PhoneQueryEmpty, NoFrame, Cleared
  <2> QED BY <1>0, <2>1 DEF CompleteInv, OtherSizesComplete
<1>3. CASE PhoneFollowAck
  <2>1. /\ pRecord # Cleared
        /\ pRecord.recordBuf % RecsPerPkg # 0 => Whole(pRecord)
    BY <1>3 DEF PhoneFollowAck, Cleared, CompleteInv
  <2>2. CacheLive(pRecord) /\ pRecord.pkgSent # 0
    BY <1>0, <2>1 DEF IInv
  <2>3. CASE SendLast(pRecord, pRecord.lastPkgCnt, heap)
             /\ pRecord.pkgTotal - pRecord.pkgSent = 1
    <3>1. pRecord.pUpload = RecsPerPkg * (pRecord.pkgTotal - 1)
      <4>1. pRecord.pkgSent = pRecord.pkgTotal - 1
        BY <2>2, <2>3 DEF CacheLive
      <4> QED BY <2>2, <4>1 DEF CacheLive
    <3>2. /\ pRecord' = Cleared
          /\ frame'.from = pRecord.pUpload
          /\ frame'.count = pRecord.lastPkgCnt
          /\ frame'.room = pRecord.recordBuf
      BY <2>3 DEF SendLast, Package
    <3>3. pRecord.recordBuf > RecsPerPkg
      <4>1. pRecord.pkgTotal - 1 >= 1 /\ pRecord.pkgTotal \in Nat
        BY <2>2, <2>3 DEF CacheLive
      <4>2. RecsPerPkg * (pRecord.pkgTotal - 1) >= RecsPerPkg * 1
        BY <4>1, PackageSize
      <4> QED BY <2>2, <4>1, <4>2, PackageSize DEF CacheLive, Cache
    <3>4. pRecord.recordBuf \in Nat
      BY <2>2 DEF CacheLive, Cache
    <3>5. OtherSizesComplete'
      BY <2>1, <3>1, <3>2, <3>3, <3>4, PackageSize DEF OtherSizesComplete, Whole
    <3> QED BY <1>0, <3>2, <3>5 DEF CompleteInv
  <2>4. CASE SendMore(pRecord)
    <3>1. /\ pRecord'.pkgTotal = pRecord.pkgTotal
          /\ pRecord'.lastPkgCnt = pRecord.lastPkgCnt
          /\ pRecord'.recordBuf = pRecord.recordBuf
          /\ frame'.ctrl = FOLLOWS
      BY <2>2, <2>4 DEF SendMore, Package, CacheLive, Cache
    <3> QED BY <1>0, <2>1, <3>1 DEF CompleteInv, OtherSizesComplete, Whole, FOLLOWS, LAST
  <2> QED BY <1>3, <2>3, <2>4 DEF PhoneFollowAck
<1>4. CASE Drop
  BY <1>0, <1>4 DEF Drop, NoFrame, LAST, CompleteInv, OtherSizesComplete
<1>5. CASE UNCHANGED vars
  BY <1>0, <1>5 DEF vars, CompleteInv, OtherSizesComplete, Whole
<1> QED BY <1>1, <1>2, <1>3, <1>4, <1>5 DEF Next

\* A phone that has been sent the last package has been sent every record found,
\* unless they are an exact multiple of a package (beyond one).
THEOREM Completeness == Spec => []OtherSizesComplete
<1>1. Init => CompleteInv
  BY InitIInv DEF Init, CompleteInv, OtherSizesComplete, NoFrame, LAST
<1>2. CompleteInv /\ [Next]_vars => CompleteInv'
  BY NextComplete
<1>3. CompleteInv => OtherSizesComplete
  BY DEF CompleteInv
<1> QED BY <1>1, <1>2, <1>3, PTL DEF Spec
=============================================================================

--------------------------- MODULE HistoryPaging ---------------------------
(***************************************************************************)
(* The history query of a phone (app.c, database.c): api_phoneQuery copies *)
(* the records it found into a heap buffer of the session, pRecord;        *)
(* deal_phone_query answers with the first package of RecsPerPkg records   *)
(* and deal_phone_follow_ack with one more for every follow-ack, until the *)
(* last one, which frees the buffer.  app_process drops an unfinished      *)
(* transfer when any message but a follow-ack or a heartbeat arrives, and  *)
(* when the session ends.                                                  *)
(*                                                                         *)
(* A phone may send anything at any time: follow-acks when no transfer is  *)
(* going on, too many of them, or a new query in the middle of one.  A     *)
(* record is known by its index in the result; the outcome of send is      *)
(* ignored by the code, so that a frame is what is handed to send.         *)
(***************************************************************************)
EXTENDS Integers

CONSTANTS
  PROC_CONTENT_LEN,  \* size of ackBuf, and of the content of a frame
  RecordSize,        \* sizeof(SampleDataTypedef)
  MAX_RECORD_CNT,    \* the most records a query keeps
  FoundCnt           \* the numbers of rows that SELECT may find

\* mutant: the head of the frame is not counted
RecsPerPkg_NoHead == PROC_CONTENT_LEN \div RecordSize

\* LEN_OF_ONE_PKG / sizeof(SampleDataTypedef)
RecsPerPkg == (PROC_CONTENT_LEN - 10) \div RecordSize

ASSUME HistoryPagingAssumption ==
  /\ PROC_CONTENT_LEN \in Nat
  /\ RecordSize \in Nat \ {0}
  /\ RecordSize <= PROC_CONTENT_LEN - 10
  /\ MAX_RECORD_CNT \in Nat \ {0}
  /\ MAX_RECORD_CNT <= 255 * RecsPerPkg
  /\ FoundCnt \subseteq Nat

VARIABLES
  pRecord,  \* foundRecordsCacheTypedef; recordBuf is the number of records the
            \* buffer has room for, 0 for a null pointer
  heap,     \* records' worth of memory allocated by the session and not freed
  frame     \* the last history frame sent in answer to the current query

vars == <<pRecord, heap, frame>>

Cleared == [recordBuf |-> 0, pUpload |-> 0, recordCnt |-> 0,
            lastPkgCnt |-> 0, pkgTotal |-> 0, pkgSent |-> 0]

\* the control bytes of a frame that others follow, and of the last one
FOLLOWS == 20
LAST    == 4

\* from, count: the records copied into the frame; room: the size of the buffer
\* they were copied from
Frame   == [ctrl : {FOLLOWS, LAST}, total : 0 .. 255, sent : 0 .. 255,
            from : Nat, count : Nat, room : Nat]
NoFrame == [ctrl |-> 0, total |-> 0, sent |-> 0, from |-> 0, count |-> 0, room |-> 0]

TypeOK ==
  /\ pRecord \in [recordBuf : Nat, pUpload : Nat, recordCnt : Nat,
                  lastPkgCnt : Nat, pkgTotal : Nat, pkgSent : Nat]
  /\ heap \in Int
  /\ frame \in Frame \cup {NoFrame}

Init == pRecord = Cleared /\ heap = 0 /\ frame = NoFrame

-----------------------------------------------------------------------------
(* app_process: what it does to the transfer before it calls a handler *)

\* mutant: the buffer is freed and the pointer to it is kept
CacheDropped_KeepsPointer == pRecord

\* the cache and the heap once an unfinished transfer has been dropped
CacheDropped == IF pRecord.recordBuf # 0 THEN Cleared ELSE pRecord
HeapDropped  == IF pRecord.recordBuf # 0 THEN heap - pRecord.recordBuf ELSE heap

-----------------------------------------------------------------------------
(* Packages *)

\* the next package of cache p: both numbers are cut to a byte
Package(p, ctrl, count) ==
  [ctrl |-> ctrl, total |-> p.pkgTotal % 256, sent |-> (p.pkgSent + 1) % 256,
   from |-> p.pUpload, count |-> count, room |-> p.recordBuf]

\* mutant: the place in the buffer is not moved on
SendMore_SamePlace(p) ==
  /\ frame' = Package(p, FOLLOWS, RecsPerPkg)
  /\ pRecord' = [p EXCEPT !.pkgSent = @ + 1]

\* send a package that others follow: remember how far the transfer has got
SendMore(p) ==
  /\ frame' = Package(p, FOLLOWS, RecsPerPkg)
  /\ pRecord' = [p EXCEPT !.pkgSent = @ + 1, !.pUpload = @ + RecsPerPkg]

\* mutant: the cache is not cleared after the last package
SendLast_KeepsCache(p, count, h) ==
  /\ frame' = Package(p, LAST, count)
  /\ heap' = h - p.recordBuf
  /\ pRecord' = p

\* send the last package and free the buffer; h is what is allocated by now
SendLast(p, count, h) ==
  /\ frame' = Package(p, LAST, count)
  /\ heap' = h - p.recordBuf
  /\ pRecord' = Cleared

-----------------------------------------------------------------------------
(* Messages *)

\* mutant: the last package is taken to be a full one
Fill_FullLast(p, n) ==
  [recordBuf |-> n, pUpload |-> p.pUpload, recordCnt |-> n,
   lastPkgCnt |-> RecsPerPkg,
   pkgTotal |-> (n + (RecsPerPkg - 1)) \div RecsPerPkg, pkgSent |-> 0]

\* mutant: the number of packages is rounded down
Fill_RoundsDown(p, n) ==
  [recordBuf |-> n, pUpload |-> p.pUpload, recordCnt |-> n,
   lastPkgCnt |-> n % RecsPerPkg, pkgTotal |-> n \div RecsPerPkg, pkgSent |-> 0]

\* mutant: the full packages are taken to be as many as all of them
Fill_NegativeLast(p, n) ==
  [recordBuf |-> n, pUpload |-> p.pUpload, recordCnt |-> n,
   lastPkgCnt |-> n - RecsPerPkg * ((n + (RecsPerPkg - 1)) \div RecsPerPkg),
   pkgTotal |-> (n + (RecsPerPkg - 1)) \div RecsPerPkg, pkgSent |-> 0]

\* what api_phoneQuery makes of cache p when it has found n records; it does not
\* touch pUpload
Fill(p, n) ==
  [recordBuf |-> n, pUpload |-> p.pUpload, recordCnt |-> n,
   lastPkgCnt |-> n % RecsPerPkg,
   pkgTotal |-> (n + (RecsPerPkg - 1)) \div RecsPerPkg, pkgSent |-> 0]

\* the callback counts every row, api_phoneQuery keeps MAX_RECORD_CNT of them
Kept(found) == IF found > MAX_RECORD_CNT THEN MAX_RECORD_CNT ELSE found

\* a query that finds records
PhoneQuery(found) ==
  LET n == Kept(found)
      p == Fill(CacheDropped, n)
      h == HeapDropped + n
  IN
  /\ found # 0
  /\ IF p.pkgTotal = 1
       THEN SendLast(p, p.recordCnt, h)
       ELSE SendMore(p) /\ heap' = h

\* a query that finds none, or whose device is unknown, or whose lookup fails: the
\* answer has the control byte and a record count only
PhoneQueryEmpty ==
  /\ pRecord' = CacheDropped
  /\ heap' = HeapDropped
  /\ frame' = [NoFrame EXCEPT !.ctrl = LAST, !.count = CacheDropped.recordCnt]

\* a follow-ack, of any length
PhoneFollowAck ==
  \/ /\ pRecord.pkgTotal - pRecord.pkgSent = 1
     /\ SendLast(pRecord, pRecord.lastPkgCnt, heap)
  \/ /\ pRecord.pkgTotal - pRecord.pkgSent > 1
     /\ SendMore(pRecord)
     /\ UNCHANGED heap

\* any other message but a heartbeat, a query of the wrong length included, or the
\* end of the session: the transfer is dropped
Drop ==
  /\ pRecord' = CacheDropped
  /\ heap' = HeapDropped
  /\ frame' = NoFrame

\* a follow-ack that nothing waits for, and a heartbeat, change nothing
Next ==
  \/ \E found \in FoundCnt : PhoneQuery(found)
  \/ PhoneQueryEmpty
  \/ PhoneFollowAck
  \/ Drop

Spec == Init /\ [][Next]_vars

-----------------------------------------------------------------------------
(* Properties *)

\* A package is copied from inside the buffer, however the phone mixes queries,
\* follow-acks and other messages: recordBuf[pUpload .. pUpload + count) in
\* deal_phone_query and deal_phone_follow_ack.
ReadsInBounds == frame.from + frame.count <= frame.room

\* The frame fits ackBuf: header and length, control byte, two package numbers and
\* the count, the records, and the checksum.
FrameFits == 4 + 5 + RecordSize * frame.count + 1 <= PROC_CONTENT_LEN

\* What is allocated is what the cache points to: no transfer leaks its buffer, and
\* none frees it twice.
HeapBalanced == heap = pRecord.recordBuf

\* Exactly the frame numbered as the last one says that nothing follows; while a
\* frame says that others follow, the cache holds what is to follow.
LastFrameFlagged ==
  /\ frame.total # 0 => (frame.ctrl = LAST <=> frame.sent = frame.total)
  /\ frame.ctrl = LAST => pRecord = Cleared
  /\ frame.ctrl = FOLLOWS =>
       /\ pRecord.recordBuf = frame.room
       /\ pRecord.pkgTotal = frame.total
       /\ pRecord.pkgSent = frame.sent

\* Within a transfer the packages are numbered one after the other, and each one
\* starts with the record after the last one of the package before it: a stray or
\* repeated follow-ack, or a heartbeat, never makes the phone lose its place.
PackagesInOrder ==
  [][frame' # frame /\ frame'.sent > 1 =>
        /\ frame.ctrl = FOLLOWS
        /\ frame'.sent = frame.sent + 1
        /\ frame'.total = frame.total
        /\ frame'.from = frame.from + frame.count]_vars

\* Unless the records are a multiple of a package, the last package of a transfer ends
\* with the last record found: with one package, with many, and at the maximum.
OtherSizesComplete ==
  frame.ctrl = LAST /\ (frame.room % RecsPerPkg # 0 \/ frame.room <= RecsPerPkg) =>
    frame.from + frame.count = frame.room

\* When the last package of a transfer has been sent, the phone has been sent all
\* the records that were found (clientClass.h: recordCnt is the number of records,
\* lastPkgCnt the number of records in the last package).
LastPackageCompletes ==
  frame.ctrl = LAST => frame.from + frame.count = frame.room
=============================================================================

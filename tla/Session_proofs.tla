--------------------------- MODULE Session_proofs ---------------------------
(***************************************************************************)
(* What Session keeps for every size of record, frame and result, every    *)
(* window of the connection and any number of queries.                     *)
(*                                                                         *)
(* Every step of a session is one of the transfer, or none (StepTransfer), *)
(* so that all that HistoryPaging_proofs proves holds of it.  What an      *)
(* orderly phone sees of the transfer follows from how the answers on      *)
(* their way are chained: each one continues the transfer of the one       *)
(* before it (AnswerInv), the session's own last package is not behind     *)
(* them (AgreeInv), and a message that starts over is alone with           *)
(* heartbeats behind it (RequestInv).                                      *)
(***************************************************************************)
EXTENDS Session, HistoryPaging_proofs

-----------------------------------------------------------------------------
(* The transfer *)

\* What a session does to its transfer is what HistoryPaging allows (app.c: the
\* handlers and the loop of app_process are the only code that touches pRecord).
LEMMA StepTransfer == [SessionNext]_sessionVars => [Next]_vars
<1> SUFFICES ASSUME [SessionNext]_sessionVars PROVE [Next]_vars
  OBVIOUS
<1>1. ASSUME NEW r, Handle(r) PROVE [Next]_vars
  BY <1>1 DEF Handle, Next
<1>2. CASE Process
  BY <1>1, <1>2 DEF Process
<1>3. CASE EndSession
  BY <1>3 DEF EndSession, Next
<1>4. ASSUME NEW r \in Request, PhoneSends(r) PROVE [Next]_vars
  BY <1>4 DEF PhoneSends
<1>5. CASE PhoneReads
  BY <1>5 DEF PhoneReads
<1>6. CASE PhoneGone
  BY <1>6 DEF PhoneGone
<1>7. CASE UNCHANGED sessionVars
  BY <1>7 DEF sessionVars
<1> QED BY <1>2, <1>3, <1>4, <1>5, <1>6, <1>7 DEF SessionNext

\* A session with its phone runs a transfer, however the connection fails.
THEOREM RunsTransfer == SessionSpec => Spec
<1>1. SessionInit => Init
  BY DEF SessionInit
<1> QED BY <1>1, StepTransfer, PTL DEF SessionSpec, Spec

-----------------------------------------------------------------------------
(* Types *)

\* The numbers in a frame, or in the absence of one.
LEMMA FrameTyped ==
  ASSUME NEW f \in Frame \cup {NoFrame}
  PROVE  f.sent \in Nat /\ f.from \in Nat /\ f.count \in Nat /\ f.room \in Nat
<1>1. CASE f \in Frame
  <2>1. f.sent \in 0 .. 255 /\ f.from \in Nat /\ f.count \in Nat /\ f.room \in Nat
    BY <1>1 DEF Frame
  <2> QED BY <2>1
<1>2. CASE f = NoFrame
  BY <1>2 DEF NoFrame
<1> QED BY <1>1, <1>2

\* A handler is given a message and sends at most one answer, which fits the window.
LEMMA SendTyped ==
  ASSUME SessionTypeOK, NEW a \in Frame \cup {NoFrame}, Send(a)
  PROVE  /\ toPhone' \in Seq(Frame \cup {NoFrame}) /\ Len(toPhone') <= Window
         /\ session' \in {session, "aborted"}
         /\ owed' \in Int
<1>1. Window \in Nat
  BY SessionAssumption
<1>2. CASE toPhone' = Append(toPhone, a) /\ Len(toPhone) < Window /\ UNCHANGED <<session, owed>>
  BY <1>1, <1>2 DEF SessionTypeOK
<1>3. CASE UNCHANGED toPhone /\ session' \in {session, "aborted"} /\ owed' \in {owed, owed - 1}
  BY <1>3 DEF SessionTypeOK
<1> QED BY <1>2, <1>3 DEF Send

\* The connection, the phone and the session keep their types.
LEMMA NextTyped ==
  ASSUME SessionTypeOK, TypeOK', [SessionNext]_sessionVars
  PROVE  SessionTypeOK'
<1> USE DEF SessionTypeOK
<1>1. ASSUME NEW r \in Request, PhoneSends(r) PROVE SessionTypeOK'
  <2>1. toServer' \in Seq(Request) /\ Len(toServer') <= Window
    BY <1>1, SessionAssumption DEF PhoneSends
  <2>2. queries' \in 0 .. QueryMax
    BY <1>1, SessionAssumption DEF PhoneSends
  <2>3. asked' \in 0 .. 255
    <3>1. CASE r = "query"
      BY <1>1, <3>1 DEF PhoneSends
    <3>2. CASE r = "follow"
      <4>1. asked' = asked + 1 /\ asked < 255
        BY <1>1, <3>2, Zenon DEF PhoneSends
      <4> QED BY <4>1
    <3>3. CASE r \notin {"query", "follow"}
      BY <1>1, <3>3 DEF PhoneSends
    <3> QED BY <3>1, <3>2, <3>3
  <2>4. owed' \in Int
    BY <1>1 DEF PhoneSends
  <2>5. last' \in Frame \cup {NoFrame}
    BY <1>1 DEF PhoneSends
  <2> QED BY <1>1, <2>1, <2>2, <2>3, <2>4, <2>5 DEF PhoneSends
<1>2. CASE PhoneReads
  <2>1. /\ Head(toPhone) \in Frame \cup {NoFrame}
        /\ toPhone' \in Seq(Frame \cup {NoFrame}) /\ Len(toPhone') <= Window
    BY <1>2, SessionAssumption DEF PhoneReads
  <2>2. /\ Head(toPhone).count \in Nat /\ Head(toPhone).sent \in Nat
        /\ last.sent \in Nat
    BY <2>1, FrameTyped
  <2>3. last' \in Frame \cup {NoFrame} /\ owed' \in Int
    BY <1>2, <2>1 DEF PhoneReads
  <2>4. got' \in Nat /\ missed' \in Int
    <3>1. got' \in {got, Head(toPhone).count, got + Head(toPhone).count}
      BY <1>2 DEF PhoneReads
    <3>2. missed' \in {missed, 0, missed + (Head(toPhone).sent - last.sent - 1)}
      BY <1>2 DEF PhoneReads
    <3> QED BY <2>2, <3>1, <3>2
  <2> QED BY <1>2, <2>1, <2>3, <2>4 DEF PhoneReads
<1>3. CASE PhoneGone
  BY <1>3 DEF PhoneGone, phoneVars
<1>4. CASE Process
  <2>1. toServer' \in Seq(Request) /\ Len(toServer') <= Window
    BY <1>4, SessionAssumption DEF Process
  <2>2. ASSUME NEW r, Handle(r)
        PROVE  /\ toPhone' \in Seq(Frame \cup {NoFrame}) /\ Len(toPhone') <= Window
               /\ session' \in {session, "aborted"}
               /\ owed' \in Int
    <3>1. frame' \in Frame \cup {NoFrame}
      BY DEF TypeOK
    <3>2. CASE NoAnswer
      BY <3>2 DEF NoAnswer
    <3>3. CASE Send(frame') \/ Send(OtherAnswer)
      BY <3>1, <3>3, SendTyped DEF OtherAnswer
    <3> QED BY <2>2, <3>2, <3>3 DEF Handle
  <2> QED BY <1>4, <2>1, <2>2 DEF Process, phoneVars
<1>5. CASE EndSession
  BY <1>5 DEF EndSession, phoneVars
<1>6. CASE UNCHANGED sessionVars
  BY <1>6 DEF sessionVars, phoneVars
<1> QED BY <1>1, <1>2, <1>3, <1>4, <1>5, <1>6 DEF SessionNext

\* The connection, the phone and the session have their types, and what is on its way
\* fits the connection (app.c, and the phone and TCP around it).
THEOREM SessionTypeCorrect == SessionSpec => []SessionTypeOK
<1>1. SessionInit /\ TypeOK => SessionTypeOK
  <2> SUFFICES ASSUME SessionInit, TypeOK PROVE SessionTypeOK
    OBVIOUS
  <2>1. /\ toServer \in Seq(Request) /\ Len(toServer) <= Window
        /\ toPhone \in Seq(Frame \cup {NoFrame}) /\ Len(toPhone) <= Window
    BY SessionAssumption DEF SessionInit
  <2>2. /\ got \in Nat /\ queries \in 0 .. QueryMax /\ last \in Frame \cup {NoFrame}
        /\ asked \in 0 .. 255 /\ owed \in Int /\ missed \in Int
    BY SessionAssumption DEF SessionInit
  <2> QED BY <2>1, <2>2 DEF SessionInit, SessionTypeOK
<1>2. SessionTypeOK /\ TypeOK' /\ [SessionNext]_sessionVars => SessionTypeOK'
  BY NextTyped
<1> QED BY <1>1, <1>2, RunsTransfer, TypeCorrect, PTL DEF SessionSpec

-----------------------------------------------------------------------------
(* The end of a session *)

OverInv == session = "over" => pRecord = Cleared

\* A session that ends drops its transfer, and no message is handled after that.
LEMMA NextOver ==
  ASSUME IInv, OverInv, [SessionNext]_sessionVars
  PROVE  OverInv'
<1> USE DEF OverInv
<1>1. CASE EndSession
  BY <1>1, DropClears DEF EndSession, Drop
<1>2. CASE Process
  <2>1. ASSUME NEW r, Handle(r) PROVE session' \in {session, "aborted"}
    BY <2>1 DEF Handle, Send, NoAnswer
  <2>2. session' # "over"
    BY <1>2, <2>1 DEF Process
  <2> QED BY <2>2
<1>3. CASE PhoneReads \/ PhoneGone \/ \E r \in Request : PhoneSends(r)
  BY <1>3 DEF PhoneReads, PhoneGone, PhoneSends, vars
<1>4. CASE UNCHANGED sessionVars
  BY <1>4 DEF sessionVars, vars
<1> QED BY <1>1, <1>2, <1>3, <1>4 DEF SessionNext

\* A session that has ended has freed its records: at the end of file, after an error,
\* after a timeout, in the middle of a transfer (app.c, the end of app_process).
THEOREM NoLeakAtEnd == SessionSpec => []NothingLeftBehind
<1>1. SessionInit => OverInv
  BY DEF SessionInit, OverInv
<1>2. IInv /\ OverInv /\ [SessionNext]_sessionVars => OverInv'
  BY NextOver
<1>3. IInv /\ OverInv => NothingLeftBehind
  BY DEF IInv, OverInv, HeapBalanced, NothingLeftBehind, Cleared
<1> QED BY <1>1, <1>2, <1>3, RunsTransfer, Invariance, PTL DEF SessionSpec
-----------------------------------------------------------------------------
(* An orderly phone *)

\* the number of a package tells where its records begin, and all packages are full
\* that others follow
Placed(f) ==
  /\ f.sent < 1 => f.from = 0
  /\ f.sent >= 1 => f.from = RecsPerPkg * (f.sent - 1)
  /\ f.ctrl = FOLLOWS => f.sent >= 1 /\ f.count = RecsPerPkg

\* the last package f of its transfer ends where the records end
EndsWhole(f) ==
  f.ctrl = LAST /\ (f.room % RecsPerPkg # 0 \/ f.room <= RecsPerPkg) =>
    f.from + f.count = f.room

\* f is a package that others follow, of the same transfer as g
SameTransfer(f, g) ==
  f.ctrl = FOLLOWS /\ f.total = g.total /\ f.room = g.room

\* after p, the answer f begins a transfer or continues the one of p
Continues(p, f) ==
  /\ Placed(f) /\ EndsWhole(f)
  /\ f.sent > 1 => SameTransfer(p, f) /\ f.sent > p.sent

\* what the phone will have read once it has read the first i answers on their way
ReadUpTo(i) == IF i = 0 THEN last ELSE toPhone[i]

StartsOver == \E i \in 1 .. Len(toServer) : toServer[i] \in {"query", "other"}

\* only heartbeats are behind a message that starts over, and no answer is on its way
RequestInv ==
  \A i \in 1 .. Len(toServer) :
    /\ toServer[i] \in {"query", "other"} => i = 1 /\ toPhone = <<>> /\ last = NoFrame
    /\ toServer[i] = "follow" => last # NoFrame

\* the answers on their way continue one another; one that is no history frame is alone
AnswerInv ==
  \A i \in 1 .. Len(toPhone) :
    /\ Continues(ReadUpTo(i - 1), toPhone[i])
    /\ toPhone[i] = NoFrame => Len(toPhone) = 1 /\ last = NoFrame

\* what the phone will have read last is not ahead of a session with more to send
AgreeInv ==
  LET tip == ReadUpTo(Len(toPhone)) IN
  session = "running" /\ frame.ctrl = FOLLOWS /\ ~StartsOver /\ tip # NoFrame =>
    SameTransfer(tip, frame) /\ tip.sent <= frame.sent

\* the phone has read or missed all records up to the last one it has read
ReadInv ==
  /\ Placed(last) /\ EndsWhole(last)
  /\ last # NoFrame => got + RecsPerPkg * missed = last.from + last.count

OrderlyInv ==
  /\ RequestInv
  /\ AnswerInv
  /\ AgreeInv
  /\ ReadInv

\* A follow-ack is answered from the same buffer, with a full package or the last one.
LEMMA FollowAckSame ==
  ASSUME IInv, PhoneFollowAck
  PROVE  /\ frame.ctrl = FOLLOWS
         /\ frame'.room = frame.room
         /\ frame'.ctrl = FOLLOWS => frame'.count = RecsPerPkg
<1>1. pRecord # Cleared
  BY DEF PhoneFollowAck, Cleared
<1>2. frame.ctrl = FOLLOWS /\ pRecord.recordBuf = frame.room
  BY <1>1 DEF IInv, FrameInv, LastFrameFlagged
<1>3. /\ frame'.room = pRecord.recordBuf
      /\ frame'.ctrl = FOLLOWS => frame'.count = RecsPerPkg
  BY DEF PhoneFollowAck, SendLast, SendMore, Package, FOLLOWS, LAST
<1> QED BY <1>2, <1>3

\* The number of records before package n + 1.
LEMMA NextPlace ==
  ASSUME NEW n \in Int
  PROVE  /\ RecsPerPkg * (n - 1) + RecsPerPkg = RecsPerPkg * n
         /\ RecsPerPkg * ((n + 1) - 1) = RecsPerPkg * n
         /\ RecsPerPkg * n \in Int
BY PackageSize

\* The packages of a transfer are placed by their numbers.
LEMMA NextPlaced ==
  ASSUME IInv, Placed(frame), [Next]_vars
  PROVE  Placed(frame')
<1>0. CacheDropped = Cleared /\ HeapDropped = 0
  BY DropClears
<1>1. ASSUME NEW found \in FoundCnt, PhoneQuery(found) PROVE Placed(frame')
  <2>1. frame'.ctrl \in {FOLLOWS, LAST} /\ frame'.sent = 1 /\ frame'.from = 0
    BY <1>0, <1>1, QueryStarts
  <2>2. frame'.ctrl = FOLLOWS => frame'.count = RecsPerPkg
    BY <1>1 DEF PhoneQuery, SendLast, SendMore, Package, FOLLOWS, LAST
  <2>3. RecsPerPkg * (1 - 1) = 0
    BY PackageSize
  <2> QED BY <2>1, <2>2, <2>3 DEF Placed
<1>2. CASE PhoneQueryEmpty
  BY <1>2 DEF PhoneQueryEmpty, NoFrame, Placed, FOLLOWS, LAST
<1>3. CASE PhoneFollowAck
  <2>1. NextPackage(frame, frame') /\ frame'.sent > 1
    BY <1>3, FollowAckInOrder
  <2>2. frame.ctrl = FOLLOWS /\ (frame'.ctrl = FOLLOWS => frame'.count = RecsPerPkg)
    BY <1>3, FollowAckSame
  <2>3. frame.sent \in Nat
    BY DEF IInv, TypeOK, Frame, NoFrame
  <2>4. frame.from = RecsPerPkg * (frame.sent - 1) /\ frame.count = RecsPerPkg
    BY <2>2, <2>3 DEF Placed
  <2>5. frame'.from = RecsPerPkg * (frame'.sent - 1)
    BY <2>1, <2>3, <2>4, NextPlace DEF NextPackage
  <2> QED BY <2>1, <2>2, <2>3, <2>5 DEF NextPackage, Placed
<1>4. CASE Drop
  BY <1>4 DEF Drop, NoFrame, Placed, FOLLOWS
<1>5. CASE UNCHANGED vars
  BY <1>5 DEF vars
<1> QED BY <1>1, <1>2, <1>3, <1>4, <1>5 DEF Next

\* An absent frame is of no transfer.
LEMMA NoFrameFacts ==
  /\ NoFrame.ctrl # FOLLOWS /\ NoFrame.ctrl # LAST /\ NoFrame.sent = 0
  /\ \A p : Placed(NoFrame) /\ EndsWhole(NoFrame) /\ Continues(p, NoFrame)
BY DEF NoFrame, FOLLOWS, LAST, Placed, EndsWhole, Continues

\* Nothing is on its way in a new connection.
LEMMA InitOrderly == SessionInit => OrderlyInv /\ Placed(frame)
<1> SUFFICES ASSUME SessionInit PROVE OrderlyInv /\ Placed(frame)
  OBVIOUS
<1>1. toServer = <<>> /\ toPhone = <<>> /\ last = NoFrame /\ frame = NoFrame
  BY DEF SessionInit, Init
<1>2. Len(toServer) = 0 /\ Len(toPhone) = 0
  BY <1>1
<1> QED BY <1>1, <1>2, NoFrameFacts
     DEF OrderlyInv, RequestInv, AnswerInv, AgreeInv, ReadInv, ReadUpTo

\* The phone starts over when nothing is on its way, and asks ahead within a transfer.
LEMMA SendsKeeps ==
  ASSUME Orderly, SessionTypeOK, OrderlyInv, NEW r \in Request, PhoneSends(r)
  PROVE  OrderlyInv'
<1> USE DEF OrderlyInv
<1>1. /\ toServer \in Seq(Request) /\ toServer' = Append(toServer, r)
      /\ UNCHANGED <<vars, session, toPhone, got, missed>>
      /\ r \in {"query", "other"} => toServer = <<>> /\ toPhone = <<>> /\ last' = NoFrame
      /\ r = "follow" => last.ctrl = FOLLOWS
      /\ r \notin {"query", "other"} => last' = last
  BY DEF PhoneSends, SessionTypeOK
<1>2. /\ Len(toServer') = Len(toServer) + 1 /\ Len(toServer) \in Nat
      /\ toServer'[Len(toServer) + 1] = r
      /\ \A i \in 1 .. Len(toServer) : toServer'[i] = toServer[i]
  BY <1>1
<1>3. CASE r \in {"query", "other"}
  <2>1. /\ Len(toServer) = 0 /\ Len(toPhone) = 0 /\ toPhone' = <<>> /\ last' = NoFrame
        /\ r # "follow"
    BY <1>1, <1>3
  <2>2. RequestInv'
    BY <1>2, <2>1 DEF RequestInv
  <2>3. AnswerInv' /\ ReadInv'
    BY <1>1, <2>1, NoFrameFacts DEF AnswerInv, ReadInv
  <2>4. AgreeInv'
    BY <1>1, <2>1 DEF AgreeInv, ReadUpTo
  <2> QED BY <2>2, <2>3, <2>4
<1>4. CASE r \notin {"query", "other"}
  <2>1. last' = last /\ toPhone' = toPhone /\ UNCHANGED <<frame, session, got, missed>>
    BY <1>1, <1>4 DEF vars
  <2>2. RequestInv'
    BY <1>1, <1>2, <1>4, <2>1, NoFrameFacts DEF RequestInv
  <2>3. AnswerInv' /\ ReadInv'
    BY <2>1 DEF AnswerInv, ReadInv, ReadUpTo
  <2>4. StartsOver => StartsOver'
    BY <1>2 DEF StartsOver
  <2>5. AgreeInv'
    BY <2>1, <2>4 DEF AgreeInv, ReadUpTo
  <2> QED BY <2>2, <2>3, <2>5
<1> QED BY <1>3, <1>4

\* The phone reads a package that continues its transfer, or begins one, and counts what
\* it has missed.
LEMMA ReadsKeeps ==
  ASSUME SessionTypeOK, OrderlyInv, PhoneReads
  PROVE  OrderlyInv' /\ (last' # last => Continues(last, last'))
<1> USE DEF OrderlyInv
<1> DEFINE a == toPhone[1]
<1>1. /\ toPhone \in Seq(Frame \cup {NoFrame}) /\ toPhone # <<>>
      /\ toPhone' = Tail(toPhone) /\ Head(toPhone) = a
      /\ UNCHANGED <<vars, session, toServer>>
  BY DEF PhoneReads, SessionTypeOK
<1>2. /\ Len(toPhone) \in Nat \ {0} /\ Len(toPhone') = Len(toPhone) - 1
      /\ \A i \in 1 .. Len(toPhone) - 1 : toPhone'[i] = toPhone[i + 1]
      /\ a \in Frame \cup {NoFrame}
  BY <1>1
<1>3. Continues(last, a) /\ (a = NoFrame => Len(toPhone) = 1 /\ last = NoFrame)
  BY <1>2 DEF AnswerInv, ReadUpTo
<1>4. last' = a
  BY <1>1, <1>3 DEF PhoneReads, OtherAnswer
<1>5. \A i \in 0 .. Len(toPhone') : ReadUpTo(i)' = ReadUpTo(i + 1)
  BY <1>2, <1>4 DEF ReadUpTo
<1>6. AnswerInv'
  <2> SUFFICES ASSUME NEW i \in 1 .. Len(toPhone')
               PROVE  /\ Continues(ReadUpTo(i - 1)', toPhone'[i])
                      /\ toPhone'[i] # NoFrame
    BY DEF AnswerInv
  <2>1. /\ i + 1 \in 1 .. Len(toPhone) /\ Len(toPhone) # 1
        /\ i - 1 \in 0 .. Len(toPhone') /\ (i - 1) + 1 = (i + 1) - 1
        /\ toPhone'[i] = toPhone[i + 1]
    BY <1>2
  <2>2. ReadUpTo(i - 1)' = ReadUpTo((i + 1) - 1)
    BY <1>5, <2>1
  <2> QED BY <2>1, <2>2 DEF AnswerInv
<1>7. RequestInv'
  <2>1. a = NoFrame => last = NoFrame
    BY <1>3
  <2>2. \A i \in 1 .. Len(toServer) : toServer[i] \notin {"query", "other"}
    BY <1>1 DEF RequestInv
  <2>3. \A i \in 1 .. Len(toServer) : toServer[i] = "follow" => a # NoFrame
    BY <2>1, <1>3 DEF RequestInv
  <2> QED BY <1>1, <1>4, <2>2, <2>3 DEF RequestInv
<1>8. AgreeInv'
  <2>1. ReadUpTo(Len(toPhone))' = ReadUpTo(Len(toPhone))
    BY <1>2, <1>5
  <2> QED BY <1>1, <2>1 DEF AgreeInv, StartsOver, vars
<1>9. ReadInv'
  <2>1. Placed(a) /\ EndsWhole(a)
    BY <1>3 DEF Continues
  <2>2. CASE a = NoFrame
    BY <1>4, <2>1, <2>2 DEF ReadInv
  <2>3. CASE a # NoFrame
    <3>1. /\ got' = IF a.sent <= 1 THEN a.count ELSE got + a.count
          /\ missed' = IF a.sent <= 1 THEN 0 ELSE missed + (a.sent - last.sent - 1)
      BY <1>1, <2>3 DEF PhoneReads, OtherAnswer
    <3>2. /\ a.sent \in Nat /\ a.count \in Nat /\ a.from \in Nat
          /\ last.sent \in Nat /\ last.from \in Nat /\ last.count \in Nat
          /\ got \in Nat /\ missed \in Int /\ RecsPerPkg \in Nat
      BY <1>2, FrameTyped, PackageSize DEF SessionTypeOK
    <3>3. CASE a.sent <= 1
      <4>1. a.from = 0
        <5>1. a.sent < 1 \/ a.sent = 1
          BY <3>2, <3>3
        <5>2. RecsPerPkg * (1 - 1) = 0
          BY <3>2
        <5> QED BY <2>1, <5>1, <5>2 DEF Placed
      <4>2. got' = a.count /\ missed' = 0 /\ RecsPerPkg * 0 = 0
        BY <3>1, <3>2, <3>3
      <4> QED BY <1>4, <2>1, <3>2, <4>1, <4>2 DEF ReadInv
    <3>4. CASE a.sent > 1
      <4>1. last.ctrl = FOLLOWS
        BY <1>3, <3>4 DEF Continues, SameTransfer
      <4>2. last # NoFrame /\ last.from = RecsPerPkg * (last.sent - 1)
            /\ last.count = RecsPerPkg
        BY <4>1, NoFrameFacts DEF ReadInv, Placed
      <4>3. got + RecsPerPkg * missed = RecsPerPkg * last.sent
        BY <3>2, <4>2, NextPlace DEF ReadInv
      <4>4. a.from = RecsPerPkg * (a.sent - 1)
        BY <2>1, <3>2, <3>4 DEF Placed
      <4>5. ~(a.sent <= 1)
        BY <3>2, <3>4
      <4>6. got' = got + a.count /\ missed' = missed + (a.sent - last.sent - 1)
        BY <3>1, <4>5
      <4>7. RecsPerPkg * missed' =
              RecsPerPkg * missed + (RecsPerPkg * (a.sent - 1) - RecsPerPkg * last.sent)
        <5>1. \A x, y, z \in Int : RecsPerPkg * (x + (y - z)) =
                RecsPerPkg * x + (RecsPerPkg * y - RecsPerPkg * z)
          BY <3>2
        <5>2. a.sent - last.sent - 1 = (a.sent - 1) - last.sent
              /\ a.sent - 1 \in Int /\ last.sent \in Int
          BY <3>2
        <5> QED BY <3>2, <4>6, <5>1, <5>2
      <4>8. /\ RecsPerPkg * missed \in Int /\ RecsPerPkg * last.sent \in Int
            /\ RecsPerPkg * (a.sent - 1) \in Int
        BY <3>2
      <4>9. got' + RecsPerPkg * missed' = a.from + a.count
        <5>1. \A g, c, x, y, z \in Int : g + x = y => (g + c) + (x + (z - y)) = z + c
          OBVIOUS
        <5>2. got \in Int /\ a.count \in Int
          BY <3>2
        <5>3. (got + a.count) + (RecsPerPkg * missed + (RecsPerPkg * (a.sent - 1)
                - RecsPerPkg * last.sent)) = RecsPerPkg * (a.sent - 1) + a.count
          BY <4>3, <4>8, <5>1, <5>2
        <5> QED BY <4>4, <4>6, <4>7, <5>3
      <4> QED BY <1>4, <2>1, <4>9 DEF ReadInv
    <3> QED BY <3>2, <3>3, <3>4
  <2> QED BY <2>2, <2>3
<1> QED BY <1>3, <1>4, <1>6, <1>7, <1>8, <1>9

\* An answer f reaches the phone behind those on their way, or is lost, or ends the server.
LEMMA SendKeeps ==
  ASSUME SessionTypeOK, OrderlyInv, NEW f \in Frame \cup {NoFrame}, Send(f),
         UNCHANGED phoneVars,
         RequestInv', frame' = f,
         Continues(ReadUpTo(Len(toPhone)), f),
         \A i \in 1 .. Len(toPhone) : toPhone[i] # NoFrame,
         f = NoFrame => toPhone = <<>> /\ last = NoFrame,
         LET tip == ReadUpTo(Len(toPhone)) IN
           tip # NoFrame => SameTransfer(tip, f) /\ tip.sent <= f.sent
  PROVE  OrderlyInv'
<1> USE DEF OrderlyInv
<1>1. /\ toPhone \in Seq(Frame \cup {NoFrame}) /\ Len(toPhone) \in Nat
      /\ UNCHANGED <<last, got, missed>>
  BY DEF SessionTypeOK, phoneVars
<1>2. CASE toPhone' = Append(toPhone, f)
  <2>1. /\ Len(toPhone') = Len(toPhone) + 1
        /\ toPhone'[Len(toPhone) + 1] = f
        /\ \A i \in 1 .. Len(toPhone) : toPhone'[i] = toPhone[i]
    BY <1>1, <1>2
  <2>2. /\ ReadUpTo(Len(toPhone))' = f
        /\ \A i \in 0 .. Len(toPhone) : ReadUpTo(i)' = ReadUpTo(i)
    BY <1>1, <2>1 DEF ReadUpTo
  <2>3. AnswerInv'
    <3> SUFFICES ASSUME NEW i \in 1 .. Len(toPhone')
                 PROVE  /\ Continues(ReadUpTo(i - 1)', toPhone'[i])
                        /\ toPhone'[i] = NoFrame => Len(toPhone') = 1 /\ last' = NoFrame
      BY DEF AnswerInv
    <3>1. CASE i = Len(toPhone) + 1
      <4>1. i - 1 = Len(toPhone) /\ i - 1 \in 0 .. Len(toPhone)
        BY <1>1, <3>1
      <4>2. ReadUpTo(i - 1)' = ReadUpTo(Len(toPhone)) /\ toPhone'[i] = f
        BY <2>1, <2>2, <3>1, <4>1
      <4>3. toPhone = <<>> => Len(toPhone') = 1
        BY <2>1
      <4> QED BY <1>1, <4>2, <4>3
    <3>2. CASE i \in 1 .. Len(toPhone)
      <4>1. i - 1 \in 0 .. Len(toPhone)
        BY <1>1, <3>2
      <4>2. ReadUpTo(i - 1)' = ReadUpTo(i - 1) /\ toPhone'[i] = toPhone[i]
        BY <2>1, <2>2, <3>2, <4>1
      <4> QED BY <3>2, <4>2 DEF AnswerInv
    <3> QED BY <1>1, <2>1, <3>1, <3>2
  <2>4. AgreeInv'
    <3>1. f.sent <= f.sent
      BY FrameTyped
    <3> QED BY <2>2, <3>1 DEF AgreeInv, SameTransfer
  <2> QED BY <1>1, <2>3, <2>4 DEF ReadInv
<1>3. CASE UNCHANGED toPhone
  <2>1. ReadUpTo(Len(toPhone))' = ReadUpTo(Len(toPhone))
    BY <1>1, <1>3 DEF ReadUpTo
  <2>2. AgreeInv'
    BY <2>1 DEF AgreeInv
  <2> QED BY <1>1, <1>3, <2>2 DEF AnswerInv, ReadInv, ReadUpTo
<1> QED BY <1>2, <1>3 DEF Send

\* What is left of the messages when the first one has been taken.
LEMMA TakeKeeps ==
  ASSUME SessionTypeOK, RequestInv, toServer # <<>>, toServer' = Tail(toServer),
         UNCHANGED last
  PROVE  /\ RequestInv' /\ ~StartsOver'
         /\ Head(toServer) \in Request /\ Head(toServer) = toServer[1]
         /\ 1 \in 1 .. Len(toServer)
<1>1. /\ toServer \in Seq(Request) /\ Len(toServer') = Len(toServer) - 1
      /\ Len(toServer) \in Nat \ {0}
      /\ \A i \in 1 .. Len(toServer') : toServer'[i] = toServer[i + 1]
                                       /\ i + 1 \in 1 .. Len(toServer) /\ i + 1 # 1
      /\ Head(toServer) \in Request /\ Head(toServer) = toServer[1]
  BY DEF SessionTypeOK
<1>2. \A i \in 1 .. Len(toServer') : toServer'[i] \notin {"query", "other"}
  BY <1>1 DEF RequestInv
<1> QED BY <1>1, <1>2 DEF RequestInv, StartsOver

\* The session handles a message of an orderly phone.
LEMMA ProcessKeeps ==
  ASSUME IInv, TypeOK', Placed(frame'), OtherSizesComplete', SessionTypeOK, OrderlyInv, Process
  PROVE  OrderlyInv'
<1> DEFINE m == Head(toServer)
           tip == ReadUpTo(Len(toPhone))
<1>1. /\ toServer # <<>> /\ toServer' = Tail(toServer) /\ Handle(m)
      /\ UNCHANGED phoneVars /\ session = "running"
      /\ UNCHANGED <<last, got, missed>>
  BY DEF Process, phoneVars
<1>2. /\ RequestInv' /\ ~StartsOver' /\ m \in Request /\ m = toServer[1]
      /\ 1 \in 1 .. Len(toServer)
  BY <1>1, TakeKeeps DEF OrderlyInv
<1>3. frame' \in Frame \cup {NoFrame} /\ EndsWhole(frame')
  BY DEF TypeOK, OtherSizesComplete, EndsWhole
<1>4. ASSUME m # "query", m # "other", UNCHANGED <<toPhone, session, frame>> PROVE OrderlyInv'
  <2>1. ~StartsOver
    <3>1. \A i \in 1 .. Len(toServer) : toServer[i] \in {"query", "other"} => i = 1
      BY DEF OrderlyInv, RequestInv
    <3> QED BY <1>2, <1>4, <3>1 DEF StartsOver
  <2>2. AgreeInv'
    BY <1>1, <1>4, <2>1 DEF OrderlyInv, AgreeInv, ReadUpTo
  <2>3. AnswerInv' /\ ReadInv'
    BY <1>1, <1>4 DEF OrderlyInv, AnswerInv, ReadInv, ReadUpTo
  <2> QED BY <1>2, <2>2, <2>3 DEF OrderlyInv
<1>5. ASSUME m \in {"query", "other"}
      PROVE  /\ toPhone = <<>> /\ Len(toPhone) = 0 /\ last = NoFrame /\ tip = NoFrame
             /\ \A i \in 1 .. Len(toPhone) : toPhone[i] # NoFrame
  <2>1. toPhone = <<>> /\ last = NoFrame
    BY <1>2, <1>5 DEF OrderlyInv, RequestInv
  <2> QED BY <2>1 DEF ReadUpTo
<1>6. CASE m = "query"
  <2>1. Send(frame')
    BY <1>1, <1>6 DEF Handle
  <2>2. frame'.sent \in Nat /\ frame'.sent <= 1 /\ frame' # NoFrame
    <3>1. CASE PhoneQueryEmpty
      <4>1. frame'.ctrl = LAST /\ frame'.sent = 0
        BY <3>1 DEF PhoneQueryEmpty, NoFrame
      <4> QED BY <4>1, NoFrameFacts
    <3>2. CASE \E found \in FoundCnt : PhoneQuery(found)
      BY <3>2, DropClears, QueryStarts, NoFrameFacts
    <3> QED BY <1>1, <1>6, <3>1, <3>2 DEF Handle
  <2>3. Continues(tip, frame')
    BY <1>3, <2>2 DEF Continues
  <2> HIDE DEF m
  <2> QED BY <1>1, <1>2, <1>3, <1>5, <1>6, <2>1, <2>2, <2>3, SendKeeps
<1>7. CASE m = "follow"
  <2>1. CASE PhoneFollowAck /\ Send(frame')
    <3>1. /\ NextPackage(frame, frame') /\ frame'.sent > 1
          /\ frame.ctrl = FOLLOWS /\ frame'.room = frame.room
      BY <2>1, FollowAckInOrder, FollowAckSame
    <3>2. \A i \in 1 .. Len(toPhone) : toPhone[i] # NoFrame
      BY <1>2, <1>7 DEF OrderlyInv, RequestInv, AnswerInv
    <3>3. tip # NoFrame /\ tip \in Frame \cup {NoFrame}
      <4>1. last # NoFrame /\ last \in Frame \cup {NoFrame}
            /\ toPhone \in Seq(Frame \cup {NoFrame})
        BY <1>2, <1>7 DEF OrderlyInv, RequestInv, SessionTypeOK
      <4>2. Len(toPhone) \in Nat /\ (Len(toPhone) # 0 => Len(toPhone) \in 1 .. Len(toPhone))
            /\ \A i \in 1 .. Len(toPhone) : toPhone[i] \in Frame \cup {NoFrame}
        BY <4>1
      <4> QED BY <3>2, <4>1, <4>2 DEF ReadUpTo
    <3>4. ~StartsOver
      <4>1. \A i \in 1 .. Len(toServer) : toServer[i] \in {"query", "other"} => i = 1
        BY DEF OrderlyInv, RequestInv
      <4> QED BY <1>2, <1>7, <4>1 DEF StartsOver
    <3>5. SameTransfer(tip, frame) /\ tip.sent <= frame.sent
      BY <1>1, <3>1, <3>3, <3>4 DEF OrderlyInv, AgreeInv
    <3>6. tip.sent \in Nat /\ frame.sent \in Nat
      BY <3>3, FrameTyped DEF IInv, TypeOK
    <3>7. SameTransfer(tip, frame') /\ frame'.sent > tip.sent /\ tip.sent <= frame'.sent
      BY <3>1, <3>5, <3>6 DEF SameTransfer, NextPackage
    <3>8. Continues(tip, frame')
      BY <1>3, <3>7 DEF Continues
    <3>9. frame' # NoFrame
      <4>1. NoFrame.sent = 0
        BY NoFrameFacts
      <4>2. frame'.sent # 0
        BY <3>1
      <4> QED BY <4>1, <4>2
    <3> HIDE DEF m
    <3> QED BY <1>1, <1>2, <1>3, <2>1, <3>2, <3>7, <3>8, <3>9, SendKeeps
  <2>2. CASE UNCHANGED vars /\ NoAnswer
    BY <1>4, <1>7, <2>2 DEF NoAnswer, vars
  <2> QED BY <1>1, <1>7, <2>1, <2>2 DEF Handle
<1>8. CASE m = "beat"
  BY <1>1, <1>4, <1>8 DEF Handle, NoAnswer, vars
<1>9. CASE m = "other"
  <2>1. frame' = NoFrame
    BY <1>1, <1>9 DEF Handle, Drop
  <2>2. CASE NoAnswer
    <3>1. toPhone' = <<>> /\ last' = NoFrame /\ Len(toPhone') = 0
      BY <1>1, <1>5, <1>9, <2>2 DEF NoAnswer
    <3> QED BY <1>1, <1>2, <2>1, <3>1, NoFrameFacts
         DEF OrderlyInv, AnswerInv, AgreeInv, ReadInv
  <2>3. CASE Send(NoFrame)
    <3>1. Continues(tip, NoFrame)
      BY NoFrameFacts
    <3> HIDE DEF m
    <3> QED BY <1>1, <1>2, <1>5, <1>9, <2>1, <2>3, <3>1, SendKeeps
  <2> QED BY <1>1, <1>9, <2>2, <2>3 DEF Handle, OtherAnswer
<1> QED BY <1>2, <1>6, <1>7, <1>8, <1>9 DEF Request

\* Every step keeps the answers in order, and brings an orderly phone a package that
\* continues its transfer or begins one.
LEMMA NextOrderly ==
  ASSUME Orderly, IInv, TypeOK', SessionTypeOK, Placed(frame'), OtherSizesComplete',
         OrderlyInv, [SessionNext]_sessionVars
  PROVE  OrderlyInv' /\ (last' # last => last' = NoFrame \/ Continues(last, last'))
<1>1. ASSUME NEW r \in Request, PhoneSends(r)
      PROVE  OrderlyInv' /\ last' \in {last, NoFrame}
  BY <1>1, SendsKeeps DEF PhoneSends
<1>2. CASE PhoneReads
  BY <1>2, ReadsKeeps
<1>3. CASE Process
  BY <1>3, ProcessKeeps DEF Process, phoneVars
<1>4. CASE PhoneGone \/ EndSession \/ UNCHANGED sessionVars
  <2>1. UNCHANGED <<toServer, toPhone, last, got, missed>>
    BY <1>4 DEF PhoneGone, EndSession, sessionVars, phoneVars
  <2>2. session' = "over" \/ UNCHANGED <<session, frame>>
    BY <1>4 DEF PhoneGone, EndSession, sessionVars, vars
  <2>3. RequestInv' /\ AnswerInv' /\ ReadInv'
    BY <2>1 DEF OrderlyInv, RequestInv, AnswerInv, ReadInv, ReadUpTo
  <2>4. AgreeInv'
    BY <2>1, <2>2 DEF OrderlyInv, AgreeInv, StartsOver, ReadUpTo
  <2> QED BY <2>1, <2>3, <2>4 DEF OrderlyInv
<1> QED BY <1>1, <1>2, <1>3, <1>4 DEF SessionNext

AllInv == /\ IInv /\ Placed(frame) /\ OtherSizesComplete
          /\ SessionTypeOK /\ (Orderly => OrderlyInv)

\* What the session, its transfer and an orderly phone keep together.
LEMMA Together == SessionSpec => []AllInv
<1>1. SessionInit /\ IInv => Placed(frame) /\ (Orderly => OrderlyInv)
  BY InitOrderly
<1>2. IInv /\ Placed(frame) /\ [SessionNext]_sessionVars => Placed(frame)'
  BY NextPlaced, StepTransfer
<1>3. (Orderly => OrderlyInv) /\ IInv /\ TypeOK' /\ SessionTypeOK /\ Placed(frame)'
        /\ OtherSizesComplete' /\ [SessionNext]_sessionVars => (Orderly => OrderlyInv)'
  BY NextOrderly
<1>4. SessionSpec => [](IInv /\ OtherSizesComplete /\ SessionTypeOK /\ TypeOK)
  BY RunsTransfer, Invariance, Completeness, SessionTypeCorrect, TypeCorrect, PTL
<1> QED BY <1>1, <1>2, <1>3, <1>4, PTL DEF SessionSpec, AllInv

\* The packages that reach an orderly phone are those of one transfer, in order and placed
\* by their numbers, for every window, all sizes, however far it asks ahead and whichever
\* packages send loses on its live connection (app.c: pkgSent moves on all the same).
THEOREM ArriveInOrder ==
  ASSUME Orderly
  PROVE  SessionSpec => PackagesArriveInOrder
<1> DEFINE Step == last' # last /\ last'.sent > 1 =>
                     /\ last.ctrl = FOLLOWS
                     /\ last'.sent > last.sent
                     /\ last'.total = last.total
                     /\ last'.room = last.room
                     /\ last'.from = RecsPerPkg * (last'.sent - 1)
<1>1. AllInv /\ AllInv' /\ [SessionNext]_sessionVars => [Step]_sessionVars
  <2> SUFFICES ASSUME AllInv, AllInv', [SessionNext]_sessionVars, last' # last, last'.sent > 1
               PROVE  Step
    OBVIOUS
  <2>1. Continues(last, last')
    BY NextOrderly, NoFrameFacts DEF AllInv, IInv
  <2>2. last'.sent \in Nat
    BY FrameTyped DEF AllInv, SessionTypeOK
  <2> QED BY <2>1, <2>2 DEF Continues, SameTransfer, Placed
<1> QED BY <1>1, Together, PTL DEF SessionSpec, PackagesArriveInOrder

\* Such a phone has read all the records found but those of the packages whose numbers it
\* has missed, when it has read the last package, unless they are an exact multiple of a
\* package (deal_phone_query, deal_phone_follow_ack).
THEOREM ArrivesWhole ==
  ASSUME Orderly
  PROVE  SessionSpec => []HistoryArrivesWhole
<1>1. AllInv => HistoryArrivesWhole
  <2> SUFFICES ASSUME AllInv, last.ctrl = LAST,
                      last.room % RecsPerPkg # 0 \/ last.room <= RecsPerPkg
               PROVE  got + RecsPerPkg * missed = last.room
    BY DEF HistoryArrivesWhole
  <2>1. ReadInv /\ last # NoFrame
    BY NoFrameFacts DEF AllInv, OrderlyInv
  <2> QED BY <2>1 DEF ReadInv, EndsWhole
<1> QED BY <1>1, Together, PTL
=============================================================================

------------------------- MODULE DeviceStore_proofs -------------------------
(***************************************************************************)
(* What DeviceStore keeps for any number of sessions and devices, any      *)
(* readings and any number of retries, through kills and restarts.         *)
(*                                                                         *)
(* The invariant ties a thread's place to the request it executes, and     *)
(* says that a thread that is about to update TotalTable has stored its    *)
(* report.  The store of reports follows if the names of different devices *)
(* are different to SQLite, and that reports are found again if their      *)
(* ticks are below the sign bit.                                           *)
(***************************************************************************)
EXTENDS DeviceStore, TLAPS

OnlinePC  == {"print1", "print2", "create", "insertTotal", "updateTick"}
PublishPC == {"insertChild", "updateData"}

\* what request a thread executes at place p
Fits(p, r) ==
  /\ p \in OnlinePC => r.op = "online"
  /\ p \in PublishPC => r.op = "publish" /\ r.data \in Readings[r.dev]
  /\ p = "findTotal" => r.op \in {"online", "phone", "query"}
  /\ p = "findChild" => r.op = "query"

RequestInv == \A c \in Client : Fits(pc[c], req[c])

\* a thread writes to the shared buffer before it executes what is in it
BufferInv ==
  \A c \in Client :
    /\ pc[c] \in {"print2", "create"} => cmd_exec[1] \in Dev
    /\ pc[c] = "create" => cmd_exec[2] \in Dev

IsStored(d, t)    == child[Name[d]][Signed(t)] # NoRow
StoredAfter(d, t) == child'[Name[d]][Signed(t)] # NoRow

StoredInv == \A c \in Client : pc[c] = "updateData" => IsStored(req[c].dev, req[c].tick)

AckedInv == \A p \in ackedPublish : IsStored(p[1], p[2])

IInv ==
  /\ TypeOK
  /\ RequestInv
  /\ BufferInv
  /\ StoredInv
  /\ AckedInv

-----------------------------------------------------------------------------
(* Requests and rows *)

\* What a request holds, by its operation.
LEMMA Fields ==
  ASSUME NEW r \in Request \cup {NoRequest}
  PROVE  /\ r.op = "online" => r.dev \in Dev /\ r.tick \in Tick
         /\ r.op = "phone" => r.dev \in Dev
         /\ r.op = "publish" => r.dev \in Dev /\ r.tick \in Tick /\ r.data \in Sample
         /\ r.op = "query" => r.dev \in Dev /\ r.startTick \in Tick /\ r.endTick \in Tick
BY DEF Request, NoRequest

\* A reading is a sample, and tells a row from none.
LEMMA ReadingRow ==
  ASSUME NEW d \in Dev, NEW v \in Readings[d]
  PROVE  v \in Sample /\ v # NoRow /\ v # Zero
BY DeviceStoreAssumption DEF Sample

\* The places of ticks are keys.
LEMMA TickKey ==
  ASSUME NEW t \in Tick
  PROVE  Signed(t) \in Key
BY DeviceStoreAssumption DEF Key

\* Ticks are integers.
LEMMA TickInt ==
  ASSUME NEW t \in Tick
  PROVE  t \in Int
BY DeviceStoreAssumption

\* The stored reading of a tick is an integer, too.
LEMMA SignedInt ==
  ASSUME NEW t \in Tick
  PROVE  Signed(t) \in Int
<1>1. 2 ^ TickBits \in Int
  BY DeviceStoreAssumption
<1> QED BY <1>1, TickInt DEF Signed

\* A device's table has a name.
LEMMA DevTable ==
  ASSUME NEW d \in Dev
  PROVE  Name[d] \in Table
BY DEF Table

\* What clients send are requests, with readings of the device they name.
LEMMA RequestsFit ==
  ASSUME NEW r \in Requests
  PROVE  /\ r \in Request
         /\ r.op \in {"online", "phone", "publish", "query"}
         /\ r.op = "publish" => r.data \in Readings[r.dev]
BY DeviceStoreAssumption DEF Requests, Request, Sample

-----------------------------------------------------------------------------
(* The three ways in which a thread goes on *)

FileOK ==
  /\ totalExists \in BOOLEAN
  /\ total \in [Dev -> [tick : Int, data : Sample] \cup {NoRow}]
  /\ tables \in SUBSET Table
  /\ child \in [Table -> [Key -> Sample \cup {NoRow}]]

\* a step on the file that loses no report
Grows ==
  /\ FileOK'
  /\ \A d \in Dev, t \in Tick : IsStored(d, t) => StoredAfter(d, t)

\* A step that leaves the file alone loses nothing.
LEMMA SameFile ==
  ASSUME TypeOK, UNCHANGED fileVars
  PROVE  Grows
BY DEF TypeOK, FileOK, Grows, IsStored, StoredAfter, fileVars

\* A thread goes to its next statement, with the same request.
LEMMA GoesOn ==
  ASSUME IInv, Grows, NEW c \in Client, NEW p \in ExecPC, Goto(c, p), Continue,
         Fits(p, req[c]), p # "create", p = "updateData" => StoredAfter(req[c].dev, req[c].tick)
  PROVE  IInv'
<1> USE DEF IInv, Goto, Continue, histVars
<1>1. p \in PC /\ p \notin {"print2", "create"}
  BY DEF PC, ExecPC, WritePC, FindPC
<1>2. TypeOK'
  <2>1. pc' \in [Client -> PC] /\ cnt' \in [Client -> 0 .. RetryMax]
    BY <1>1, DeviceStoreAssumption DEF TypeOK
  <2> QED BY <2>1 DEF TypeOK, Grows, FileOK
<1>3. RequestInv'
  BY DEF RequestInv, TypeOK, Fits
<1>4. BufferInv'
  BY <1>1 DEF BufferInv, TypeOK
<1>5. StoredInv'
  <2> SUFFICES ASSUME NEW o \in Client, pc'[o] = "updateData"
               PROVE  IsStored(req[o].dev, req[o].tick)'
    BY DEF StoredInv
  <2>1. CASE o = c
    BY <2>1 DEF TypeOK, IsStored, StoredAfter
  <2>2. CASE o # c
    <3>1. pc[o] = "updateData" /\ IsStored(req[o].dev, req[o].tick)
      BY <2>2 DEF TypeOK, StoredInv
    <3>2. req[o].op = "publish"
      BY <3>1 DEF RequestInv, Fits, PublishPC
    <3>3. req[o].dev \in Dev /\ req[o].tick \in Tick
      BY <3>2, Fields DEF TypeOK
    <3> QED BY <3>1, <3>3 DEF Grows, IsStored, StoredAfter
  <2> QED BY <2>1, <2>2
<1>6. AckedInv'
  BY DEF AckedInv, Grows, TypeOK, IsStored, StoredAfter
<1> QED BY <1>2, <1>3, <1>4, <1>5, <1>6

\* A handler returns; a publish returns TRUE only for a report that is stored.
LEMMA GoesBack ==
  ASSUME IInv, Grows, NEW c \in Client, pc[c] \in ExecPC, NEW r \in {"TRUE", "FALSE"},
         Return(c, r),
         req[c].op = "publish" /\ r = "TRUE" => StoredAfter(req[c].dev, req[c].tick)
  PROVE  IInv'
<1> USE DEF IInv, Return
<1>1. /\ req[c].op = "online" => req[c].dev \in Dev
      /\ req[c].op = "publish" => req[c].dev \in Dev /\ req[c].tick \in Tick
  BY Fields DEF TypeOK
<1>2. TypeOK'
  <2>1. pc' \in [Client -> PC]
    BY DEF TypeOK, PC
  <2>2. cnt' \in [Client -> 0 .. RetryMax]
    BY DeviceStoreAssumption DEF TypeOK
  <2>3. req' \in [Client -> Request \cup {NoRequest}] /\ res' \in [Client -> {"none", "TRUE", "FALSE"}]
    BY DEF TypeOK
  <2>4. ackedOnline' \in SUBSET Dev /\ ackedPublish' \in SUBSET (Dev \X Tick)
    BY <1>1 DEF TypeOK
  <2> QED BY <2>1, <2>2, <2>3, <2>4 DEF TypeOK, Grows, FileOK
<1>3. RequestInv'
  BY DEF RequestInv, TypeOK, Fits, OnlinePC, PublishPC
<1>4. BufferInv'
  BY DEF BufferInv, TypeOK
<1>5. StoredInv'
  <2> SUFFICES ASSUME NEW o \in Client, pc'[o] = "updateData"
               PROVE  IsStored(req[o].dev, req[o].tick)' /\ o # c
    BY DEF StoredInv, TypeOK, IsStored, StoredAfter
  <2>1. o # c /\ pc[o] = "updateData" /\ IsStored(req[o].dev, req[o].tick)
    BY DEF TypeOK, StoredInv
  <2>2. req[o].op = "publish"
    BY <2>1 DEF RequestInv, Fits, PublishPC
  <2>3. req[o].dev \in Dev /\ req[o].tick \in Tick /\ req'[o] = req[o]
    BY <2>1, <2>2, Fields DEF TypeOK
  <2> QED BY <2>1, <2>3 DEF Grows, IsStored, StoredAfter
<1>6. AckedInv'
  <2> SUFFICES ASSUME NEW a \in ackedPublish'
               PROVE  IsStored(a[1], a[2])'
    BY DEF AckedInv, IsStored, StoredAfter
  <2>1. CASE a \in ackedPublish
    BY <2>1 DEF AckedInv, Grows, TypeOK, IsStored, StoredAfter
  <2>2. CASE a \notin ackedPublish
    <3>1. a = <<req[c].dev, req[c].tick>> /\ req[c].op = "publish" /\ r = "TRUE"
      BY <2>2
    <3> QED BY <3>1 DEF IsStored, StoredAfter
  <2> QED BY <2>1, <2>2
<1> QED BY <1>2, <1>3, <1>4, <1>5, <1>6

\* The process is lost: no thread is left, and what was acknowledged is in the file.
LEMMA Dies ==
  ASSUME IInv, NEW how \in {"killed", "faulted"}, ProcessLost(how)
  PROVE  IInv'
<1> USE DEF IInv, ProcessLost, fileVars, histVars
<1>1. TypeOK'
  BY DeviceStoreAssumption DEF TypeOK, PC
<1>2. RequestInv' /\ BufferInv' /\ StoredInv'
  BY DEF RequestInv, Fits, OnlinePC, PublishPC, BufferInv, StoredInv
<1>3. AckedInv'
  BY DEF AckedInv, IsStored, StoredAfter
<1> QED BY <1>1, <1>2, <1>3

-----------------------------------------------------------------------------
(* Every step keeps the invariant *)

\* An empty file, no sessions, nothing acknowledged.
LEMMA InitIInv == Init => IInv
<1> SUFFICES ASSUME Init PROVE IInv
  OBVIOUS
<1> USE DEF Init
<1>1. FileOK
  BY DEF FileOK
<1>2. TypeOK
  BY <1>1, DeviceStoreAssumption DEF TypeOK, FileOK, PC
<1>3. RequestInv /\ BufferInv /\ StoredInv /\ AckedInv
  BY DEF RequestInv, Fits, OnlinePC, PublishPC, BufferInv, StoredInv, AckedInv
<1> QED BY <1>2, <1>3 DEF IInv

\* A session starts.
LEMMA ConnectKeeps ==
  ASSUME IInv, NEW c \in Client, Connect(c)
  PROVE  IInv'
<1> USE DEF IInv, Connect, Continue, Goto, fileVars, histVars
<1>1. TypeOK'
  BY DeviceStoreAssumption DEF TypeOK, PC, ExecPC, WritePC, FindPC
<1>2. RequestInv'
  BY DEF TypeOK, RequestInv, Fits, OnlinePC, PublishPC
<1>3. BufferInv'
  BY DEF TypeOK, BufferInv
<1>4. StoredInv' /\ AckedInv'
  BY DEF TypeOK, StoredInv, AckedInv, IsStored
<1> QED BY <1>1, <1>2, <1>3, <1>4

\* A session ends.
LEMMA DisconnectKeeps ==
  ASSUME IInv, NEW c \in Client, Disconnect(c)
  PROVE  IInv'
<1> USE DEF IInv, Disconnect, Continue, Goto, fileVars, histVars
<1>1. TypeOK'
  BY DeviceStoreAssumption DEF TypeOK, PC, ExecPC, WritePC, FindPC
<1>2. RequestInv'
  BY DEF TypeOK, RequestInv, Fits, OnlinePC, PublishPC
<1>3. BufferInv'
  BY DEF TypeOK, BufferInv
<1>4. StoredInv' /\ AckedInv'
  BY DEF TypeOK, StoredInv, AckedInv, IsStored
<1> QED BY <1>1, <1>2, <1>3, <1>4

\* TotalTable is there.
LEMMA ExecInitKeeps ==
  ASSUME IInv, NEW c \in Client, ExecInit(c)
  PROVE  IInv'
<1> USE DEF IInv, ExecInit, Continue, Goto, fileVars, histVars
<1>1. TypeOK'
  BY DeviceStoreAssumption DEF TypeOK, PC, ExecPC, WritePC, FindPC
<1>2. RequestInv'
  BY DEF TypeOK, RequestInv, Fits, OnlinePC, PublishPC
<1>3. BufferInv'
  BY DEF TypeOK, BufferInv
<1>4. StoredInv' /\ AckedInv'
  BY DEF TypeOK, StoredInv, AckedInv, IsStored
<1> QED BY <1>1, <1>2, <1>3, <1>4

\* A statement is refused and tried again.
LEMMA ExecBusyKeeps ==
  ASSUME IInv, NEW c \in Client, ExecBusy(c)
  PROVE  IInv'
<1> USE DEF IInv, ExecBusy, Continue, Goto, fileVars, histVars
<1>1. TypeOK'
  BY DeviceStoreAssumption DEF TypeOK, PC, ExecPC, WritePC, FindPC
<1>2. RequestInv'
  BY DEF TypeOK, RequestInv, Fits, OnlinePC, PublishPC
<1>3. BufferInv'
  BY DEF TypeOK, BufferInv
<1>4. StoredInv' /\ AckedInv'
  BY DEF TypeOK, StoredInv, AckedInv, IsStored
<1> QED BY <1>1, <1>2, <1>3, <1>4

\* A message arrives.
LEMMA ReceiveKeeps ==
  ASSUME IInv, NEW c \in Client, NEW r \in Requests, Receive(c, r)
  PROVE  IInv'
<1> USE DEF IInv, fileVars, histVars
<1> DEFINE p == CASE r.op = "online"            -> "print1"
                  [] r.op = "publish"           -> "insertChild"
                  [] r.op \in {"phone", "query"} -> "findTotal"
<1>1. r \in Request /\ Fits(p, r) /\ p \in {"print1", "insertChild", "findTotal"}
  BY RequestsFit DEF Fits, OnlinePC, PublishPC
<1>2. /\ Goto(c, p)
      /\ req' = [req EXCEPT ![c] = r]
      /\ res' = [res EXCEPT ![c] = "none"]
      /\ UNCHANGED <<server, fileVars, cmd_exec, histVars>>
  BY DEF Receive
<1> HIDE DEF p
<1>3. TypeOK'
  <2>1. pc' \in [Client -> PC] /\ cnt' \in [Client -> 0 .. RetryMax]
    BY <1>1, <1>2, DeviceStoreAssumption DEF TypeOK, Goto, PC, ExecPC, WritePC, FindPC
  <2>2. req' \in [Client -> Request \cup {NoRequest}] /\ res' \in [Client -> {"none", "TRUE", "FALSE"}]
    BY <1>1, <1>2 DEF TypeOK
  <2> QED BY <1>2, <2>1, <2>2 DEF TypeOK
<1>4. RequestInv'
  <2> SUFFICES ASSUME NEW o \in Client PROVE Fits(pc'[o], req'[o])
    BY DEF RequestInv, Fits
  <2>1. CASE o = c
    BY <1>1, <1>2, <2>1 DEF TypeOK, Goto
  <2>2. CASE o # c
    BY <1>2, <2>2 DEF RequestInv, TypeOK, Goto
  <2> QED BY <2>1, <2>2
<1>5. BufferInv' /\ StoredInv' /\ AckedInv'
  BY <1>1, <1>2 DEF BufferInv, StoredInv, AckedInv, IsStored, TypeOK, Goto
<1> QED BY <1>3, <1>4, <1>5

\* Half an identifier is written into the buffer.
LEMMA WriteHalfKeeps ==
  ASSUME IInv, NEW c \in Client,
         \/ WriteHalf(c, "print1", 1, "print2")
         \/ WriteHalf(c, "print2", 2, "create")
  PROVE  IInv'
<1> USE DEF IInv, WriteHalf, Goto, fileVars, histVars
<1>1. req[c].op = "online" /\ req[c].dev \in Dev
  BY Fields DEF RequestInv, Fits, OnlinePC, TypeOK
<1>2. PICK p \in {"print2", "create"} : Goto(c, p)
  BY Zenon
<1>3. \A half \in {1, 2} : cmd_exec'[half] \in {cmd_exec[half], req[c].dev}
  BY DEF TypeOK
<1>4. /\ cmd_exec' \in (Dev \cup {Empty}) \X (Dev \cup {Empty})
      /\ p = "print2" => cmd_exec'[1] \in Dev
      /\ p = "create" => cmd_exec'[2] \in Dev /\ cmd_exec'[1] = cmd_exec[1]
  BY <1>1, <1>2 DEF TypeOK
<1>5. TypeOK'
  <2>1. pc' \in [Client -> PC] /\ cnt' \in [Client -> 0 .. RetryMax]
    BY <1>2, DeviceStoreAssumption DEF TypeOK, PC, ExecPC, WritePC
  <2> QED BY <2>1, <1>4 DEF TypeOK
<1>6. RequestInv'
  BY <1>1, <1>2 DEF RequestInv, TypeOK, Fits, OnlinePC, PublishPC
<1>7. BufferInv'
  BY <1>1, <1>2, <1>3, <1>4 DEF BufferInv, TypeOK
<1>8. StoredInv' /\ AckedInv'
  BY <1>2 DEF StoredInv, AckedInv, IsStored, TypeOK
<1> QED BY <1>5, <1>6, <1>7, <1>8

\* A child table is created, under whatever name the buffer holds.
LEMMA ExecCreateKeeps ==
  ASSUME IInv, NEW c \in Client, ExecCreate(c)
  PROVE  IInv'
<1> USE DEF IInv, ExecCreate
<1>1. NamedTable \in Table
  BY DEF NamedTable, BufferInv, Table
<1>2. Grows
  BY <1>1 DEF Grows, FileOK, TypeOK, IsStored, StoredAfter
<1>3. Fits("findTotal", req[c])
  BY DEF RequestInv, Fits, OnlinePC, PublishPC
<1> QED BY <1>2, <1>3, GoesOn DEF ExecPC, FindPC

\* A device is looked up.
LEMMA ExecFindTotalKeeps ==
  ASSUME IInv, NEW c \in Client, ExecFindTotal(c)
  PROVE  IInv'
<1> USE DEF IInv
<1>1. Grows
  BY SameFile DEF ExecFindTotal
<1>2. pc[c] = "findTotal" /\ pc[c] \in ExecPC /\ req[c].op \in {"online", "phone", "query"}
  BY DEF ExecFindTotal, RequestInv, Fits, ExecPC, FindPC
<1>3. \/ /\ req[c].op = "online"
         /\ \/ Goto(c, "updateTick") /\ Continue
            \/ Goto(c, "insertTotal") /\ Continue
      \/ req[c].op = "query" /\ Goto(c, "findChild") /\ Continue
      \/ Return(c, "TRUE")
      \/ Return(c, "FALSE")
  BY <1>2, Zenon DEF ExecFindTotal
<1>4. ASSUME NEW p \in {"updateTick", "insertTotal"}, Goto(c, p), Continue, req[c].op = "online"
      PROVE  IInv'
  <2>1. p \in ExecPC /\ Fits(p, req[c]) /\ p \notin {"create", "updateData"}
    BY <1>4 DEF Fits, OnlinePC, PublishPC, ExecPC, WritePC
  <2> QED BY <1>1, <1>4, <2>1, GoesOn
<1>5. ASSUME Goto(c, "findChild"), Continue, req[c].op = "query"
      PROVE  IInv'
  <2>1. "findChild" \in ExecPC /\ Fits("findChild", req[c])
    BY <1>5 DEF Fits, OnlinePC, PublishPC, ExecPC, FindPC
  <2> QED BY <1>1, <1>5, <2>1, GoesOn
<1>6. ASSUME NEW r \in {"TRUE", "FALSE"}, Return(c, r)
      PROVE  IInv'
  BY <1>1, <1>2, <1>6, GoesBack
<1> QED BY <1>3, <1>4, <1>5, <1>6

\* A device gets its row.
LEMMA ExecInsertTotalKeeps ==
  ASSUME IInv, NEW c \in Client, ExecInsertTotal(c)
  PROVE  IInv'
<1> USE DEF IInv, ExecInsertTotal
<1>1. req[c].op = "online" /\ req[c].dev \in Dev /\ req[c].tick \in Tick
  BY Fields DEF TypeOK, RequestInv, Fits, OnlinePC
<1>2. Signed(req[c].tick) \in Int
  BY <1>1, SignedInt
<1>3. total' \in [Dev -> [tick : Int, data : Sample] \cup {NoRow}]
  <2>1. [tick |-> Signed(req[c].tick), data |-> Zero] \in [tick : Int, data : Sample]
    BY <1>2 DEF Sample
  <2> QED BY <2>1 DEF TypeOK
<1>4. Grows
  BY <1>3 DEF Grows, FileOK, TypeOK, IsStored, StoredAfter
<1> QED BY <1>1, <1>4, GoesBack DEF ExecPC, WritePC

\* UPDATE leaves a row a row, and no row none.
LEMMA UpdateRow ==
  ASSUME TypeOK, NEW d \in Dev, NEW field \in {"tick", "data"}, NEW v, Update(d, field, v),
         field = "tick" => v \in Int, field = "data" => v \in Sample
  PROVE  /\ total' \in [Dev -> [tick : Int, data : Sample] \cup {NoRow}]
         /\ \A e \in Dev : total'[e] = NoRow <=> total[e] = NoRow
         /\ \A e \in Dev \ {d} : total'[e] = total[e]
         /\ total[d] # NoRow /\ field = "tick" => total'[d].data = total[d].data
         /\ total[d] # NoRow /\ field = "data" => total'[d].data = v
<1>1. CASE total[d] = NoRow
  BY <1>1 DEF TypeOK, Update
<1>2. CASE total[d] # NoRow
  <2> DEFINE row == [total[d] EXCEPT ![field] = v]
  <2>1. total[d] \in [tick : Int, data : Sample]
    BY <1>2 DEF TypeOK
  <2>2. row \in [tick : Int, data : Sample]
    BY <2>1
  <2>3. /\ field = "tick" => row.data = total[d].data
        /\ field = "data" => row.data = v
    BY <2>1
  <2>4. total' = [total EXCEPT ![d] = row]
    BY <1>2 DEF Update, TypeOK
  <2>5. row # NoRow
    BY <2>2, NoRowAssumption
  <2> HIDE DEF row
  <2> QED BY <1>2, <2>1, <2>2, <2>3, <2>4, <2>5 DEF TypeOK
<1> QED BY <1>1, <1>2

\* A known device is online.
LEMMA ExecUpdateTickKeeps ==
  ASSUME IInv, NEW c \in Client, ExecUpdateTick(c)
  PROVE  IInv'
<1> USE DEF IInv, ExecUpdateTick
<1>1. req[c].op = "online" /\ req[c].dev \in Dev /\ req[c].tick \in Int
  BY Fields, TickInt DEF TypeOK, RequestInv, Fits, OnlinePC
<1>2. total' \in [Dev -> [tick : Int, data : Sample] \cup {NoRow}]
  BY <1>1, UpdateRow
<1>3. Grows
  BY <1>2 DEF Grows, FileOK, TypeOK, IsStored, StoredAfter
<1> QED BY <1>1, <1>3, GoesBack DEF ExecPC, WritePC

\* A report is stored.
LEMMA ExecInsertChildKeeps ==
  ASSUME IInv, NEW c \in Client, ExecInsertChild(c)
  PROVE  IInv'
<1> USE DEF IInv, ExecInsertChild
<1>1. /\ req[c].op = "publish" /\ req[c].dev \in Dev /\ req[c].tick \in Tick
      /\ req[c].data \in Readings[req[c].dev]
  BY Fields DEF TypeOK, RequestInv, Fits, PublishPC
<1>2. req[c].data \in Sample /\ req[c].data # NoRow
  BY <1>1, ReadingRow
<1>3. Name[req[c].dev] \in Table /\ Signed(req[c].tick) \in Key
  BY <1>1, DevTable, TickKey
<1>4. child' \in [Table -> [Key -> Sample \cup {NoRow}]]
  BY <1>2, <1>3 DEF TypeOK
<1>5. \A d \in Dev, t \in Tick : IsStored(d, t) => StoredAfter(d, t)
  <2> SUFFICES ASSUME NEW d \in Dev, NEW t \in Tick, IsStored(d, t)
               PROVE  StoredAfter(d, t)
    OBVIOUS
  <2>1. Name[d] \in Table /\ Signed(t) \in Key
    BY DevTable, TickKey
  <2> QED BY <1>2, <1>3, <2>1 DEF TypeOK, IsStored, StoredAfter
<1>6. Grows
  BY <1>4, <1>5 DEF Grows, FileOK, TypeOK
<1>7. StoredAfter(req[c].dev, req[c].tick)
  BY <1>2, <1>3 DEF TypeOK, StoredAfter
<1>8. "updateData" \in ExecPC /\ Fits("updateData", req[c])
  BY <1>1 DEF ExecPC, WritePC, Fits, OnlinePC, PublishPC
<1> QED BY <1>6, <1>7, <1>8, GoesOn

\* A report is shown and acknowledged.
LEMMA ExecUpdateDataKeeps ==
  ASSUME IInv, NEW c \in Client, ExecUpdateData(c)
  PROVE  IInv'
<1> USE DEF IInv, ExecUpdateData
<1>1. /\ req[c].dev \in Dev /\ req[c].tick \in Tick /\ req[c].data \in Sample
      /\ IsStored(req[c].dev, req[c].tick)
  BY Fields DEF TypeOK, RequestInv, Fits, PublishPC, StoredInv
<1>2. total' \in [Dev -> [tick : Int, data : Sample] \cup {NoRow}]
  BY <1>1, UpdateRow
<1>3. Grows
  BY <1>2 DEF Grows, FileOK, TypeOK, IsStored, StoredAfter
<1>4. StoredAfter(req[c].dev, req[c].tick)
  BY <1>1, <1>3 DEF Grows
<1> QED BY <1>3, <1>4, GoesBack DEF ExecPC, WritePC

\* Reports are looked up.
LEMMA ExecFindChildKeeps ==
  ASSUME IInv, NEW c \in Client, ExecFindChild(c)
  PROVE  IInv'
<1> USE DEF IInv
<1>1. Grows /\ pc[c] \in ExecPC /\ req[c].op = "query"
  BY SameFile DEF ExecFindChild, ExecPC, FindPC, RequestInv, Fits
<1>2. PICK r \in {"TRUE", "FALSE"} : Return(c, r)
  BY Zenon DEF ExecFindChild
<1> QED BY <1>1, <1>2, GoesBack

\* What a failed statement leads to, case by case.
LEMMA FailedCases ==
  ASSUME NEW c \in Client, pc[c] \in ExecPC, Failed(c)
  PROVE  \/ /\ pc[c] = "init"
            /\ pc' = [pc EXCEPT ![c] = "idle"] /\ cnt' = [cnt EXCEPT ![c] = 0] /\ Continue
         \/ ProcessLost("faulted")
         \/ pc[c] = "updateData" /\ Return(c, "TRUE")
         \/ Return(c, "FALSE")
<1>1. CASE pc[c] \in {"init", "create"}
  BY <1>1, Zenon DEF Failed
<1>2. CASE pc[c] \notin {"init", "create"} /\ ENABLE_DBG
  BY <1>2, Zenon DEF Failed
<1>3. CASE pc[c] \notin {"init", "create"} /\ ~ENABLE_DBG
  BY <1>3, Zenon DEF Failed
<1> QED BY <1>1, <1>2, <1>3, Zenon

\* A statement fails.
LEMMA ExecFailsKeeps ==
  ASSUME IInv, NEW c \in Client, ExecFails(c)
  PROVE  IInv'
<1> USE DEF IInv
<1>1. pc[c] \in ExecPC /\ Failed(c) /\ UNCHANGED fileVars /\ Grows
  BY SameFile DEF ExecFails
<1>2. CASE /\ pc[c] = "init"
           /\ pc' = [pc EXCEPT ![c] = "idle"] /\ cnt' = [cnt EXCEPT ![c] = 0] /\ Continue
  <2> USE <1>1, <1>2 DEF Continue, fileVars, histVars
  <2>1. TypeOK'
    BY DeviceStoreAssumption DEF TypeOK, PC
  <2>2. RequestInv' /\ BufferInv' /\ StoredInv' /\ AckedInv'
    BY DEF TypeOK, RequestInv, Fits, OnlinePC, PublishPC, BufferInv, StoredInv, AckedInv, IsStored
  <2> QED BY <2>1, <2>2
<1>3. CASE ProcessLost("faulted")
  BY <1>3, Dies
<1>4. CASE pc[c] = "updateData" /\ Return(c, "TRUE")
  <2>1. req[c].op = "publish" /\ req[c].dev \in Dev /\ req[c].tick \in Tick
    BY <1>4, Fields DEF TypeOK, RequestInv, Fits, PublishPC
  <2>2. StoredAfter(req[c].dev, req[c].tick)
    BY <1>1, <1>4, <2>1 DEF StoredInv, Grows
  <2> QED BY <1>1, <1>4, <2>2, GoesBack
<1>5. CASE Return(c, "FALSE")
  BY <1>1, <1>5, GoesBack
<1> QED BY <1>1, <1>2, <1>3, <1>4, <1>5, FailedCases

\* A step of a thread, of a client, of the operator or of fate keeps the invariant.
LEMMA NextIInv == IInv /\ [Next]_vars => IInv'
<1> SUFFICES ASSUME IInv, [Next]_vars PROVE IInv'
  OBVIOUS
<1>1. ASSUME NEW c \in Client, Works(c) PROVE IInv'
  <2>1. CASE PrintFirst(c) \/ PrintSecond(c)
    BY <2>1, WriteHalfKeeps DEF PrintFirst, PrintSecond
  <2>2. CASE ExecOk(c)
    BY <2>2, ExecInitKeeps, ExecCreateKeeps, ExecFindTotalKeeps, ExecInsertTotalKeeps,
       ExecUpdateTickKeeps, ExecInsertChildKeeps, ExecUpdateDataKeeps, ExecFindChildKeeps
       DEF ExecOk
  <2>3. CASE ExecBusy(c)
    BY <2>3, ExecBusyKeeps
  <2>4. CASE ExecFails(c)
    BY <2>4, ExecFailsKeeps
  <2> QED BY <1>1, <2>1, <2>2, <2>3, <2>4 DEF Works
<1>2. ASSUME NEW c \in Client, Serves(c) PROVE IInv'
  BY <1>2, ConnectKeeps, DisconnectKeeps, ReceiveKeeps DEF Serves
<1>3. CASE Killed
  BY <1>3, Dies DEF Killed
<1>4. CASE Restart
  BY <1>4 DEF Restart, IInv, TypeOK, RequestInv, BufferInv, StoredInv, AckedInv, IsStored,
     fileVars, histVars
<1>5. CASE UNCHANGED vars
  BY <1>5 DEF vars, IInv, TypeOK, RequestInv, BufferInv, StoredInv, AckedInv, IsStored
<1> QED BY <1>1, <1>2, <1>3, <1>4, <1>5 DEF Next

-----------------------------------------------------------------------------
(* Theorems *)

\* What ties threads, requests, the buffer and the file together, at all times.
THEOREM Invariance == Spec => []IInv
BY InitIInv, NextIInv, PTL DEF Spec

\* The file, the threads, their requests and retries keep their types (database.c).
THEOREM TypeCorrect == Spec => []TypeOK
<1>1. IInv => TypeOK
  BY DEF IInv
<1> QED BY <1>1, Invariance, PTL

\* the ticks that are the same signed and unsigned
TicksBelowSign == \A t \in Tick : t < 2 ^ (TickBits - 1)

\* Reports with ticks below the sign bit are found again once they were acknowledged
\* (api_devPublish and api_phoneQuery in database.c).
THEOREM AckedFound ==
  ASSUME TicksBelowSign
  PROVE  Spec => []AckedPublishFound
<1>1. IInv => AckedPublishFound
  <2> SUFFICES ASSUME IInv, NEW p \in ackedPublish
               PROVE  Found(p[1], p[2], p[2]) # {}
    BY DEF AckedPublishFound
  <2>1. p[1] \in Dev /\ p[2] \in Tick
    BY DEF IInv, TypeOK
  <2>2. Signed(p[2]) = p[2] /\ p[2] \in Int
    BY <2>1, TickInt DEF Signed, TicksBelowSign
  <2>3. p[2] \in Key /\ child[Name[p[1]]][p[2]] # NoRow
    BY <2>1, <2>2, TickKey DEF IInv, AckedInv, IsStored
  <2> QED BY <2>2, <2>3 DEF Found
<1> QED BY <1>1, Invariance, PTL

-----------------------------------------------------------------------------
(* The store of reports *)

\* SQLite tells the tables of different devices apart
NamesDiffer == \A d, e \in Dev : Name[d] = Name[e] => d = e

\* An empty file is an empty store.
LEMMA InitStore == Init => Store!Init
<1> SUFFICES ASSUME Init PROVE Store!Init
  OBVIOUS
<1>1. Reports = [d \in Dev |-> [k \in Key |-> NoRow]]
  BY DevTable DEF Init, Reports
<1>2. Shown = [d \in Dev |-> NoRow] /\ Promised = {}
  BY DEF Init, Shown, Promised
<1> QED BY <1>1, <1>2 DEF Store!Init

\* A step that changes no report, no sample of a row and no promise is none of the store.
LEMMA StoreStutters ==
  ASSUME UNCHANGED <<total, child, ackedPublish>>
  PROVE  UNCHANGED Store!storeVars
BY DEF Reports, Shown, Promised, Store!storeVars

\* A publish that returns TRUE promises its report, and no other return does.
LEMMA ReturnPromises ==
  ASSUME NEW c \in Client, NEW r, Return(c, r)
  PROVE  IF req[c].op = "publish" /\ r = "TRUE"
           THEN Promised' = Promised \cup {<<req[c].dev, Signed(req[c].tick)>>}
           ELSE Promised' = Promised /\ ackedPublish' = ackedPublish
<1>1. CASE req[c].op = "publish" /\ r = "TRUE"
  <2>1. ackedPublish' = ackedPublish \cup {<<req[c].dev, req[c].tick>>}
    BY <1>1 DEF Return
  <2> DEFINE a == <<req[c].dev, req[c].tick>>
             b == <<req[c].dev, Signed(req[c].tick)>>
  <2>2. <<a[1], Signed(a[2])>> = b
    OBVIOUS
  <2> HIDE DEF a, b
  <2>3. ackedPublish' = ackedPublish \cup {a}
    BY <2>1 DEF a
  <2>4. ASSUME NEW x PROVE x \in Promised' <=> x \in Promised \cup {b}
    <3>1. CASE x = b
      BY <2>2, <2>3, <3>1 DEF Promised
    <3>2. CASE x # b
      BY <2>2, <2>3, <3>2 DEF Promised
    <3> QED BY <3>1, <3>2
  <2>5. Promised' = Promised \cup {b}
    BY <2>4
  <2> QED BY <1>1, <2>5 DEF b
<1>2. CASE ~(req[c].op = "publish" /\ r = "TRUE")
  BY <1>2 DEF Return, Promised
<1> QED BY <1>1, <1>2

\* REPLACE makes a device known, or shows zeros for it again.
LEMMA InsertTotalRegisters ==
  ASSUME IInv, NEW c \in Client, ExecInsertTotal(c)
  PROVE  Store!Next
<1> DEFINE d == req[c].dev
           row == [tick |-> Signed(req[c].tick), data |-> Zero]
<1>1. req[c].op = "online" /\ d \in Dev /\ req[c].tick \in Tick
  BY Fields DEF IInv, TypeOK, RequestInv, Fits, OnlinePC, ExecInsertTotal
<1>2. row # NoRow /\ row.data = Zero
  BY <1>1, SignedInt, NoRowAssumption DEF Sample
<1>3. total' = [total EXCEPT ![d] = row]
  BY DEF ExecInsertTotal
<1> HIDE DEF d, row
<1>4. Shown' = [Shown EXCEPT ![d] = Zero]
  BY <1>1, <1>2, <1>3 DEF Shown, IInv, TypeOK
<1>5. Reports' = Reports /\ Promised' = Promised
  BY <1>1, ReturnPromises DEF ExecInsertTotal, Reports
<1> QED BY <1>1, <1>4, <1>5 DEF Store!Next, Store!Register

\* INSERT stores a report for its own device.
LEMMA InsertChildStores ==
  ASSUME IInv, NamesDiffer, NEW c \in Client, ExecInsertChild(c)
  PROVE  Store!Next
<1> DEFINE d == req[c].dev
           k == Signed(req[c].tick)
           v == req[c].data
<1>1. d \in Dev /\ req[c].tick \in Tick /\ v \in Readings[d]
  BY Fields DEF IInv, TypeOK, RequestInv, Fits, PublishPC, ExecInsertChild
<1>2. Name[d] \in Table /\ k \in Key
  BY <1>1, DevTable, TickKey
<1>3. child' = [child EXCEPT ![Name[d]][k] = v] /\ UNCHANGED <<total, ackedPublish>>
  BY DEF ExecInsertChild, Continue, histVars
<1> HIDE DEF d, k, v
<1>4. Reports' = [Reports EXCEPT ![d][k] = v]
  BY <1>1, <1>2, <1>3, DevTable DEF Reports, NamesDiffer, IInv, TypeOK
<1>5. Shown' = Shown /\ Promised' = Promised
  BY <1>3 DEF Shown, Promised
<1> QED BY <1>1, <1>2, <1>4, <1>5 DEF Store!Next, Store!Store

\* The UPDATE that ends a publish shows the report, if there is a row, and promises it.
LEMMA UpdateDataFinishes ==
  ASSUME IInv, NEW c \in Client, ExecUpdateData(c)
  PROVE  Store!Next
<1> DEFINE d == req[c].dev
           k == Signed(req[c].tick)
           v == req[c].data
<1>1. /\ req[c].op = "publish" /\ d \in Dev /\ req[c].tick \in Tick /\ v \in Readings[d]
      /\ IsStored(d, req[c].tick)
  BY Fields DEF IInv, TypeOK, RequestInv, Fits, PublishPC, StoredInv, ExecUpdateData
<1>2. v \in Sample /\ k \in Key
  BY <1>1, ReadingRow, TickKey
<1>3. Update(d, "data", v) /\ UNCHANGED child
  BY DEF ExecUpdateData
<1>4. Promised' = Promised \cup {<<d, k>>}
  BY <1>1, ReturnPromises DEF ExecUpdateData
<1>5. Reports' = Reports /\ Reports[d][k] # NoRow
  BY <1>1, <1>3 DEF Reports, IsStored
<1>6. Shown' = [Shown EXCEPT ![d] = IF @ = NoRow THEN NoRow ELSE v]
  <2>1. /\ \A e \in Dev : total'[e] = NoRow <=> total[e] = NoRow
        /\ \A e \in Dev \ {d} : total'[e] = total[e]
        /\ total[d] # NoRow => total'[d].data = v
    BY <1>1, <1>2, <1>3, UpdateRow DEF IInv
  <2> HIDE DEF d, v
  <2>2. total[d] # NoRow => Shown[d] # NoRow
    BY <1>1, DeviceStoreAssumption DEF Shown, IInv, TypeOK, Sample
  <2>3. \A e \in Dev \ {d} : Shown'[e] = Shown[e]
    BY <2>1 DEF Shown
  <2>4. Shown'[d] = IF Shown[d] = NoRow THEN NoRow ELSE v
    BY <1>1, <2>1, <2>2 DEF Shown
  <2>5. Shown' = [e \in Dev |-> Shown'[e]] /\ Shown = [e \in Dev |-> Shown[e]]
    BY DEF Shown
  <2> QED BY <1>1, <2>3, <2>4, <2>5
<1> HIDE DEF d, k, v
<1> QED BY <1>1, <1>2, <1>4, <1>5, <1>6 DEF Store!Next, Store!Finish

\* An UPDATE that fails shows nothing, and the report is promised all the same.
LEMMA FailedUpdateAcknowledges ==
  ASSUME IInv, NEW c \in Client, pc[c] = "updateData", Return(c, "TRUE"), UNCHANGED fileVars
  PROVE  Store!Next
<1> DEFINE d == req[c].dev
           k == Signed(req[c].tick)
<1>1. /\ req[c].op = "publish" /\ d \in Dev /\ req[c].tick \in Tick
      /\ IsStored(d, req[c].tick)
  BY Fields DEF IInv, TypeOK, RequestInv, Fits, PublishPC, StoredInv
<1>2. k \in Key
  BY <1>1, TickKey
<1>3. Promised' = Promised \cup {<<d, k>>}
  BY <1>1, ReturnPromises
<1>4. Reports' = Reports /\ Shown' = Shown /\ Reports[d][k] # NoRow
  BY <1>1 DEF Reports, Shown, IsStored, fileVars
<1> HIDE DEF d, k
<1> QED BY <1>1, <1>2, <1>3, <1>4 DEF Store!Next, Store!Acknowledge

\* A handler that returns anything else, and leaves the samples alone, changes nothing.
LEMMA ReturnStutters ==
  ASSUME NEW c \in Client, NEW r, Return(c, r), req[c].op # "publish" \/ r = "FALSE",
         UNCHANGED fileVars
  PROVE  UNCHANGED Store!storeVars
<1>1. UNCHANGED ackedPublish
  BY DEF Return
<1> QED BY <1>1, StoreStutters DEF fileVars

\* A new online tick is no concern of the store.
LEMMA UpdateTickStutters ==
  ASSUME IInv, NEW c \in Client, ExecUpdateTick(c)
  PROVE  UNCHANGED Store!storeVars
<1> DEFINE d == req[c].dev
<1>1. req[c].op = "online" /\ d \in Dev /\ req[c].tick \in Int
  BY Fields, TickInt DEF IInv, TypeOK, RequestInv, Fits, OnlinePC, ExecUpdateTick
<1>2. Update(d, "tick", req[c].tick) /\ UNCHANGED <<child, ackedPublish>>
  BY <1>1 DEF ExecUpdateTick, Return
<1>3. \A e \in Dev : /\ total'[e] = NoRow <=> total[e] = NoRow
                     /\ total[e] # NoRow => total'[e].data = total[e].data
  BY <1>1, <1>2, UpdateRow DEF IInv
<1>4. Shown' = Shown
  BY <1>3 DEF Shown
<1> QED BY <1>2, <1>4 DEF Reports, Promised, Store!storeVars

\* Every step of the sessions is one of the store, or none.
LEMMA NextStore ==
  ASSUME NamesDiffer, IInv, [Next]_vars
  PROVE  [Store!Next]_Store!storeVars
<1>1. ASSUME NEW c \in Client, ExecOk(c) PROVE [Store!Next]_Store!storeVars
  <2>1. CASE ExecInit(c) \/ ExecCreate(c)
    BY <2>1, StoreStutters DEF ExecInit, ExecCreate, Continue, histVars
  <2>2. CASE ExecFindTotal(c)
    <3>1. req[c].op # "publish" /\ UNCHANGED fileVars
      BY <2>2 DEF ExecFindTotal, IInv, RequestInv, Fits
    <3>2. Continue \/ \E r : Return(c, r)
      <4>1. req[c].op \in {"online", "phone", "query"}
        BY <2>2 DEF ExecFindTotal, IInv, RequestInv, Fits
      <4> QED BY <2>2, <4>1, Zenon DEF ExecFindTotal
    <3> QED BY <3>1, <3>2, ReturnStutters, StoreStutters DEF Continue, histVars, fileVars
  <2>3. CASE ExecInsertTotal(c)
    BY <2>3, InsertTotalRegisters
  <2>4. CASE ExecUpdateTick(c)
    BY <2>4, UpdateTickStutters
  <2>5. CASE ExecInsertChild(c)
    BY <2>5, InsertChildStores
  <2>6. CASE ExecUpdateData(c)
    BY <2>6, UpdateDataFinishes
  <2>7. CASE ExecFindChild(c)
    <3>1. req[c].op # "publish" /\ UNCHANGED fileVars
      BY <2>7 DEF ExecFindChild, IInv, RequestInv, Fits
    <3>2. \E r : Return(c, r)
      BY <2>7, Zenon DEF ExecFindChild
    <3> QED BY <3>1, <3>2, ReturnStutters
  <2> QED BY <1>1, <2>1, <2>2, <2>3, <2>4, <2>5, <2>6, <2>7 DEF ExecOk
<1>2. ASSUME NEW c \in Client, ExecFails(c) PROVE [Store!Next]_Store!storeVars
  <2>1. pc[c] \in ExecPC /\ Failed(c) /\ UNCHANGED fileVars
    BY <1>2 DEF ExecFails
  <2>2. CASE Continue
    BY <2>1, <2>2, StoreStutters DEF Continue, histVars, fileVars
  <2>3. CASE ProcessLost("faulted")
    BY <2>3, StoreStutters DEF ProcessLost, histVars, fileVars
  <2>4. CASE pc[c] = "updateData" /\ Return(c, "TRUE")
    BY <2>1, <2>4, FailedUpdateAcknowledges
  <2>5. CASE Return(c, "FALSE")
    BY <2>1, <2>5, ReturnStutters
  <2> QED BY <2>1, <2>2, <2>3, <2>4, <2>5, FailedCases
<1>3. ASSUME NEW c \in Client, PrintFirst(c) \/ PrintSecond(c) \/ ExecBusy(c)
      PROVE  [Store!Next]_Store!storeVars
  BY <1>3, StoreStutters DEF PrintFirst, PrintSecond, WriteHalf, ExecBusy, Continue, histVars, fileVars
<1>4. ASSUME NEW c \in Client, Serves(c) PROVE [Store!Next]_Store!storeVars
  BY <1>4, StoreStutters DEF Serves, Connect, Disconnect, Receive, Continue, histVars, fileVars
<1>5. CASE Killed \/ Restart
  BY <1>5, StoreStutters DEF Killed, Restart, ProcessLost, histVars, fileVars
<1>6. CASE UNCHANGED vars
  BY <1>6, StoreStutters DEF vars
<1> QED BY <1>1, <1>2, <1>3, <1>4, <1>5, <1>6 DEF Next, Works

\* The sessions and their SQL statements implement the store of reports, whatever fails or
\* is killed, as long as SQLite tells the names of their tables apart (database.c: a child
\* table named after each device).
THEOREM Refinement ==
  ASSUME NamesDiffer
  PROVE  Spec => ImplementsStore
<1>1. Init => Store!Init
  BY InitStore
<1>2. IInv /\ [Next]_vars => [Store!Next]_Store!storeVars
  BY NextStore
<1> QED BY <1>1, <1>2, Invariance, PTL DEF Spec, ImplementsStore, Store!Spec

-----------------------------------------------------------------------------
(* Rows and tables of the devices that are online *)

\* thread o is where it was, with the same request
Stays(o) == pc'[o] = pc[o] /\ req'[o] = req[o]

\* places of an online message that has its table
HasTable(p, r) == p \in {"insertTotal", "updateTick"} \/ (p = "findTotal" /\ r.op = "online")

\* what a step of thread c does to the rows and the tables, and whose it acknowledges
FileStep(c) ==
  /\ \A d \in Dev : total[d] # NoRow => total'[d] # NoRow
  /\ tables \subseteq tables'
  /\ \/ ackedOnline' = ackedOnline
     \/ /\ pc[c] \in {"insertTotal", "updateTick"}
        /\ ackedOnline' = ackedOnline \cup {req[c].dev}
        /\ pc[c] = "insertTotal" => total'[req[c].dev] # NoRow

\* where thread c goes, and what it has found or done there
PlaceStep(c) ==
  /\ \A o \in Client \ {c} : Stays(o)
  /\ pc'[c] = "updateTick" =>
       req'[c] = req[c] /\ (pc[c] = "updateTick" \/ total[req[c].dev] # NoRow)
  /\ HasTable(pc'[c], req'[c]) =>
       /\ req'[c] = req[c]
       /\ \/ HasTable(pc[c], req[c])
          \/ pc[c] = "create" /\ NamedTable \in tables'

\* how thread c fills the shared buffer
BufferStep(c) ==
  \/ cmd_exec' = cmd_exec /\ (pc'[c] \in {"print2", "create"} => Stays(c))
  \/ /\ pc[c] = "print1" /\ pc'[c] = "print2" /\ req'[c] = req[c]
     /\ cmd_exec'[1] = req[c].dev /\ cmd_exec'[2] = cmd_exec[2]
  \/ /\ pc[c] = "print2" /\ pc'[c] = "create" /\ req'[c] = req[c]
     /\ cmd_exec'[1] = cmd_exec[1] /\ cmd_exec'[2] = req[c].dev

ThreadStep(c) == FileStep(c) /\ PlaceStep(c) /\ BufferStep(c)

\* A thread goes to its next statement, or is idle again, without an acknowledgement.
LEMMA PlainStep ==
  ASSUME TypeOK, NEW c \in Client, NEW p, pc' = [pc EXCEPT ![c] = p],
         UNCHANGED <<total, tables, ackedOnline, cmd_exec, req>>,
         p \notin {"print2", "create", "insertTotal", "updateTick"} \/ p = pc[c],
         p = "findTotal" => p = pc[c] \/ req[c].op # "online"
  PROVE  ThreadStep(c)
<1>1. pc'[c] = p /\ \A o \in Client \ {c} : Stays(o)
  BY DEF TypeOK, Stays
<1>2. p = pc[c] => Stays(c)
  BY <1>1 DEF Stays
<1>3. FileStep(c)
  BY DEF FileStep
<1>4. PlaceStep(c)
  BY <1>1 DEF PlaceStep, HasTable
<1>5. BufferStep(c)
  BY <1>1, <1>2 DEF BufferStep
<1> QED BY <1>3, <1>4, <1>5 DEF ThreadStep

\* A handler returns; only the last statement of an online message acknowledges it.
LEMMA ReturnStep ==
  ASSUME TypeOK, NEW c \in Client, NEW r, Return(c, r),
         \A d \in Dev : total[d] # NoRow => total'[d] # NoRow, tables \subseteq tables',
         req[c].op # "online" \/ r = "FALSE" \/ pc[c] \in {"insertTotal", "updateTick"},
         pc[c] = "insertTotal" => total'[req[c].dev] # NoRow
  PROVE  ThreadStep(c)
<1>1. pc'[c] = "idle" /\ cmd_exec' = cmd_exec /\ \A o \in Client \ {c} : Stays(o)
  BY DEF TypeOK, Return, Stays
<1>2. \/ ackedOnline' = ackedOnline
      \/ /\ req[c].op = "online" /\ r = "TRUE"
         /\ ackedOnline' = ackedOnline \cup {req[c].dev}
  BY DEF Return
<1>3. FileStep(c)
  BY <1>2 DEF FileStep
<1>4. PlaceStep(c)
  BY <1>1 DEF PlaceStep, HasTable
<1>5. BufferStep(c)
  BY <1>1 DEF BufferStep
<1> QED BY <1>3, <1>4, <1>5 DEF ThreadStep

\* A thread goes from one statement to the next.
LEMMA NextStatement ==
  ASSUME TypeOK, NEW c \in Client, NEW p \in {"findTotal", "insertTotal", "updateTick"},
         Goto(c, p), Continue, UNCHANGED total, tables \subseteq tables',
         p = "updateTick" => total[req[c].dev] # NoRow,
         HasTable(pc[c], req[c]) \/ (pc[c] = "create" /\ NamedTable \in tables')
  PROVE  ThreadStep(c)
<1>1. pc'[c] = p /\ req' = req /\ cmd_exec' = cmd_exec /\ \A o \in Client \ {c} : Stays(o)
  BY DEF TypeOK, Goto, Continue, Stays
<1>2. FileStep(c)
  BY DEF FileStep, Continue, histVars
<1>3. PlaceStep(c)
  BY <1>1 DEF PlaceStep
<1>4. BufferStep(c)
  BY <1>1 DEF BufferStep
<1> QED BY <1>2, <1>3, <1>4 DEF ThreadStep

\* Half an identifier is written into the buffer.
LEMMA WriteHalfStep ==
  ASSUME TypeOK, NEW c \in Client,
         \/ WriteHalf(c, "print1", 1, "print2")
         \/ WriteHalf(c, "print2", 2, "create")
  PROVE  ThreadStep(c)
<1>1. /\ UNCHANGED <<total, tables, ackedOnline, req>> /\ pc'[c] \in {"print2", "create"}
      /\ \A o \in Client \ {c} : Stays(o)
  BY DEF TypeOK, WriteHalf, Goto, fileVars, histVars, Stays
<1>2. FileStep(c)
  BY <1>1 DEF FileStep
<1>3. PlaceStep(c)
  BY <1>1 DEF PlaceStep, HasTable
<1>4. BufferStep(c)
  BY <1>1 DEF BufferStep, TypeOK, WriteHalf, Goto
<1> QED BY <1>2, <1>3, <1>4 DEF ThreadStep

\* Every step of a thread, unless it loses the process.
LEMMA WorksStep ==
  ASSUME IInv, NEW c \in Client, Works(c)
  PROVE  ThreadStep(c) \/ ProcessLost("faulted")
<1>1. TypeOK /\ RequestInv
  BY DEF IInv
<1>2. CASE PrintFirst(c) \/ PrintSecond(c)
  BY <1>1, <1>2, WriteHalfStep DEF PrintFirst, PrintSecond
<1>3. CASE ExecInit(c)
  BY <1>1, <1>3, PlainStep DEF ExecInit, Continue, histVars
<1>4. CASE ExecCreate(c)
  BY <1>1, <1>4, NextStatement DEF ExecCreate
<1>5. CASE ExecFindTotal(c)
  <2>1. /\ pc[c] = "findTotal" /\ req[c].op \in {"online", "phone", "query"}
        /\ UNCHANGED fileVars
    BY <1>1, <1>5 DEF ExecFindTotal, RequestInv, Fits
  <2>2. \/ /\ req[c].op = "online" /\ Continue
           /\ IF total[req[c].dev] # NoRow THEN Goto(c, "updateTick") ELSE Goto(c, "insertTotal")
        \/ req[c].op = "query" /\ Goto(c, "findChild") /\ Continue
        \/ req[c].op # "online" /\ \E r : Return(c, r)
    BY <1>5, <2>1, Zenon DEF ExecFindTotal
  <2>3. CASE /\ req[c].op = "online" /\ Continue
             /\ IF total[req[c].dev] # NoRow THEN Goto(c, "updateTick") ELSE Goto(c, "insertTotal")
    <3>1. HasTable(pc[c], req[c])
      BY <2>1, <2>3 DEF HasTable
    <3> QED BY <1>1, <2>1, <2>3, <3>1, NextStatement DEF fileVars
  <2>4. CASE req[c].op = "query" /\ Goto(c, "findChild") /\ Continue
    BY <1>1, <2>1, <2>4, PlainStep DEF Goto, Continue, fileVars, histVars
  <2>5. CASE req[c].op # "online" /\ \E r : Return(c, r)
    BY <1>1, <2>1, <2>5, ReturnStep DEF fileVars
  <2> QED BY <2>2, <2>3, <2>4, <2>5
<1>6. CASE ExecInsertTotal(c)
  <2>1. req[c].dev \in Dev /\ req[c].tick \in Tick
    BY <1>1, <1>6, Fields DEF TypeOK, RequestInv, Fits, OnlinePC, ExecInsertTotal
  <2>2. \A d \in Dev : total[d] # NoRow \/ d = req[c].dev => total'[d] # NoRow
    <3> DEFINE row == [tick |-> Signed(req[c].tick), data |-> Zero]
    <3>1. row # NoRow
      BY <2>1, SignedInt, NoRowAssumption DEF Sample
    <3>2. total' = [total EXCEPT ![req[c].dev] = row]
      BY <1>6 DEF ExecInsertTotal
    <3> HIDE DEF row
    <3> QED BY <1>1, <2>1, <3>1, <3>2 DEF TypeOK
  <2> QED BY <1>1, <1>6, <2>1, <2>2, ReturnStep DEF ExecInsertTotal
<1>7. CASE ExecUpdateTick(c)
  <2>1. req[c].dev \in Dev /\ req[c].tick \in Int
    BY <1>1, <1>7, Fields, TickInt DEF TypeOK, RequestInv, Fits, OnlinePC, ExecUpdateTick
  <2>2. \A d \in Dev : total[d] # NoRow => total'[d] # NoRow
    BY <1>1, <1>7, <2>1, UpdateRow DEF ExecUpdateTick
  <2> QED BY <1>1, <1>7, <2>2, ReturnStep DEF ExecUpdateTick
<1>8. CASE ExecInsertChild(c)
  BY <1>1, <1>8, PlainStep DEF ExecInsertChild, Goto, Continue, histVars
<1>9. CASE ExecUpdateData(c)
  <2>1. req[c].op = "publish" /\ req[c].dev \in Dev /\ req[c].data \in Sample
    BY <1>1, <1>9, Fields DEF TypeOK, RequestInv, Fits, PublishPC, ExecUpdateData
  <2>2. \A d \in Dev : total[d] # NoRow => total'[d] # NoRow
    BY <1>1, <1>9, <2>1, UpdateRow DEF ExecUpdateData
  <2> QED BY <1>1, <1>9, <2>1, <2>2, ReturnStep DEF ExecUpdateData
<1>10. CASE ExecFindChild(c)
  <2>1. req[c].op = "query" /\ pc[c] = "findChild" /\ UNCHANGED fileVars
    BY <1>1, <1>10 DEF ExecFindChild, RequestInv, Fits
  <2>2. PICK r : Return(c, r)
    BY <1>10, Zenon DEF ExecFindChild
  <2> QED BY <1>1, <2>1, <2>2, ReturnStep DEF fileVars
<1>11. CASE ExecBusy(c)
  <2>1. pc' = [pc EXCEPT ![c] = pc[c]]
    BY <1>1, <1>11 DEF ExecBusy, TypeOK
  <2> QED BY <1>1, <1>11, <2>1, PlainStep DEF ExecBusy, Continue, fileVars, histVars
<1>12. CASE ExecFails(c)
  <2>1. pc[c] \in ExecPC /\ Failed(c) /\ UNCHANGED fileVars
    BY <1>12 DEF ExecFails
  <2>2. CASE pc[c] = "init" /\ pc' = [pc EXCEPT ![c] = "idle"] /\ Continue
    BY <1>1, <2>1, <2>2, PlainStep DEF Continue, fileVars, histVars
  <2>3. CASE pc[c] = "updateData" /\ Return(c, "TRUE")
    <3>1. req[c].op = "publish"
      BY <1>1, <2>3 DEF RequestInv, Fits, PublishPC
    <3> QED BY <1>1, <2>1, <2>3, <3>1, ReturnStep DEF fileVars
  <2>4. CASE Return(c, "FALSE")
    <3>1. /\ cmd_exec' = cmd_exec /\ ackedOnline' = ackedOnline /\ pc'[c] = "idle"
          /\ \A o \in Client \ {c} : Stays(o)
      BY <1>1, <2>4 DEF Return, TypeOK, Stays
    <3> QED BY <2>1, <3>1 DEF ThreadStep, FileStep, PlaceStep, BufferStep, HasTable, fileVars
  <2> QED BY <2>1, <2>2, <2>3, <2>4, FailedCases
<1> QED BY <1>2, <1>3, <1>4, <1>5, <1>6, <1>7, <1>8, <1>9, <1>10, <1>11, <1>12 DEF Works, ExecOk

\* So is every step of its client.
LEMMA ServesStep ==
  ASSUME IInv, NEW c \in Client, Serves(c)
  PROVE  ThreadStep(c)
<1>1. TypeOK
  BY DEF IInv
<1>2. CASE Connect(c)
  BY <1>1, <1>2, PlainStep DEF Connect, Goto, Continue, fileVars, histVars
<1>3. CASE Disconnect(c)
  BY <1>1, <1>3, PlainStep DEF Disconnect, fileVars, histVars
<1>4. ASSUME NEW r \in Requests, Receive(c, r) PROVE ThreadStep(c)
  <2>1. PICK p \in {"print1", "insertChild", "findTotal"} :
          Goto(c, p) /\ (p = "findTotal" => r.op # "online")
    <3>1. r.op \in {"online", "publish", "phone", "query"}
      BY RequestsFit
    <3> QED BY <1>4, <3>1 DEF Receive
  <2>2. /\ pc'[c] = p /\ req'[c] = r /\ \A o \in Client \ {c} : Stays(o)
        /\ UNCHANGED <<total, tables, ackedOnline, cmd_exec>>
    BY <1>1, <1>4, <2>1 DEF TypeOK, Receive, Goto, Stays, fileVars, histVars
  <2> QED BY <2>1, <2>2 DEF ThreadStep, FileStep, PlaceStep, BufferStep, HasTable
<1> QED BY <1>2, <1>3, <1>4 DEF Serves

\* The steps of the system, from the rows', the tables' and the buffer's point of view.
LEMMA Steps ==
  ASSUME IInv, [Next]_vars
  PROVE  \/ \E c \in Client : ThreadStep(c)
         \/ \E how : ProcessLost(how)
         \/ UNCHANGED <<total, tables, ackedOnline, cmd_exec, pc, req>>
<1>1. CASE Restart \/ UNCHANGED vars
  BY <1>1 DEF Restart, vars, fileVars, histVars
<1>2. CASE Killed
  BY <1>2 DEF Killed
<1> QED BY <1>1, <1>2, WorksStep, ServesStep DEF Next

\* A device has a row once its online message is acknowledged, and before it is updated.
RowInv ==
  /\ \A d \in ackedOnline : total[d] # NoRow
  /\ \A c \in Client : pc[c] = "updateTick" => total[req[c].dev] # NoRow

\* thread c has begun to write its CREATE TABLE into cmd_exec and not executed it yet
Composing(c) == pc[c] \in {"print2", "create"}

\* the devices of D that have no table yet
New(D) == {d \in D : Name[d] \notin tables}

\* While a thread composes CREATE TABLE for a device of D that has no table yet, no thread
\* does for another device.  Nothing in database.c sees to that; it says which
\* interleavings do harm.
Undisturbed(D) ==
  \A c, o \in Client :
    Composing(c) /\ Composing(o) /\ req[c].dev \in New(D) => req[o].dev = req[c].dev

\* A device of D has its table once CREATE TABLE has been executed for it.
TableInv(D) ==
  /\ \A d \in ackedOnline \cap D : Name[d] \in tables
  /\ \A c \in Client :
       HasTable(pc[c], req[c]) /\ req[c].dev \in D => Name[req[c].dev] \in tables

\* What is executed from the shared buffer is what the thread wrote there.
WholeInv(D) ==
  \A c \in Client : req[c].dev \in New(D) =>
    /\ Composing(c) => cmd_exec[1] = req[c].dev
    /\ pc[c] = "create" => cmd_exec[2] = req[c].dev

\* The devices of D that are acknowledged can report.
ReadyOf(D) == \A d \in ackedOnline \cap D : total[d] # NoRow /\ Name[d] \in tables

\* The devices of the requests that the invariants are about.
LEMMA OnlineDevice ==
  ASSUME IInv, NEW c \in Client,
         HasTable(pc[c], req[c]) \/ pc[c] \in {"print1", "print2", "create"}
  PROVE  req[c].dev \in Dev
BY Fields DEF IInv, TypeOK, RequestInv, Fits, OnlinePC, HasTable

\* Nothing is acknowledged and nobody executes a statement.
LEMMA InitRow == Init => RowInv /\ \A D : TableInv(D) /\ WholeInv(D)
BY DEF Init, RowInv, TableInv, WholeInv, HasTable, Composing, New

\* Rows are never removed, so what a thread has found stays true.
LEMMA NextRow ==
  ASSUME IInv, RowInv, [Next]_vars
  PROVE  RowInv'
<1>1. ASSUME NEW c \in Client, ThreadStep(c) PROVE RowInv'
  <2>1. ASSUME NEW d \in ackedOnline' PROVE total'[d] # NoRow
    <3>1. d \in ackedOnline => total'[d] # NoRow
      BY <1>1 DEF ThreadStep, FileStep, RowInv, IInv, TypeOK
    <3>2. CASE d \notin ackedOnline
      <4>1. d = req[c].dev /\ pc[c] \in {"insertTotal", "updateTick"}
        BY <1>1, <3>2 DEF ThreadStep, FileStep
      <4>2. d \in Dev
        BY <4>1, OnlineDevice DEF HasTable
      <4>3. pc[c] = "updateTick" => total[d] # NoRow
        BY <4>1 DEF RowInv
      <4> QED BY <1>1, <3>2, <4>1, <4>2, <4>3 DEF ThreadStep, FileStep
    <3> QED BY <3>1, <3>2
  <2>2. ASSUME NEW o \in Client, pc'[o] = "updateTick" PROVE total'[req'[o].dev] # NoRow
    <3>1. req'[o] = req[o] /\ total[req[o].dev] # NoRow
      BY <1>1, <2>2 DEF ThreadStep, PlaceStep, Stays, RowInv
    <3>2. req[o].dev \in Dev
      <4>1. HasTable(pc'[o], req'[o])
        BY <2>2 DEF HasTable
      <4>2. HasTable(pc[o], req[o]) \/ pc[o] = "create"
        BY <1>1, <4>1 DEF ThreadStep, PlaceStep, Stays
      <4> QED BY <4>2, OnlineDevice
    <3> QED BY <1>1, <3>1, <3>2 DEF ThreadStep, FileStep
  <2> QED BY <2>1, <2>2 DEF RowInv
<1>2. ASSUME NEW how, ProcessLost(how) PROVE RowInv'
  BY <1>2 DEF ProcessLost, fileVars, histVars, RowInv
<1>3. CASE UNCHANGED <<total, tables, ackedOnline, cmd_exec, pc, req>>
  BY <1>3 DEF RowInv
<1> QED BY <1>1, <1>2, <1>3, Steps

\* A thread that is not disturbed executes what it wrote.
LEMMA NextWhole ==
  ASSUME NEW D, IInv, Undisturbed(D)', WholeInv(D), [Next]_vars
  PROVE  WholeInv(D)'
<1>1. ASSUME NEW c \in Client, ThreadStep(c) PROVE WholeInv(D)'
  <2> SUFFICES ASSUME NEW o \in Client, req'[o].dev \in New(D)', Composing(o)'
               PROVE  /\ cmd_exec'[1] = req'[o].dev
                      /\ pc'[o] = "create" => cmd_exec'[2] = req'[o].dev
    BY DEF WholeInv, Composing
  <2>0. req'[o].dev \in New(D)
    BY <1>1 DEF ThreadStep, FileStep, New
  <2>1. o # c => Stays(o)
    BY <1>1 DEF ThreadStep, PlaceStep
  <2>2. Stays(o) => /\ cmd_exec[1] = req'[o].dev
                    /\ pc'[o] = "create" => cmd_exec[2] = req'[o].dev
    BY <2>0 DEF Stays, WholeInv, Composing
  <2>3. Composing(c)' => req'[c].dev = req'[o].dev
    BY DEF Undisturbed
  <2>4. CASE cmd_exec' = cmd_exec /\ (Composing(c)' => Stays(c))
    BY <2>1, <2>2, <2>4
  <2>5. CASE /\ pc'[c] = "print2" /\ req'[c] = req[c]
             /\ cmd_exec'[1] = req[c].dev /\ cmd_exec'[2] = cmd_exec[2]
    <3>1. cmd_exec'[1] = req'[o].dev
      BY <2>3, <2>5 DEF Composing
    <3>2. pc'[o] = "create" => cmd_exec'[2] = req'[o].dev
      BY <2>1, <2>2, <2>5
    <3> QED BY <3>1, <3>2
  <2>6. CASE /\ pc[c] = "print2" /\ pc'[c] = "create" /\ req'[c] = req[c]
             /\ cmd_exec'[1] = cmd_exec[1] /\ cmd_exec'[2] = req[c].dev
    <3>1. cmd_exec'[2] = req'[o].dev
      BY <2>3, <2>6 DEF Composing
    <3>2. CASE o = c
      BY <2>0, <2>6, <3>1, <3>2 DEF WholeInv, Composing
    <3>3. CASE o # c
      BY <2>1, <2>2, <2>6, <3>1, <3>3
    <3> QED BY <3>2, <3>3
  <2> QED BY <1>1, <2>4, <2>5, <2>6 DEF ThreadStep, BufferStep, Composing
<1>2. ASSUME NEW how, ProcessLost(how) PROVE WholeInv(D)'
  BY <1>2 DEF ProcessLost, WholeInv, Composing
<1>3. CASE UNCHANGED <<total, tables, ackedOnline, cmd_exec, pc, req>>
  BY <1>3 DEF WholeInv, Composing, New
<1> QED BY <1>1, <1>2, <1>3, Steps

\* Tables are never dropped, so what a thread has created stays.
LEMMA NextTable ==
  ASSUME NEW D, IInv, WholeInv(D), TableInv(D), [Next]_vars
  PROVE  TableInv(D)'
<1>1. ASSUME NEW c \in Client, ThreadStep(c) PROVE TableInv(D)'
  <2>1. tables \subseteq tables'
    BY <1>1 DEF ThreadStep, FileStep
  <2>2. ASSUME NEW d \in ackedOnline' \cap D PROVE Name[d] \in tables
    <3>1. d \in ackedOnline \/ (d = req[c].dev /\ HasTable(pc[c], req[c]))
      BY <1>1 DEF ThreadStep, FileStep, HasTable
    <3> QED BY <3>1 DEF TableInv
  <2>3. ASSUME NEW o \in Client, HasTable(pc'[o], req'[o]), req'[o].dev \in D
        PROVE  Name[req'[o].dev] \in tables'
    <3>1. /\ req'[o] = req[o]
          /\ HasTable(pc[o], req[o]) \/ (pc[o] = "create" /\ NamedTable \in tables')
      BY <1>1, <2>3 DEF ThreadStep, PlaceStep, Stays
    <3>2. CASE HasTable(pc[o], req[o])
      BY <2>1, <2>3, <3>1, <3>2 DEF TableInv
    <3>3. CASE pc[o] = "create" /\ NamedTable \in tables'
      <4>1. CASE req[o].dev \in New(D)
        <5>1. NamedTable = Name[req[o].dev]
          BY <3>3, <4>1 DEF WholeInv, Composing, NamedTable
        <5> QED BY <3>1, <3>3, <5>1
      <4>2. CASE req[o].dev \notin New(D)
        BY <2>1, <2>3, <3>1, <4>2 DEF New
      <4> QED BY <4>1, <4>2
    <3> QED BY <3>1, <3>2, <3>3
  <2> QED BY <2>1, <2>2, <2>3 DEF TableInv
<1>2. ASSUME NEW how, ProcessLost(how) PROVE TableInv(D)'
  BY <1>2 DEF ProcessLost, fileVars, histVars, TableInv, HasTable
<1>3. CASE UNCHANGED <<total, tables, ackedOnline, cmd_exec, pc, req>>
  BY <1>3 DEF TableInv
<1> QED BY <1>1, <1>2, <1>3, Steps

OnlineInv(D) == IInv /\ RowInv /\ WholeInv(D) /\ TableInv(D)

\* What undisturbed devices rest on is kept by every step.
LEMMA OnlineKept ==
  ASSUME NEW D
  PROVE  /\ Init => OnlineInv(D)
         /\ OnlineInv(D) /\ Undisturbed(D)' /\ [Next]_vars => OnlineInv(D)'
         /\ OnlineInv(D) => ReadyOf(D)
<1>1. Init => OnlineInv(D)
  BY InitIInv, InitRow DEF OnlineInv
<1>2. OnlineInv(D) /\ Undisturbed(D)' /\ [Next]_vars => OnlineInv(D)'
  BY NextIInv, NextRow, NextWhole, NextTable DEF OnlineInv
<1>3. OnlineInv(D) => ReadyOf(D)
  BY DEF OnlineInv, RowInv, TableInv, ReadyOf
<1> QED BY <1>1, <1>2, <1>3

\* Any devices D can report once their online messages are acknowledged if nobody disturbs
\* the CREATE TABLE that gives each of them its table, with any number of sessions and of
\* other devices at work around them, those with torn tables included, and in any
\* interleaving once they have their tables (api_dev_online in database.c).
THEOREM ReadyUndisturbed ==
  ASSUME NEW D
  PROVE  Spec /\ []Undisturbed(D) => []ReadyOf(D)
BY OnlineKept, PTL DEF Spec

\* Whatever the sessions, the devices, the kills and the retries, nothing but two CREATE
\* TABLE composed at a time for different devices, one of them without a table, keeps an
\* acknowledged device from reporting (api_dev_online; cmd_exec in database.c).
THEOREM OnlineReady == Spec /\ []Undisturbed(Dev) => []AckedOnlineReady
<1>1. Init => OnlineInv(Dev)
  BY OnlineKept
<1>2. OnlineInv(Dev) /\ Undisturbed(Dev)' /\ [Next]_vars => OnlineInv(Dev)'
  BY OnlineKept
<1>3. OnlineInv(Dev) => AckedOnlineReady
  BY OnlineKept DEF OnlineInv, IInv, TypeOK, ReadyOf, AckedOnlineReady
<1> QED BY <1>1, <1>2, <1>3, PTL DEF Spec

\* A handler that refuses a phone or a query has found no device or no report, as a failed
\* statement ends the process.
LEMMA Refusals ==
  ASSUME ENABLE_DBG, IInv, NEW c \in Client, [Next]_vars,
         res[c] = "none", res'[c] = "FALSE", req[c].op \in {"phone", "query"}
  PROVE  \/ total[req[c].dev] = NoRow
         \/ req[c].op = "query" /\ Found(req[c].dev, req[c].startTick, req[c].endTick) = {}
<1>1. TypeOK /\ RequestInv
  BY DEF IInv
<1>2. ASSUME NEW how, ProcessLost(how) PROVE FALSE
  BY <1>2 DEF ProcessLost
<1>3. PICK o \in Client : Works(o) \/ Serves(o)
  BY <1>2 DEF Next, Killed, Restart, vars
<1>4. PICK r : r = "FALSE" /\ o = c /\ Return(o, r) /\ (ExecOk(c) \/ ExecFails(c))
  <2>1. ASSUME res' = res PROVE FALSE
    BY <2>1
  <2>2. ASSUME res' = [res EXCEPT ![o] = "none"] PROVE FALSE
    BY <1>1, <2>2 DEF TypeOK
  <2>3. ~Serves(o)
    BY <2>1, <2>2 DEF Serves, Connect, Disconnect, Receive, Continue
  <2>4. ~(PrintFirst(o) \/ PrintSecond(o) \/ ExecBusy(o) \/ Continue)
    BY <2>1 DEF PrintFirst, PrintSecond, WriteHalf, ExecBusy, Continue
  <2>5. ASSUME NEW r, Return(o, r) PROVE o = c /\ r = "FALSE"
    BY <1>1, <2>5 DEF TypeOK, Return
  <2>6. CASE ExecOk(o)
    <3>1. \E r : Return(o, r)
      <4>1. ExecFindTotal(o) => req[o].op \in {"online", "phone", "query"}
        BY <1>1 DEF ExecFindTotal, RequestInv, Fits
      <4> QED BY <2>4, <2>6, <4>1, Zenon DEF ExecOk, ExecInit, ExecCreate, ExecFindTotal,
                 ExecInsertTotal, ExecUpdateTick, ExecInsertChild, ExecUpdateData, ExecFindChild
    <3> QED BY <2>5, <2>6, <3>1
  <2>7. CASE ExecFails(o)
    <3>1. pc[o] \in ExecPC /\ Failed(o)
      BY <2>7 DEF ExecFails
    <3>2. \E r : Return(o, r)
      BY <1>2, <2>4, <3>1, FailedCases
    <3> QED BY <2>5, <2>7, <3>2
  <2> QED BY <1>3, <2>3, <2>4, <2>6, <2>7 DEF Works
<1>5. CASE ExecFails(c)
  <2>1. pc[c] # "create"
    BY <1>1 DEF RequestInv, Fits, OnlinePC
  <2>2. pc[c] # "init"
    <3>1. pc[c] = "init" => Continue
      BY <1>5, Zenon DEF ExecFails, Failed
    <3> QED BY <1>4, <3>1 DEF Continue
  <2>3. ProcessLost("faulted")
    BY <1>5, <2>1, <2>2, Zenon DEF ExecFails, Failed
  <2> QED BY <1>2, <2>3
<1>6. CASE ExecOk(c)
  <2>1. r # "TRUE" /\ Return(c, r) /\ res'[c] = "FALSE"
    BY <1>4
  <2>2. ASSUME Return(c, "TRUE") PROVE FALSE
    BY <1>1, <2>1, <2>2 DEF TypeOK, Return
  <2>3. ASSUME Continue PROVE FALSE
    BY <2>1, <2>3 DEF Continue
  <2>4. CASE ExecFindTotal(c)
    BY <2>2, <2>3, <2>4, Zenon DEF ExecFindTotal
  <2>5. CASE ExecFindChild(c)
    <3>1. req[c].op = "query"
      BY <1>1, <2>5 DEF ExecFindChild, RequestInv, Fits
    <3> QED BY <2>2, <2>5, <3>1, Zenon DEF ExecFindChild
  <2> QED BY <1>6, <2>2, <2>3, <2>4, <2>5 DEF ExecOk, ExecInit, ExecCreate, ExecInsertTotal,
             ExecUpdateTick, ExecInsertChild, ExecUpdateData
<1> QED BY <1>4, <1>5, <1>6

\* A phone is told the truth, with the debug prints compiled in (without them a handler gives
\* the same answer when SQLite refuses its statement), and with ticks below the sign bit
\* (api_phone_online and api_phoneQuery in database.c).
THEOREM ToldTruth ==
  ASSUME ENABLE_DBG, TicksBelowSign
  PROVE  Spec => PhoneToldTruth
<1>1. ASSUME IInv, RowInv, [Next]_vars, NEW c \in Client, res[c] = "none", res'[c] = "FALSE"
      PROVE  /\ req[c].op = "phone" => req[c].dev \notin ackedOnline
             /\ req[c].op = "query" =>
                  \/ req[c].dev \notin ackedOnline
                  \/ \A t \in req[c].startTick .. req[c].endTick :
                       <<req[c].dev, t>> \notin ackedPublish
  <2>1. total[req[c].dev] = NoRow => req[c].dev \notin ackedOnline
    BY <1>1 DEF RowInv
  <2>2. ASSUME NEW t \in req[c].startTick .. req[c].endTick, req[c].op = "query",
               <<req[c].dev, t>> \in ackedPublish
        PROVE  t \in Found(req[c].dev, req[c].startTick, req[c].endTick)
    <3>1. /\ req[c].dev \in Dev /\ t \in Tick
          /\ req[c].startTick \in Int /\ req[c].endTick \in Int
      BY <1>1, <2>2, Fields, TickInt DEF IInv, TypeOK
    <3>2. IsStored(req[c].dev, t)
      BY <1>1, <2>2 DEF IInv, AckedInv
    <3>3. Signed(t) = t
      BY <3>1 DEF Signed, TicksBelowSign
    <3>4. t \in Key /\ child[Name[req[c].dev]][t] # NoRow
      BY <3>1, <3>2, <3>3, TickKey DEF IsStored
    <3> QED BY <2>2, <3>1, <3>4 DEF Found
  <2> QED BY <1>1, <2>1, <2>2, Refusals
<1>2. IInv /\ RowInv /\ [Next]_vars =>
        [\A c \in Client :
           LET r == req[c] IN
           res[c] = "none" /\ res'[c] = "FALSE" =>
             /\ r.op = "phone" => r.dev \notin ackedOnline
             /\ r.op = "query" =>
                  \/ r.dev \notin ackedOnline
                  \/ \A t \in r.startTick .. r.endTick : <<r.dev, t>> \notin ackedPublish]_vars
  BY <1>1
<1>3. Init => RowInv
  BY InitRow
<1>4. IInv /\ RowInv /\ [Next]_vars => RowInv'
  BY NextRow
<1> QED BY <1>2, <1>3, <1>4, Invariance, PTL DEF Spec, PhoneToldTruth
=============================================================================

---------------------------- MODULE DeviceStore ----------------------------
(***************************************************************************)
(* database.c as the session threads run it concurrently, each with its    *)
(* own connection to one SQLite file.                                      *)
(*                                                                         *)
(* TotalTable has a row per device (last online time, last report); each   *)
(* device has a child table of its reports, keyed by time.  A handler is a *)
(* sequence of SQL statements, one step each; between two statements any   *)
(* other thread may run.  A statement is atomic and durable (SQLite,       *)
(* external): it takes effect, or it is refused because another connection *)
(* holds the file lock (SQLITE_BUSY, retried by loop_sqlite3_exec), or it  *)
(* fails because its table does not exist.                                 *)
(*                                                                         *)
(* The text of CREATE TABLE is composed in the static buffer cmd_exec that *)
(* all threads share; the other statements are composed in a local buffer  *)
(* and need no step of their own.                                          *)
(***************************************************************************)
EXTENDS Integers

CONSTANTS
  Client,       \* session threads
  Dev,          \* device identifiers
  Name,         \* Name[d]: d as SQLite compares table names, letter case folded
  Mixed,        \* an identifier torn out of two: bytes of one, bytes of another
  Empty,        \* what is in cmd_exec before its first use
  Readings,     \* Readings[d]: the sample values device d may report
  Zero,         \* the sample of a device that has reported nothing
  NoRow,        \* absence of a row
  TickBits,     \* width of timeTick
  Tick,         \* the values of timeTick that occur in requests
  RetryMax,     \* cnt of loop_sqlite3_exec: retries after the first attempt
  ENABLE_DBG    \* the compile-time switch of common.h

ASSUME DeviceStoreAssumption ==
  /\ DOMAIN Name = Dev
  /\ \A d \in Dev : Name[d] # Mixed
  /\ Empty \notin Dev
  /\ \A d \in Dev : Zero \notin Readings[d] /\ NoRow \notin Readings[d]
  /\ NoRow # Zero
  /\ TickBits \in Nat \ {0}
  /\ Tick \subseteq 0 .. 2^TickBits - 1
  /\ RetryMax \in Nat
  /\ ENABLE_DBG \in BOOLEAN

Table  == {Name[d] : d \in Dev} \cup {Mixed}
Sample == (UNION {Readings[d] : d \in Dev}) \cup {Zero}

ASSUME NoRowAssumption == NoRow \notin [tick : Int, data : Sample]

\* INSERT prints the unsigned timeTick with %d: what SQLite stores is the signed
\* reading of the same bits
Signed(t) == IF t < 2^(TickBits - 1) THEN t ELSE t - 2^TickBits
Key       == {Signed(t) : t \in 0 .. 2^TickBits - 1}

VARIABLES
  server,       \* "running", "killed" from outside, or "faulted" by itself
  totalExists,  \* file: has TotalTable been created?
  total,        \* file: TotalTable, a row or NoRow per device
  tables,       \* file: the child tables that exist
  child,        \* file: the rows of each child table, by stored tick
  cmd_exec,     \* the shared buffer: the identifier in its text, in two halves
  pc,           \* where each thread is
  req,          \* the request each thread is executing
  cnt,          \* retries left for the statement at hand
  res,          \* what the last handler of each thread returned
  ackedOnline,  \* history: devices whose online message was acknowledged
  ackedPublish  \* history: (device, tick) whose publish message was acknowledged

fileVars == <<totalExists, total, tables, child>>
histVars == <<ackedOnline, ackedPublish>>
vars     == <<server, totalExists, total, tables, child, cmd_exec,
              pc, req, cnt, res, ackedOnline, ackedPublish>>

\* the statements: what a thread at that place is about to execute
WritePC == {"init", "create", "insertTotal", "updateTick", "insertChild", "updateData"}
FindPC  == {"findTotal", "findChild"}
ExecPC  == WritePC \cup FindPC
\* "closed": no session; "idle": waiting for a message; "print1", "print2": inside
\* the snprintf that fills cmd_exec
PC      == ExecPC \cup {"closed", "idle", "print1", "print2"}

Request ==
  [op : {"online"}, dev : Dev, tick : Tick]
    \cup [op : {"publish"}, dev : Dev, tick : Tick, data : Sample]
    \cup [op : {"phone"}, dev : Dev]
    \cup [op : {"query"}, dev : Dev, startTick : Tick, endTick : Tick]
NoRequest == [op |-> "none"]

TypeOK ==
  /\ server \in {"running", "killed", "faulted"}
  /\ totalExists \in BOOLEAN
  /\ total \in [Dev -> [tick : Int, data : Sample] \cup {NoRow}]
  /\ tables \in SUBSET Table
  /\ child \in [Table -> [Key -> Sample \cup {NoRow}]]
  /\ cmd_exec \in (Dev \cup {Empty}) \X (Dev \cup {Empty})
  /\ pc \in [Client -> PC]
  /\ req \in [Client -> Request \cup {NoRequest}]
  /\ cnt \in [Client -> 0 .. RetryMax]
  /\ res \in [Client -> {"none", "TRUE", "FALSE"}]
  /\ ackedOnline \in SUBSET Dev
  /\ ackedPublish \in SUBSET (Dev \X Tick)

Init ==
  /\ server = "running"
  /\ totalExists = FALSE
  /\ total = [d \in Dev |-> NoRow]
  /\ tables = {}
  /\ child = [n \in Table |-> [k \in Key |-> NoRow]]
  /\ cmd_exec = <<Empty, Empty>>
  /\ pc = [c \in Client |-> "closed"]
  /\ req = [c \in Client |-> NoRequest]
  /\ cnt = [c \in Client |-> 0]
  /\ res = [c \in Client |-> "none"]
  /\ ackedOnline = {}
  /\ ackedPublish = {}

-----------------------------------------------------------------------------
(* Control: going to a statement, finishing a handler, losing the process  *)

\* thread c reaches its next statement with the full number of retries
Goto(c, p) ==
  /\ pc' = [pc EXCEPT ![c] = p]
  /\ cnt' = [cnt EXCEPT ![c] = RetryMax]

\* the handler returns r; online and publish messages are acknowledged on TRUE
Return(c, r) ==
  /\ pc' = [pc EXCEPT ![c] = "idle"]
  /\ cnt' = [cnt EXCEPT ![c] = 0]
  /\ res' = [res EXCEPT ![c] = r]
  /\ req' = [req EXCEPT ![c] = NoRequest]
  /\ ackedOnline' = IF req[c].op = "online" /\ r = "TRUE"
                      THEN ackedOnline \cup {req[c].dev} ELSE ackedOnline
  /\ ackedPublish' = IF req[c].op = "publish" /\ r = "TRUE"
                       THEN ackedPublish \cup {<<req[c].dev, req[c].tick>>} ELSE ackedPublish
  /\ UNCHANGED <<server, cmd_exec>>

\* the process is gone with every session; the file stays
ProcessLost(how) ==
  /\ server' = how
  /\ pc' = [c \in Client |-> "closed"]
  /\ req' = [c \in Client |-> NoRequest]
  /\ cnt' = [c \in Client |-> 0]
  /\ res' = [c \in Client |-> "none"]
  /\ cmd_exec' = <<Empty, Empty>>
  /\ UNCHANGED <<fileVars, histVars>>

\* the thread goes on inside the same handler
Continue == UNCHANGED <<server, cmd_exec, req, res, histVars>>

-----------------------------------------------------------------------------
(* Sessions and requests *)

\* api_init: open the file, then create TotalTable if it is missing
Connect(c) ==
  /\ pc[c] = "closed"
  /\ Goto(c, "init")
  /\ Continue
  /\ UNCHANGED fileVars

\* api_deinit
Disconnect(c) ==
  /\ pc[c] = "idle"
  /\ pc' = [pc EXCEPT ![c] = "closed"]
  /\ res' = [res EXCEPT ![c] = "none"]
  /\ UNCHANGED <<server, fileVars, cmd_exec, req, cnt, histVars>>

\* a message arrives.  api_dev_online starts composing CREATE TABLE in cmd_exec,
\* the others go straight to their first statement
Receive(c, r) ==
  /\ pc[c] = "idle"
  /\ Goto(c, CASE r.op = "online"            -> "print1"
               [] r.op = "publish"           -> "insertChild"
               [] r.op \in {"phone", "query"} -> "findTotal")
  /\ req' = [req EXCEPT ![c] = r]
  /\ res' = [res EXCEPT ![c] = "none"]
  /\ UNCHANGED <<server, fileVars, cmd_exec, histVars>>

\* snprintf writes the identifier into the buffer from left to right
WriteHalf(c, from, half, to) ==
  /\ pc[c] = from
  /\ cmd_exec' = [cmd_exec EXCEPT ![half] = req[c].dev]
  /\ Goto(c, to)
  /\ UNCHANGED <<server, fileVars, req, res, histVars>>

PrintFirst(c)  == WriteHalf(c, "print1", 1, "print2")
PrintSecond(c) == WriteHalf(c, "print2", 2, "create")

\* the table that the text in the buffer names
NamedTable == IF cmd_exec[1] = cmd_exec[2] THEN Name[cmd_exec[1]] ELSE Mixed

-----------------------------------------------------------------------------
(* Statements that take effect *)

ExecInit(c) ==
  /\ pc[c] = "init"
  /\ totalExists' = TRUE
  /\ pc' = [pc EXCEPT ![c] = "idle"]
  /\ cnt' = [cnt EXCEPT ![c] = 0]
  /\ Continue
  /\ UNCHANGED <<total, tables, child>>

ExecCreate(c) ==
  /\ pc[c] = "create"
  /\ tables' = tables \cup {NamedTable}
  /\ Goto(c, "findTotal")
  /\ Continue
  /\ UNCHANGED <<totalExists, total, child>>

\* mutant: an online message goes to the UPDATE whether there is a row or not
ExecFindTotal_Updates(c) ==
  LET found == total[req[c].dev] # NoRow IN
  /\ pc[c] = "findTotal"
  /\ totalExists
  /\ CASE req[c].op = "online" -> Goto(c, "updateTick") /\ Continue
       [] req[c].op = "phone"  -> Return(c, IF found THEN "TRUE" ELSE "FALSE")
       [] req[c].op = "query"  -> IF found THEN Goto(c, "findChild") /\ Continue
                                           ELSE Return(c, "FALSE")
  /\ UNCHANGED fileVars

\* the first lookup of api_dev_online, api_phone_online and api_phoneQuery
ExecFindTotal(c) ==
  LET found == total[req[c].dev] # NoRow IN
  /\ pc[c] = "findTotal"
  /\ totalExists
  /\ CASE req[c].op = "online" -> Goto(c, IF found THEN "updateTick" ELSE "insertTotal") /\ Continue
       [] req[c].op = "phone"  -> Return(c, IF found THEN "TRUE" ELSE "FALSE")
       [] req[c].op = "query"  -> IF found THEN Goto(c, "findChild") /\ Continue
                                           ELSE Return(c, "FALSE")
  /\ UNCHANGED fileVars

\* REPLACE INTO TotalTable with the zeroed sample of deal_dev_online
ExecInsertTotal(c) ==
  /\ pc[c] = "insertTotal"
  /\ totalExists
  /\ total' = [total EXCEPT ![req[c].dev] = [tick |-> Signed(req[c].tick), data |-> Zero]]
  /\ Return(c, "TRUE")
  /\ UNCHANGED <<totalExists, tables, child>>

\* UPDATE touches the row if there is one
Update(d, field, v) ==
  total' = [total EXCEPT ![d] = IF @ = NoRow THEN @ ELSE [@ EXCEPT ![field] = v]]

ExecUpdateTick(c) ==
  /\ pc[c] = "updateTick"
  /\ totalExists
  /\ Update(req[c].dev, "tick", req[c].tick)
  /\ Return(c, "TRUE")
  /\ UNCHANGED <<totalExists, tables, child>>

\* mutant: INSERT takes the table's name from the shared buffer, too
ExecInsertChild_SharedName(c) ==
  /\ pc[c] = "insertChild"
  /\ cmd_exec # <<Empty, Empty>>
  /\ NamedTable \in tables
  /\ child' = [child EXCEPT ![NamedTable][Signed(req[c].tick)] = req[c].data]
  /\ Goto(c, "updateData")
  /\ Continue
  /\ UNCHANGED <<totalExists, total, tables>>

ExecInsertChild(c) ==
  /\ pc[c] = "insertChild"
  /\ Name[req[c].dev] \in tables
  /\ child' = [child EXCEPT ![Name[req[c].dev]][Signed(req[c].tick)] = req[c].data]
  /\ Goto(c, "updateData")
  /\ Continue
  /\ UNCHANGED <<totalExists, total, tables>>

ExecUpdateData(c) ==
  /\ pc[c] = "updateData"
  /\ totalExists
  /\ Update(req[c].dev, "data", req[c].data)
  /\ Return(c, "TRUE")
  /\ UNCHANGED <<totalExists, tables, child>>

\* mutant: the end of the queried interval is left out
Found_OpenEnd(d, startTick, endTick) ==
  {k \in Key : child[Name[d]][k] # NoRow /\ startTick <= k /\ k < endTick}

\* SELECT compares the stored, signed ticks with the unsigned bounds of the query
Found(d, startTick, endTick) ==
  {k \in Key : child[Name[d]][k] # NoRow /\ startTick <= k /\ k <= endTick}

ExecFindChild(c) ==
  LET r == req[c] IN
  /\ pc[c] = "findChild"
  /\ Name[r.dev] \in tables
  /\ Return(c, IF Found(r.dev, r.startTick, r.endTick) # {} THEN "TRUE" ELSE "FALSE")
  /\ UNCHANGED fileVars

ExecOk(c) ==
  \/ ExecInit(c)
  \/ ExecCreate(c)
  \/ ExecFindTotal(c)
  \/ ExecInsertTotal(c)
  \/ ExecUpdateTick(c)
  \/ ExecInsertChild(c)
  \/ ExecUpdateData(c)
  \/ ExecFindChild(c)

-----------------------------------------------------------------------------
(* Statements that do not *)

\* another connection may hold a lock that this statement needs
Contended(c) ==
  \E o \in Client \ {c} : pc[o] \in ExecPC /\ (pc[c] \in WritePC \/ pc[o] \in WritePC)

\* mutant: the retries are counted down without a lower bound
ExecBusy_Unbounded(c) ==
  /\ pc[c] \in ExecPC
  /\ Contended(c)
  /\ cnt' = [cnt EXCEPT ![c] = @ - 1]
  /\ Continue
  /\ UNCHANGED <<fileVars, pc>>

\* SQLITE_BUSY: sleep and try again while retries are left
ExecBusy(c) ==
  /\ pc[c] \in ExecPC
  /\ Contended(c)
  /\ cnt[c] > 0
  /\ cnt' = [cnt EXCEPT ![c] = @ - 1]
  /\ Continue
  /\ UNCHANGED <<fileVars, pc>>

MissingTable(c) ==
  \/ pc[c] \in {"findTotal", "insertTotal", "updateTick", "updateData"} /\ ~totalExists
  \/ pc[c] \in {"insertChild", "findChild"} /\ Name[req[c].dev] \notin tables

\* mutant: CREATE TABLE is composed and tried again after its last retry
Failed_StartsOver(c) ==
  CASE pc[c] = "init"       -> /\ pc' = [pc EXCEPT ![c] = "idle"]
                               /\ cnt' = [cnt EXCEPT ![c] = 0]
                               /\ Continue
    [] pc[c] = "create"     -> Goto(c, "print1") /\ Continue
    [] pc[c] \notin {"init", "create"} -> Return(c, "FALSE")

\* mutant: the result of the INSERT is ignored as that of the UPDATE is
Failed_InsertIgnored(c) ==
  CASE pc[c] = "init"       -> /\ pc' = [pc EXCEPT ![c] = "idle"]
                               /\ cnt' = [cnt EXCEPT ![c] = 0]
                               /\ Continue
    [] pc[c] = "insertChild" -> Goto(c, "updateData") /\ Continue
    [] pc[c] \notin {"init", "insertChild"} -> Return(c, "FALSE")

\* What a failed statement leads to.  api_init ignores it and api_dev_online
\* returns FALSE for its CREATE TABLE.  bsp_insert, bsp_find and bsp_change print
\* it first, with a character where the format wants a string: with the debug
\* prints compiled in, the process dies there.  Without them the handlers return
\* FALSE, except that api_devPublish ignores the result of its UPDATE.
Failed(c) ==
  CASE pc[c] = "init"       -> /\ pc' = [pc EXCEPT ![c] = "idle"]
                               /\ cnt' = [cnt EXCEPT ![c] = 0]
                               /\ Continue
    [] pc[c] = "create"     -> Return(c, "FALSE")
    [] pc[c] \notin {"init", "create"} /\ ENABLE_DBG -> ProcessLost("faulted")
    [] pc[c] = "updateData" /\ ~ENABLE_DBG -> Return(c, "TRUE")
    [] pc[c] \notin {"init", "create", "updateData"} /\ ~ENABLE_DBG -> Return(c, "FALSE")

ExecFails(c) ==
  /\ pc[c] \in ExecPC
  /\ MissingTable(c) \/ (Contended(c) /\ cnt[c] = 0)
  /\ Failed(c)
  /\ UNCHANGED fileVars

-----------------------------------------------------------------------------
(* The process *)

\* the server is killed, or the machine goes down, between any two steps
Killed == server = "running" /\ ProcessLost("killed")

\* the operator starts the server again
Restart ==
  /\ server # "running"
  /\ server' = "running"
  /\ UNCHANGED <<fileVars, cmd_exec, pc, req, cnt, res, histVars>>

\* the steps of a thread inside a handler
Works(c) ==
  /\ server = "running"
  /\ PrintFirst(c) \/ PrintSecond(c) \/ ExecOk(c) \/ ExecBusy(c) \/ ExecFails(c)

Requests ==
  [op : {"online"}, dev : Dev, tick : Tick]
    \cup (UNION {[op : {"publish"}, dev : {d}, tick : Tick, data : Readings[d]] : d \in Dev})
    \cup [op : {"phone"}, dev : Dev]
    \cup [op : {"query"}, dev : Dev, startTick : Tick, endTick : Tick]

Serves(c) ==
  /\ server = "running"
  /\ Connect(c) \/ Disconnect(c) \/ \E r \in Requests : Receive(c, r)

Next ==
  \/ \E c \in Client : Works(c) \/ Serves(c)
  \/ Killed
  \/ Restart

\* a thread that is executing a handler keeps running; messages, disconnections,
\* crashes and restarts come from outside
Fairness == \A c \in Client : WF_vars(Works(c))

Spec     == Init /\ [][Next]_vars
FairSpec == Spec /\ Fairness

-----------------------------------------------------------------------------
(* Properties *)

\* A report that was acknowledged is in its device's table, where a query for its time
\* finds it once the device is known, whatever the other threads do and however often
\* the server is restarted.
AckedPublishFound ==
  \A p \in ackedPublish : Found(p[1], p[2], p[2]) # {}

\* A device whose online message was acknowledged can report: it has a row in
\* TotalTable and a child table named after it (database.c: one table per device).
AckedOnlineReady ==
  \A d \in ackedOnline : total[d] # NoRow /\ Name[d] \in tables

\* A phone is told that there is no such device only if no online message of that
\* device has been acknowledged, and that a time has no reports only if none of that
\* time has been acknowledged either.
PhoneToldTruth ==
  [][\A c \in Client :
       LET r == req[c] IN
       res[c] = "none" /\ res'[c] = "FALSE" =>
         /\ r.op = "phone" => r.dev \notin ackedOnline
         /\ r.op = "query" =>
              \/ r.dev \notin ackedOnline
              \/ \A t \in r.startTick .. r.endTick : <<r.dev, t>> \notin ackedPublish]_vars

\* Every handler ends, however often SQLite reports that the file is locked,
\* unless the process is lost.
HandlerEnds ==
  \A c \in Client : (pc[c] \notin {"closed", "idle"}) ~> (pc[c] \in {"closed", "idle"})

-----------------------------------------------------------------------------
(* What the database promises: a store of reports *)

Reports  == [d \in Dev |-> child[Name[d]]]
Shown    == [d \in Dev |-> IF total[d] = NoRow THEN NoRow ELSE total[d].data]
Promised == {<<p[1], Signed(p[2])>> : p \in ackedPublish}

Store == INSTANCE ReportStore WITH reports <- Reports, shown <- Shown, promised <- Promised

\* The statements of all the sessions together, with the shared buffer, retries, failures
\* and kills, are a store that only grows: what is acknowledged has been stored, nothing
\* stored is lost, and no report reaches the table or the row of another device
\* (database.c: a child table per device).
ImplementsStore == Store!Spec
=============================================================================

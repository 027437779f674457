---------------------------- MODULE CloudServer ----------------------------
(***************************************************************************)
(* The server as its devices see it: ConnTable's table and threads, the    *)
(* sessions those threads run, and the database as the ReportStore that    *)
(* DeviceStore implements, with devices that connect, report, give up and  *)
(* reconnect, and a process that may be killed, or that a send on a reset  *)
(* connection ends with SIGPIPE, and that is started again.                *)
(*                                                                         *)
(* Devices and the kernel's connections are external.  A device sends its  *)
(* reports in order over one connection at a time, and waits for each      *)
(* answer; when a connection breaks, it tries the same report again or     *)
(* goes on to the next.  The server may find out much later: what has      *)
(* already arrived is still read and handled.  All the devices have come   *)
(* online before.                                                          *)
(***************************************************************************)
EXTENDS ConnTable

CONSTANTS
  Dev,        \* devices
  Conn,       \* identities of connections: a bound on those in existence at once
  ReportMax   \* bound: reports of a device, numbered from 1

ASSUME CloudServerAssumption ==
  /\ ReportMax \in Nat
  /\ Dev \cap (Conn \cup {NoFd}) = {}
  /\ NoFd \notin Conn

VARIABLES
  reports, shown, promised,  \* the database
  owner,      \* the device that opened each connection, or NoFd
  alive,      \* the connections whose device still uses them
  backlog,    \* the connections that wait to be accepted
  behind,     \* the connection behind each descriptor, or NoFd
  inbox,      \* the report on its way from each connection's device, or 0
  answer,     \* the answer on its way to it: [asker, report] or NoAnswer
  asked,      \* the connections whose device waits for an answer
  job,        \* the message each thread is handling: [asker, report, at]
  tried,      \* the last report each device has sent
  excused     \* history: the devices that had two sessions at once, or for which the
              \* UPDATE of a publish has failed

storeVars  == <<reports, shown, promised>>
netVars    == <<owner, alive, backlog, inbox, answer, asked, tried, excused>>
serverVars == <<vars, storeVars, netVars, behind, job>>

Report   == 1 .. ReportMax
NoAnswer == [asker |-> NoFd, report |-> 0]
NoJob    == [asker |-> NoFd, report |-> 0, at |-> "none"]
Key      == Dev \X Report

Database == INSTANCE ReportStore WITH
              Key <- Report, Readings <- [d \in Dev |-> Report], Zero <- 0, NoRow <- -1

ServerTypeOK ==
  /\ TypeOK
  /\ reports \in [Dev -> [Report -> Report \cup {-1}]]
  /\ shown \in [Dev -> 0 .. ReportMax]
  /\ promised \in SUBSET Key
  /\ owner \in [Conn -> Dev \cup {NoFd}]
  /\ alive \in SUBSET Conn /\ backlog \in SUBSET Conn /\ asked \in SUBSET Conn
  /\ behind \in [Fd -> Conn \cup {NoFd}]
  /\ inbox \in [Conn -> 0 .. ReportMax]
  /\ answer \in [Conn -> [asker : Conn, report : Report] \cup {NoAnswer}]
  /\ job \in [Thread -> [asker : Conn, report : Report, at : {"insert", "change", "send"}]
                          \cup {NoJob}]
  /\ tried \in [Dev -> 0 .. ReportMax]
  /\ excused \in SUBSET Dev

ServerInit ==
  /\ Init
  /\ reports = [d \in Dev |-> [n \in Report |-> -1]]
  /\ shown = [d \in Dev |-> 0]
  /\ promised = {}
  /\ owner = [c \in Conn |-> NoFd]
  /\ alive = {} /\ backlog = {} /\ asked = {}
  /\ behind = [fd \in Fd |-> NoFd]
  /\ inbox = [c \in Conn |-> 0]
  /\ answer = [c \in Conn |-> NoAnswer]
  /\ job = [t \in Thread |-> NoJob]
  /\ tried = [d \in Dev |-> 0]
  /\ excused = {}

-----------------------------------------------------------------------------
(* The devices and their connections *)

Accepted == {behind[fd] : fd \in Fd} \ {NoFd}
InUse    == alive \cup backlog \cup Accepted

\* d opens a connection, having none that it still uses
Dial(d, c) ==
  /\ mpc # "aborted"
  /\ c \notin InUse
  /\ \A b \in alive : owner[b] # d
  /\ owner' = [owner EXCEPT ![c] = d]
  /\ alive' = alive \cup {c}
  /\ backlog' = backlog \cup {c}
  /\ inbox' = [inbox EXCEPT ![c] = 0]
  /\ answer' = [answer EXCEPT ![c] = NoAnswer]
  /\ asked' = asked \ {c}
  /\ excused' = IF \E b \in InUse : owner[b] = d THEN excused \cup {d} ELSE excused
  /\ UNCHANGED <<vars, storeVars, behind, job, tried>>

\* the report d has sent last, or the next one
Publish(c, n) ==
  LET d == owner[c] IN
  /\ c \in alive \ asked
  /\ n \in {tried[d], tried[d] + 1} \cap Report
  /\ inbox' = [inbox EXCEPT ![c] = n]
  /\ asked' = asked \cup {c}
  /\ tried' = [tried EXCEPT ![d] = n]
  /\ UNCHANGED <<vars, storeVars, behind, job, owner, alive, backlog, answer, excused>>

ReadAnswer(c) ==
  /\ c \in alive /\ answer[c] # NoAnswer
  /\ answer' = [answer EXCEPT ![c] = NoAnswer]
  /\ asked' = asked \ {c}
  /\ UNCHANGED <<vars, storeVars, behind, job, owner, alive, backlog, inbox, tried, excused>>

\* the device closes, or is cut off, or gives up; what it sent may still arrive
Break(c) ==
  /\ c \in alive
  /\ alive' = alive \ {c}
  /\ asked' = asked \ {c}
  /\ answer' = [answer EXCEPT ![c] = NoAnswer]
  /\ inbox' \in {inbox, [inbox EXCEPT ![c] = 0]}
  /\ UNCHANGED <<vars, storeVars, behind, job, owner, backlog, tried, excused>>

-----------------------------------------------------------------------------
(* The table, with the connections behind its descriptors *)

\* a descriptor that has been closed has nothing behind it
Closed == behind' = [fd \in Fd |-> IF fd \in open' THEN behind[fd] ELSE NoFd]

Accept(fd, c) ==
  /\ c \in backlog
  /\ AcceptConnection(fd)
  /\ backlog' = backlog \ {c}
  /\ behind' = [behind EXCEPT ![fd] = c]
  /\ UNCHANGED <<storeVars, job, owner, alive, inbox, answer, asked, tried, excused>>

TableStep ==
  /\ \/ ScanSlot \/ ScanAgain \/ AcceptFails \/ ConnectIn
     \/ CreateThreadFails
     \/ \E t \in Thread : CreateThread(t) \/ ThreadRuns(t)
  /\ Closed
  /\ UNCHANGED <<storeVars, netVars, job>>

-----------------------------------------------------------------------------
(* A session (app_process) *)

\* the connection that a thread's session reads from and writes to
Mine(t) == IF ccfd[t] = NoFd THEN NoFd ELSE behind[ccfd[t]]

Serves(t, at) == mpc # "aborted" /\ tpc[t] = "serve" /\ job[t].at = at

\* recv returns a message
Receive(t) ==
  LET c == Mine(t) IN
  /\ Serves(t, "none")
  /\ c # NoFd /\ inbox[c] # 0
  /\ job' = [job EXCEPT ![t] = [asker |-> c, report |-> inbox[c], at |-> "insert"]]
  /\ inbox' = [inbox EXCEPT ![c] = 0]
  /\ UNCHANGED <<vars, storeVars, behind, owner, alive, backlog, answer, asked, tried, excused>>

\* recv returns 0, an error, or nothing for 60 s
SessionEnds(t) ==
  /\ Serves(t, "none")
  /\ Mine(t) # NoFd => inbox[Mine(t)] = 0
  /\ AppProcessReturns(t)
  /\ UNCHANGED <<storeVars, netVars, behind, job>>

\* the device named in the message, and the report
JobDev(t) == owner[job[t].asker]

\* another session may keep the file locked until the retries of this one are used up
Contended(t) == \E u \in Thread \ {t} : job[u].at \in {"insert", "change"}

\* mutant: the message is answered although the report could not be stored
Insert_FailureAnswered(t) ==
  /\ Serves(t, "insert")
  /\ \/ /\ Database!Store(JobDev(t), job[t].report, job[t].report)
        /\ job' = [job EXCEPT ![t].at = "change"]
     \/ /\ Contended(t)
        /\ job' = [job EXCEPT ![t].at = "send"]
        /\ UNCHANGED storeVars
  /\ UNCHANGED <<vars, netVars, behind>>

\* devPublish stores the report, or returns FALSE and the message is not answered; the
\* end of the process that a failure means with the debug prints is left to Killed
Insert(t) ==
  /\ Serves(t, "insert")
  /\ \/ /\ Database!Store(JobDev(t), job[t].report, job[t].report)
        /\ job' = [job EXCEPT ![t].at = "change"]
     \/ /\ Contended(t)
        /\ job' = [job EXCEPT ![t] = NoJob]
        /\ UNCHANGED storeVars
  /\ UNCHANGED <<vars, netVars, behind>>

\* devPublish updates what the device shows, and returns TRUE whether that fails or not
Change(t) ==
  /\ Serves(t, "change")
  /\ \/ /\ Database!Finish(JobDev(t), job[t].report, job[t].report)
        /\ UNCHANGED excused
     \/ /\ Contended(t)
        /\ Database!Acknowledge(JobDev(t), job[t].report)
        /\ excused' = excused \cup {JobDev(t)}
  /\ job' = [job EXCEPT ![t].at = "send"]
  /\ UNCHANGED <<vars, behind, owner, alive, backlog, inbox, answer, asked, tried>>

\* the answer goes to whatever is behind the descriptor; if nobody uses that connection
\* any more it is lost, or ends the process
SendAnswer(t) ==
  LET c == Mine(t) IN
  /\ Serves(t, "send")
  /\ job' = [job EXCEPT ![t] = NoJob]
  /\ \/ /\ c \in alive
        /\ answer' = [answer EXCEPT ![c] = [asker |-> job[t].asker, report |-> job[t].report]]
        /\ UNCHANGED vars
     \/ /\ c \notin alive
        /\ UNCHANGED <<vars, answer>>
     \/ /\ c # NoFd /\ c \notin alive
        /\ mpc' = "aborted"
        /\ UNCHANGED <<answer, tableVars, open, s_scb_nbr, threadVars>>
  /\ UNCHANGED <<storeVars, behind, owner, alive, backlog, inbox, asked, tried, excused>>

Session(t) == Receive(t) \/ SessionEnds(t) \/ Insert(t) \/ Change(t) \/ SendAnswer(t)

-----------------------------------------------------------------------------
(* The process *)

Killed ==
  /\ mpc # "aborted"
  /\ mpc' = "aborted"
  /\ UNCHANGED <<tableVars, open, s_scb_nbr, threadVars, storeVars, netVars, behind, job>>

\* ConnTable as server_init and main leave it
FreshTable ==
  /\ s_scb' = [s \in Slot |-> NoFd]
  /\ client_info' = [s \in Slot |-> FALSE]
  /\ SocketUsed' = 0
  /\ mutex' = FALSE
  /\ open' = {}
  /\ mpc' = "scan"
  /\ s_scb_nbr' = 0
  /\ tpc' = [t \in Thread |-> "none"]
  /\ tslot' = [t \in Thread |-> 0]
  /\ tfd' = [t \in Thread |-> NoFd]
  /\ ccfd' = [t \in Thread |-> NoFd]

\* the process starts again: its memory is new, its connections are gone, the database
\* is what it was
Restart ==
  /\ mpc = "aborted"
  /\ FreshTable
  /\ behind' = [fd \in Fd |-> NoFd]
  /\ job' = [t \in Thread |-> NoJob]
  /\ alive' = {} /\ backlog' = {} /\ asked' = {}
  /\ inbox' = [c \in Conn |-> 0]
  /\ answer' = [c \in Conn |-> NoAnswer]
  /\ UNCHANGED <<storeVars, owner, tried, excused>>

ServerNext ==
  \/ \E c \in Conn :
       \/ \E d \in Dev : Dial(d, c)
       \/ \E n \in Report : Publish(c, n)
       \/ ReadAnswer(c)
       \/ Break(c)
       \/ \E fd \in Fd : Accept(fd, c)
  \/ TableStep
  \/ \E t \in Thread : Session(t)
  \/ Killed
  \/ Restart

ServerSpec == ServerInit /\ [][ServerNext]_serverVars

-----------------------------------------------------------------------------
(* Properties *)

\* An answer reaches the connection its message came from, and answers the report its
\* device has sent last: slots, descriptors and threads that are given to the next client
\* never carry an answer of the one before.
AnswersToAsker ==
  \A c \in Conn : answer[c] # NoAnswer =>
    answer[c].asker = c /\ answer[c].report = tried[owner[c]]

\* the reports that are acknowledged, or whose answer is on its way
Told == promised \cup {<<owner[c], answer[c].report>> : c \in {b \in Conn : answer[b] # NoAnswer}}

\* Whatever a device is told is stored is there, through kills, restarts and broken
\* connections; and what the device shows is its newest acknowledged report or a later
\* one (database.c: the last report), unless it has ever had two sessions at once, where
\* the older one may still be storing an older report, or an UPDATE has failed.
AckedReportsKept ==
  \A p \in Told :
    /\ reports[p[1]][p[2]] = p[2]
    /\ p[1] \notin excused => shown[p[1]] >= p[2]
=============================================================================

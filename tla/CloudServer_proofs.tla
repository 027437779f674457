------------------------- MODULE CloudServer_proofs -------------------------
(***************************************************************************)
(* What CloudServer keeps for any number of slots, descriptors, threads,   *)
(* devices, connections and reports.                                       *)
(*                                                                         *)
(* The invariant of ConnTable survives a kill, a SIGPIPE and a restart,    *)
(* and with it a serving thread keeps its descriptor (JobInv).  That an    *)
(* answer belongs to the last report of its device, and that what is shown *)
(* is never older than what is acknowledged, follows from where a report   *)
(* can be: at one place at a time on its connection (OnePlace), and        *)
(* current as long as no newer connection of the device can overtake it    *)
(* (CurrentInv).                                                           *)
(***************************************************************************)
EXTENDS CloudServer, ConnTable_proofs

\* what is true of the table even of a process that is gone, in the middle of any step
TableInv ==
  /\ TypeOK
  /\ SlotExclusive
  /\ NoSharedDescriptor
  /\ NoDescriptorLost
  /\ ClientInfoKept
  /\ mpc # "aborted" => IInv

\* a job is for the connection its thread reads from
JobInv == \A t \in Thread : job[t] # NoJob => tpc[t] = "serve" /\ job[t].asker = Mine(t)

\* a connection in use has a device, which uses one at a time, and only one is in use
\* unless the device is excused
UseInv ==
  /\ \A c \in InUse : owner[c] \in Dev
  /\ \A b, c \in alive : owner[b] = owner[c] => b = c
  /\ \A b, c \in InUse : owner[b] = owner[c] /\ owner[c] \notin excused => b = c

Handled(c) == \E t \in Thread : job[t].asker = c

\* a report is on its way, or being handled by one thread, or answered
OnePlace ==
  \A c \in Conn :
    /\ inbox[c] # 0 => ~Handled(c)
    /\ \A t, u \in Thread : job[t].asker = c /\ job[u].asker = c => t = u
    /\ answer[c] # NoAnswer => c \in alive /\ inbox[c] = 0 /\ ~Handled(c)
    /\ c \in alive /\ (inbox[c] # 0 \/ Handled(c) \/ answer[c] # NoAnswer) => c \in asked

\* no newer report of the device can have been sent on another connection
Latest(c) == c \in InUse /\ (c \in alive \/ owner[c] \notin excused)

\* a report that nothing can overtake is the last one its device has sent
CurrentInv ==
  \A c \in Conn : Latest(c) =>
    /\ inbox[c] # 0 => inbox[c] = tried[owner[c]]
    /\ \A t \in Thread : job[t].asker = c => job[t].report = tried[owner[c]]
    /\ answer[c] # NoAnswer => answer[c].asker = c /\ answer[c].report = tried[owner[c]]

\* what is acknowledged is stored, and shown or followed by a later report
PromiseInv ==
  /\ \A p \in promised : /\ reports[p[1]][p[2]] = p[2]
                         /\ p[1] \notin excused => shown[p[1]] >= p[2]
  /\ \A d \in Dev \ excused : shown[d] <= tried[d]

\* the statements of a publish have done what its thread goes on from
StepInv ==
  /\ \A t \in Thread :
       /\ job[t].at \in {"change", "send"} => reports[JobDev(t)][job[t].report] = job[t].report
       /\ job[t].at = "send" => <<JobDev(t), job[t].report>> \in promised
  /\ \A c \in Conn : answer[c] # NoAnswer => <<owner[c], answer[c].report>> \in promised

ServerInv ==
  /\ TableInv
  /\ ServerTypeOK
  /\ JobInv
  /\ UseInv
  /\ OnePlace
  /\ CurrentInv
  /\ PromiseInv
  /\ StepInv

-----------------------------------------------------------------------------
(* Jobs, connections and the table *)

\* A job is none, or names a connection and a report.
LEMMA JobFields ==
  ASSUME ServerTypeOK, NEW t \in Thread
  PROVE  /\ job[t] = NoJob => job[t].asker = NoFd /\ job[t].at = "none"
         /\ job[t] # NoJob => /\ job[t].asker \in Conn /\ job[t].report \in Report
                              /\ job[t].at \in {"insert", "change", "send"}
         /\ job[t].asker \in Conn <=> job[t] # NoJob
<1>1. job[t] \in [asker : Conn, report : Report, at : {"insert", "change", "send"}] \cup {NoJob}
  BY DEF ServerTypeOK
<1>2. NoJob.asker = NoFd /\ NoJob.at = "none" /\ NoFd \notin Conn
  BY CloudServerAssumption DEF NoJob
<1> QED BY <1>1, <1>2

\* A thread's descriptor is open while it serves.
LEMMA ServingOpen ==
  ASSUME TableInv, NEW t \in Thread, tpc[t] = "serve"
  PROVE  ccfd[t] \in Fd /\ ccfd[t] \in open /\ ccfd[t] # NoFd
BY ConnTableAssumption DEF TableInv, SlotExclusive, Holds, TypeOK, NoFd

\* The connection a job came from is in use, and is the one its thread writes to.
LEMMA AskerInUse ==
  ASSUME ServerInv, NEW t \in Thread, job[t] # NoJob
  PROVE  /\ ccfd[t] \in open /\ behind[ccfd[t]] = job[t].asker
         /\ job[t].asker \in InUse /\ job[t].asker \in Conn
         /\ JobDev(t) \in Dev
<1>1. tpc[t] = "serve" /\ job[t].asker = Mine(t)
  BY DEF ServerInv, JobInv
<1>2. ccfd[t] \in Fd /\ ccfd[t] \in open /\ ccfd[t] # NoFd
  BY <1>1, ServingOpen DEF ServerInv
<1>3. behind[ccfd[t]] = job[t].asker
  BY <1>1, <1>2 DEF Mine
<1>4. job[t].asker \in Conn
  BY JobFields DEF ServerInv
<1>5. job[t].asker \in InUse
  BY <1>2, <1>3, <1>4, CloudServerAssumption DEF InUse, Accepted
<1> QED BY <1>2, <1>3, <1>4, <1>5 DEF ServerInv, UseInv, JobDev

\* What a table that keeps its invariant shows.
LEMMA TableShows ==
  ASSUME IInv
  PROVE  TableInv
BY OpenExact DEF IInv, TableInv, NoDescriptorLost, FdInv, NoSharedDescriptor, Occupied, Serving

\* The process starts with an empty table.
LEMMA InitTable == Init => TableInv
BY InitIInv, TableShows

\* The accept loop, the threads, a kill and a restart keep the table.
LEMMA TableKeeps ==
  ASSUME TableInv,
         \/ [Next]_vars /\ (mpc = "aborted" => UNCHANGED vars)
         \/ mpc' = "aborted" /\ UNCHANGED <<tableVars, open, s_scb_nbr, threadVars>>
         \/ FreshTable
  PROVE  TableInv'
<1>1. IInv' => TableInv'
  BY TableShows, PTL
<1>2. CASE [Next]_vars /\ mpc # "aborted"
  BY <1>1, <1>2, NextIInv DEF TableInv
<1>3. CASE mpc' = "aborted" /\ UNCHANGED <<tableVars, open, s_scb_nbr, threadVars>>
  <2> USE <1>3 DEF TableInv, tableVars, threadVars
  <2>1. TypeOK'
    BY DEF TypeOK, MainPC
  <2>2. SlotExclusive' /\ ClientInfoKept'
    BY DEF SlotExclusive, ClientInfoKept, Holds
  <2>3. Serving' = Serving /\ Closing' = Closing /\ Occupied' = Occupied
    BY DEF Serving, Closing, Occupied, Leaving
  <2>4. NoSharedDescriptor' /\ NoDescriptorLost'
    BY <2>3 DEF NoSharedDescriptor, NoDescriptorLost, Leaving
  <2> QED BY <2>1, <2>2, <2>4
<1>4. CASE UNCHANGED vars
  <2> USE <1>4 DEF TableInv, vars
  <2>1. TypeOK' /\ (mpc' # "aborted" => IInv')
    BY NextIInv DEF TypeOK
  <2>2. SlotExclusive' /\ ClientInfoKept'
    BY DEF SlotExclusive, ClientInfoKept, Holds
  <2>3. Serving' = Serving /\ Closing' = Closing /\ Occupied' = Occupied
    BY DEF Serving, Closing, Occupied, Leaving
  <2>4. NoSharedDescriptor' /\ NoDescriptorLost'
    BY <2>3 DEF NoSharedDescriptor, NoDescriptorLost, Leaving
  <2> QED BY <2>1, <2>2, <2>4
<1>5. CASE FreshTable
  <2>1. Init'
    BY <1>5 DEF FreshTable, Init
  <2>2. Init' => TableInv'
    BY InitTable, PTL
  <2> QED BY <2>1, <2>2
<1> QED BY <1>2, <1>3, <1>4, <1>5

\* Every step of the server and its devices keeps the table.
LEMMA StepTable ==
  ASSUME TableInv, [ServerNext]_serverVars
  PROVE  TableInv'
<1>1. CASE UNCHANGED vars
  BY <1>1, TableKeeps
<1>2. ASSUME NEW c \in Conn, NEW fd \in Fd, Accept(fd, c) PROVE TableInv'
  <2>1. Next /\ mpc # "aborted"
    BY <1>2 DEF Accept, AcceptConnection, Next, Main
  <2> QED BY <2>1, TableKeeps
<1>3. CASE TableStep
  <2>1. Next
    BY <1>3 DEF TableStep, Next, Main, ThreadStep
  <2>2. mpc # "aborted"
    BY <1>3 DEF TableStep, ScanSlot, ScanAgain, AcceptFails, ConnectIn, CreateThreadFails,
                CreateThread, ThreadRuns
  <2> QED BY <2>1, <2>2, TableKeeps
<1>4. ASSUME NEW t \in Thread, SessionEnds(t) PROVE TableInv'
  <2>1. Next /\ mpc # "aborted"
    BY <1>4 DEF SessionEnds, AppProcessReturns, Next, ThreadStep
  <2> QED BY <2>1, TableKeeps
<1>5. ASSUME NEW t \in Thread, SendAnswer(t) PROVE TableInv'
  <2>1. \/ UNCHANGED vars
        \/ mpc' = "aborted" /\ UNCHANGED <<tableVars, open, s_scb_nbr, threadVars>>
    BY <1>5 DEF SendAnswer, vars, tableVars, threadVars
  <2> QED BY <2>1, TableKeeps
<1>6. CASE Killed \/ Restart
  BY <1>6, TableKeeps DEF Killed, Restart
<1>7. ASSUME NEW c \in Conn,
             \/ \E d \in Dev : Dial(d, c)
             \/ \E n \in Report : Publish(c, n)
             \/ ReadAnswer(c) \/ Break(c)
      PROVE  UNCHANGED vars
  BY <1>7 DEF Dial, Publish, ReadAnswer, Break
<1>8. ASSUME NEW t \in Thread, Receive(t) \/ Insert(t) \/ Change(t) PROVE UNCHANGED vars
  BY <1>8 DEF Receive, Insert, Change
<1>9. CASE UNCHANGED serverVars
  BY <1>1, <1>9 DEF serverVars
<1> QED BY <1>1, <1>2, <1>3, <1>4, <1>5, <1>6, <1>7, <1>8, <1>9 DEF ServerNext, Session

-----------------------------------------------------------------------------
(* Steps that leave the reports alone *)

\* A connection that is no longer used puts nobody in doubt.
LEMMA UseShrinks ==
  ASSUME UseInv, UNCHANGED owner, alive' \subseteq alive, InUse' \subseteq InUse,
         excused \subseteq excused'
  PROVE  UseInv'
BY DEF UseInv

\* A thread goes on with its job as long as it serves and nothing else is put behind an
\* open descriptor.
LEMMA JobsStay ==
  ASSUME TableInv, JobInv, ServerTypeOK, UNCHANGED job,
         \A t \in Thread : tpc[t] = "serve" /\ job[t] # NoJob =>
           tpc'[t] = "serve" /\ ccfd'[t] = ccfd[t],
         \A t \in Thread : tpc'[t] = "serve" /\ ccfd[t] \in open =>
           behind'[ccfd[t]] = behind[ccfd[t]]
  PROVE  JobInv'
<1> SUFFICES ASSUME NEW t \in Thread, job[t] # NoJob
             PROVE  tpc'[t] = "serve" /\ job[t].asker = Mine(t)'
  BY DEF JobInv
<1>1. tpc[t] = "serve" /\ job[t].asker = Mine(t)
  BY DEF JobInv
<1>2. ccfd[t] \in open /\ tpc'[t] = "serve" /\ ccfd'[t] = ccfd[t]
  BY <1>1, ServingOpen
<1> QED BY <1>1, <1>2 DEF Mine

\* Only what is behind the descriptors changes, and the table.
LEMMA Quiet ==
  ASSUME ServerInv, TableInv', ServerTypeOK', JobInv', InUse' \subseteq InUse,
         UNCHANGED <<storeVars, owner, alive, inbox, answer, asked, job, tried, excused>>
  PROVE  ServerInv'
<1> USE DEF ServerInv, storeVars
<1>1. UseInv'
  BY UseShrinks
<1>2. OnePlace'
  BY DEF OnePlace, Handled
<1>3. CurrentInv'
  BY DEF CurrentInv, Latest
<1>4. PromiseInv' /\ StepInv'
  BY DEF PromiseInv, StepInv, JobDev
<1> QED BY <1>1, <1>2, <1>3, <1>4

\* The type of everything but the table, for steps on the table.
LEMMA QuietTyped ==
  ASSUME ServerTypeOK, TableInv', behind' \in [Fd -> Conn \cup {NoFd}], backlog' \subseteq backlog,
         UNCHANGED <<storeVars, owner, alive, inbox, answer, asked, job, tried, excused>>
  PROVE  ServerTypeOK'
BY DEF ServerTypeOK, storeVars, TableInv

\* A new descriptor was not open, so that nobody was served behind it.
LEMMA AcceptKeeps ==
  ASSUME ServerInv, TableInv', NEW fd \in Fd, NEW c \in Conn, Accept(fd, c)
  PROVE  ServerInv'
<1> USE DEF ServerInv, Accept
<1>1. /\ fd \notin open /\ UNCHANGED <<tpc, ccfd>>
      /\ behind \in [Fd -> Conn \cup {NoFd}] /\ behind' = [behind EXCEPT ![fd] = c]
  BY DEF AcceptConnection, threadVars, ServerTypeOK
<1>2. JobInv'
  <2>1. \A f \in open : behind'[f] = behind[f]
    BY <1>1 DEF TableInv, TypeOK
  <2> QED BY <1>1, <2>1, JobsStay
<1>3. InUse' \subseteq InUse
  <2>1. Accepted' \subseteq Accepted \cup {c}
    BY <1>1, CloudServerAssumption DEF Accepted
  <2> QED BY <2>1 DEF InUse
<1>4. ServerTypeOK'
  BY <1>1, QuietTyped
<1> QED BY <1>2, <1>3, <1>4, Quiet

\* main and the threads go on: what is behind an open descriptor stays.
LEMMA TableStepKeeps ==
  ASSUME ServerInv, TableInv', TableStep
  PROVE  ServerInv'
<1> USE DEF ServerInv
<1>0. /\ behind \in [Fd -> Conn \cup {NoFd}]
      /\ behind' = [fd \in Fd |-> IF fd \in open' THEN behind[fd] ELSE NoFd]
      /\ UNCHANGED <<storeVars, netVars, job>>
  BY DEF TableStep, Closed, ServerTypeOK
<1>1. ASSUME NEW t \in Thread, tpc[t] = "serve" PROVE tpc'[t] = "serve" /\ ccfd'[t] = ccfd[t]
  <2>1. CASE ScanSlot \/ ScanAgain \/ AcceptFails \/ ConnectIn \/ CreateThreadFails
    BY <1>1, <2>1 DEF ScanSlot, ScanAgain, AcceptFails, ConnectIn, CreateThreadFails, threadVars
  <2>2. ASSUME NEW u \in Thread, CreateThread(u) PROVE tpc'[t] = "serve" /\ ccfd'[t] = ccfd[t]
    BY <1>1, <2>2 DEF CreateThread, Goto, TableInv, TypeOK
  <2>3. ASSUME NEW u \in Thread, ThreadRuns(u) PROVE tpc'[t] = "serve" /\ ccfd'[t] = ccfd[t]
    BY <1>1, <2>3 DEF ThreadRuns, ThreadSocket, CcInit, OutLock, OutClear, OutForget, OutClose,
       Goto, TableInv, TypeOK
  <2> QED BY <2>1, <2>2, <2>3 DEF TableStep
<1>2. JobInv'
  <2>1. ASSUME NEW t \in Thread, job[t] # NoJob
        PROVE  tpc'[t] = "serve" /\ job[t].asker = Mine(t)'
    <3>1. tpc[t] = "serve" /\ job[t].asker = Mine(t)
      BY <2>1 DEF JobInv
    <3>2. tpc'[t] = "serve" /\ ccfd'[t] = ccfd[t]
      BY <1>1, <3>1
    <3>3. tpc'[t] = "serve" => ccfd'[t] \in Fd /\ ccfd'[t] \in open'
      BY ConnTableAssumption DEF TableInv, SlotExclusive, Holds, TypeOK, NoFd
    <3>4. behind'[ccfd[t]] = behind[ccfd[t]]
      BY <1>0, <3>2, <3>3
    <3> QED BY <3>1, <3>2, <3>4 DEF Mine
  <2> QED BY <1>0, <2>1 DEF JobInv
<1>3. InUse' \subseteq InUse
  <2>1. Accepted' \subseteq Accepted
    BY <1>0 DEF Accepted
  <2> QED BY <1>0, <2>1 DEF InUse, netVars
<1>4. ServerTypeOK'
  <2>1. behind' \in [Fd -> Conn \cup {NoFd}]
    BY <1>0
  <2> QED BY <1>0, <2>1, QuietTyped DEF netVars
<1> QED BY <1>0, <1>2, <1>3, <1>4, Quiet DEF netVars

\* A session ends when it has no job.
LEMMA SessionEndsKeeps ==
  ASSUME ServerInv, TableInv', NEW t \in Thread, SessionEnds(t)
  PROVE  ServerInv'
<1> USE DEF ServerInv
<1>1. /\ job[t].at = "none" /\ UNCHANGED <<storeVars, netVars, behind, job, ccfd>>
      /\ tpc' = [tpc EXCEPT ![t] = "connect_out"]
  BY DEF SessionEnds, Serves, AppProcessReturns, Goto
<1>2. JobInv'
  <2>1. job[t] = NoJob
    BY <1>1, JobFields
  <2>2. \A u \in Thread : job[u] # NoJob => tpc'[u] = tpc[u]
    BY <1>1, <2>1 DEF TableInv, TypeOK
  <2> QED BY <1>1, <2>2, JobsStay
<1>3. ServerTypeOK'
  BY <1>1, QuietTyped DEF netVars, ServerTypeOK
<1> QED BY <1>1, <1>2, <1>3, Quiet DEF netVars, InUse, Accepted

\* The process ends, with its threads where they are.
LEMMA KilledKeeps ==
  ASSUME ServerInv, TableInv', Killed
  PROVE  ServerInv'
<1> USE DEF ServerInv, Killed, netVars, threadVars
<1>1. JobInv'
  BY JobsStay
<1>2. ServerTypeOK'
  BY QuietTyped DEF ServerTypeOK
<1> QED BY <1>1, <1>2, Quiet DEF InUse, Accepted

-----------------------------------------------------------------------------
(* Steps of a device *)

\* A device opens a connection, over which nothing has been sent yet.
LEMMA DialKeeps ==
  ASSUME ServerInv, TableInv', NEW d \in Dev, NEW c \in Conn, Dial(d, c)
  PROVE  ServerInv'
<1> USE DEF ServerInv
<1>1. /\ c \notin InUse /\ \A b \in alive : owner[b] # d
      /\ owner' = [owner EXCEPT ![c] = d]
      /\ alive' = alive \cup {c} /\ backlog' = backlog \cup {c}
      /\ inbox' = [inbox EXCEPT ![c] = 0]
      /\ answer' = [answer EXCEPT ![c] = NoAnswer]
      /\ asked' = asked \ {c}
      /\ excused' = IF \E b \in InUse : owner[b] = d THEN excused \cup {d} ELSE excused
      /\ UNCHANGED <<vars, storeVars, behind, job, tried>>
  BY DEF Dial
<1>2. InUse' = InUse \cup {c}
  BY <1>1 DEF InUse, Accepted
<1>3. \A t \in Thread : job[t].asker # c
  BY <1>1, AskerInUse, JobFields
<1>4. /\ owner' \in [Conn -> Dev \cup {NoFd}] /\ owner'[c] = d
      /\ inbox' \in [Conn -> 0 .. ReportMax] /\ inbox'[c] = 0
      /\ answer' \in [Conn -> [asker : Conn, report : Report] \cup {NoAnswer}]
      /\ answer'[c] = NoAnswer
      /\ \A b \in Conn \ {c} : owner'[b] = owner[b] /\ inbox'[b] = inbox[b] /\ answer'[b] = answer[b]
  BY <1>1, CloudServerAssumption DEF ServerTypeOK
<1>5. excused \subseteq excused' /\ excused' \subseteq Dev
  BY <1>1 DEF ServerTypeOK
<1>6. ServerTypeOK'
  BY <1>1, <1>4, <1>5 DEF ServerTypeOK, TableInv, storeVars
<1>7. JobInv'
  BY <1>1 DEF JobInv, Mine, vars
<1>8. UseInv'
  <2>1. \A b \in InUse : b \in Conn /\ b # c
    BY <1>1 DEF InUse, Accepted, ServerTypeOK
  <2>2. \A b \in alive : b \in InUse
    BY DEF InUse
  <2>3. d \notin excused' => \A b \in InUse : owner[b] # d
    BY <1>1
  <2> QED BY <1>1, <1>2, <1>4, <1>5, <2>1, <2>2, <2>3 DEF UseInv
<1>9. OnePlace'
  BY <1>1, <1>3, <1>4 DEF OnePlace, Handled
<1>10. CurrentInv'
  <2>1. ASSUME NEW b \in Conn \ {c}, Latest(b)' PROVE Latest(b)
    BY <1>1, <1>2, <1>4, <1>5, <2>1 DEF Latest
  <2> QED BY <1>1, <1>3, <1>4, <2>1 DEF CurrentInv
<1>11. PromiseInv'
  BY <1>1, <1>5 DEF PromiseInv, storeVars
<1>12. StepInv'
  <2>1. \A t \in Thread : job[t].at \in {"change", "send"} => JobDev(t)' = JobDev(t)
    BY <1>1, <1>3, <1>4, JobFields DEF JobDev
  <2> QED BY <1>1, <1>4, <2>1 DEF StepInv, storeVars
<1> QED BY <1>6, <1>7, <1>8, <1>9, <1>10, <1>11, <1>12

\* A device sends its last report again, or the next one, when nothing it has sent over
\* this connection is unanswered.
LEMMA PublishKeeps ==
  ASSUME ServerInv, TableInv', NEW c \in Conn, NEW n \in Report, Publish(c, n)
  PROVE  ServerInv'
<1> USE DEF ServerInv
<1> DEFINE d == owner[c]
<1>1. /\ c \in alive /\ c \notin asked
      /\ n \in {tried[d], tried[d] + 1}
      /\ inbox' = [inbox EXCEPT ![c] = n]
      /\ asked' = asked \cup {c}
      /\ tried' = [tried EXCEPT ![d] = n]
      /\ UNCHANGED <<vars, storeVars, behind, job, owner, alive, backlog, answer, excused>>
  BY DEF Publish
<1>2. d \in Dev /\ n \in Int /\ n \in 0 .. ReportMax
  BY <1>1, CloudServerAssumption DEF UseInv, InUse, Report
<1>3. /\ inbox' \in [Conn -> 0 .. ReportMax] /\ inbox'[c] = n
      /\ tried' \in [Dev -> 0 .. ReportMax] /\ tried'[d] = n /\ tried[d] \in Int /\ tried[d] <= n
      /\ \A b \in Conn \ {c} : inbox'[b] = inbox[b]
      /\ \A e \in Dev \ {d} : tried'[e] = tried[e]
  BY <1>1, <1>2, CloudServerAssumption DEF ServerTypeOK
<1>4. ServerTypeOK'
  BY <1>1, <1>3 DEF ServerTypeOK, TableInv, storeVars
<1>5. JobInv'
  BY <1>1 DEF JobInv, Mine, vars
<1>6. InUse' = InUse
  BY <1>1 DEF InUse, Accepted
<1>7. UseInv'
  BY <1>1, <1>6, UseShrinks
<1>8. answer[c] = NoAnswer /\ inbox[c] = 0 /\ ~Handled(c)
  BY <1>1 DEF OnePlace
<1>9. OnePlace'
  BY <1>1, <1>3, <1>8 DEF OnePlace, Handled
<1>10. CurrentInv'
  <2> SUFFICES ASSUME NEW b \in Conn, Latest(b)'
               PROVE  /\ inbox'[b] # 0 => inbox'[b] = tried'[owner[b]]
                      /\ \A t \in Thread : job[t].asker = b => job[t].report = tried'[owner[b]]
                      /\ answer[b] # NoAnswer => answer[b].asker = b /\ answer[b].report = tried'[owner[b]]
    BY <1>1 DEF CurrentInv
  <2>1. Latest(b) /\ owner[b] \in Dev
    BY <1>1, <1>6 DEF Latest, UseInv
  <2>2. CASE b = c
    BY <1>3, <1>8, <2>2 DEF Handled
  <2>3. CASE b # c
    <3>1. owner[b] # d
      BY <1>1, <2>1, <2>3 DEF Latest, UseInv, InUse
    <3> QED BY <1>3, <2>1, <2>3, <3>1 DEF CurrentInv
  <2> QED BY <2>2, <2>3
<1>11. PromiseInv'
  <2>1. \A e \in Dev : shown[e] \in Int /\ tried[e] \in Int /\ tried[e] <= tried'[e]
    BY <1>3, CloudServerAssumption DEF ServerTypeOK
  <2>2. \A e \in Dev : tried'[e] \in Int
    BY <1>3
  <2> QED BY <1>1, <2>1, <2>2 DEF PromiseInv, storeVars
<1>12. StepInv'
  BY <1>1 DEF StepInv, storeVars, JobDev
<1> QED BY <1>4, <1>5, <1>7, <1>9, <1>10, <1>11, <1>12

\* A device reads its answer, or stops using its connection.
LEMMA HangUpKeeps ==
  ASSUME ServerInv, TableInv', NEW c \in Conn, ReadAnswer(c) \/ Break(c)
  PROVE  ServerInv'
<1> USE DEF ServerInv
<1>1. /\ c \in alive
      /\ answer[c] # NoAnswer \/ alive' = alive \ {c}
      /\ alive' \subseteq alive /\ \A b \in alive : b # c => b \in alive'
      /\ answer' = [answer EXCEPT ![c] = NoAnswer]
      /\ asked' = asked \ {c}
      /\ UNCHANGED <<vars, storeVars, behind, job, owner, backlog, tried, excused>>
      /\ inbox' \in {inbox, [inbox EXCEPT ![c] = 0]}
  BY DEF ReadAnswer, Break
<1>2. /\ answer' \in [Conn -> [asker : Conn, report : Report] \cup {NoAnswer}]
      /\ answer'[c] = NoAnswer
      /\ \A b \in Conn \ {c} : answer'[b] = answer[b] /\ inbox'[b] = inbox[b]
      /\ inbox' \in [Conn -> 0 .. ReportMax]
      /\ inbox'[c] \in {0, inbox[c]}
  BY <1>1, CloudServerAssumption DEF ServerTypeOK
<1>3. ServerTypeOK'
  BY <1>1, <1>2 DEF ServerTypeOK, TableInv, storeVars
<1>4. JobInv'
  BY <1>1 DEF JobInv, Mine, vars
<1>5. InUse' \subseteq InUse
  BY <1>1 DEF InUse, Accepted
<1>6. UseInv'
  BY <1>1, <1>5, UseShrinks
<1>7. c \in alive' => inbox[c] = 0 /\ ~Handled(c)
  BY <1>1 DEF OnePlace
<1>8. OnePlace'
  BY <1>1, <1>2, <1>7 DEF OnePlace, Handled
<1>9. CurrentInv'
  <2>1. \A b \in Conn : Latest(b)' => Latest(b)
    BY <1>1, <1>5 DEF Latest
  <2> QED BY <1>1, <1>2, <2>1 DEF CurrentInv
<1>10. PromiseInv'
  BY <1>1 DEF PromiseInv, storeVars
<1>11. StepInv'
  BY <1>1, <1>2 DEF StepInv, storeVars, JobDev
<1> QED BY <1>3, <1>4, <1>6, <1>8, <1>9, <1>10, <1>11

-----------------------------------------------------------------------------
(* Steps of a session *)

\* A session takes the report that waits on its connection.
LEMMA ReceiveKeeps ==
  ASSUME ServerInv, TableInv', NEW t \in Thread, Receive(t)
  PROVE  ServerInv'
<1> USE DEF ServerInv
<1> DEFINE c == Mine(t)
           j == [asker |-> c, report |-> inbox[c], at |-> "insert"]
<1>1. /\ tpc[t] = "serve" /\ job[t].at = "none" /\ c # NoFd /\ inbox[c] # 0
      /\ job' = [job EXCEPT ![t] = j]
      /\ inbox' = [inbox EXCEPT ![c] = 0]
      /\ UNCHANGED <<vars, storeVars, behind, owner, alive, backlog, answer, asked, tried, excused>>
  BY DEF Receive, Serves
<1>2. c \in Conn /\ c \in InUse
  <2>1. ccfd[t] \in Fd /\ ccfd[t] # NoFd /\ behind \in [Fd -> Conn \cup {NoFd}]
    BY <1>1, ServingOpen DEF ServerTypeOK
  <2>2. c = behind[ccfd[t]]
    BY <2>1 DEF Mine
  <2> QED BY <1>1, <2>1, <2>2 DEF InUse, Accepted
<1>3. inbox[c] \in Report
  BY <1>1, <1>2, CloudServerAssumption DEF ServerTypeOK, Report
<1>4. /\ job' \in [Thread -> [asker : Conn, report : Report, at : {"insert", "change", "send"}]
                              \cup {NoJob}]
      /\ job'[t] = j
      /\ \A u \in Thread \ {t} : job'[u] = job[u]
  BY <1>1, <1>2, <1>3 DEF ServerTypeOK
<1>5. /\ inbox' \in [Conn -> 0 .. ReportMax] /\ inbox'[c] = 0
      /\ \A b \in Conn \ {c} : inbox'[b] = inbox[b]
  BY <1>1, <1>2, CloudServerAssumption DEF ServerTypeOK
<1>6. ServerTypeOK'
  BY <1>1, <1>4, <1>5 DEF ServerTypeOK, TableInv, storeVars
<1>7. JobInv'
  <2>1. \A u \in Thread : Mine(u)' = Mine(u) /\ tpc'[u] = tpc[u]
    BY <1>1 DEF Mine, vars
  <2> QED BY <1>1, <1>4, <2>1 DEF JobInv
<1>8. UseInv'
  <2>1. InUse' = InUse
    BY <1>1 DEF InUse, Accepted
  <2> QED BY <1>1, <2>1, UseShrinks
<1>9. OnePlace'
  <2>1. /\ ~Handled(c) /\ answer[c] = NoAnswer
        /\ c \in alive => c \in asked
    BY <1>1, <1>2 DEF OnePlace
  <2>2. job[t] = NoJob /\ job[t].asker = NoFd
    BY <1>1, JobFields
  <2>3. \A b \in Conn \ {c} : \A u \in Thread : job'[u].asker = b <=> job[u].asker = b
    BY <1>4, <2>2, CloudServerAssumption
  <2>4. \A u \in Thread : job'[u].asker = c <=> u = t
    BY <1>4, <2>1 DEF Handled
  <2>5. \A b \in Conn \ {c} : Handled(b)' <=> Handled(b)
    BY <2>3 DEF Handled
  <2> HIDE DEF c, j
  <2> QED BY <1>1, <1>5, <2>1, <2>3, <2>4, <2>5 DEF OnePlace
<1>10. CurrentInv'
  <2>1. \A b \in Conn : Latest(b)' <=> Latest(b)
    BY <1>1 DEF Latest, InUse, Accepted
  <2>2. Latest(c) => inbox[c] = tried[owner[c]]
    BY <1>1, <1>2 DEF CurrentInv
  <2> SUFFICES ASSUME NEW b \in Conn, Latest(b)
               PROVE  /\ inbox'[b] # 0 => inbox'[b] = tried[owner[b]]
                      /\ \A u \in Thread : job'[u].asker = b => job'[u].report = tried[owner[b]]
                      /\ answer[b] # NoAnswer => answer[b].asker = b /\ answer[b].report = tried[owner[b]]
    BY <1>1, <2>1 DEF CurrentInv
  <2>3. ASSUME NEW u \in Thread, job'[u].asker = b PROVE job'[u].report = tried[owner[b]]
    <3>1. CASE u = t
      <4>1. b = c /\ job'[u].report = inbox[c]
        BY <1>4, <2>3, <3>1
      <4> QED BY <2>2, <4>1
    <3>2. CASE u # t
      BY <1>4, <2>3, <3>2 DEF CurrentInv
    <3> QED BY <3>1, <3>2
  <2>4. inbox'[b] # 0 => inbox'[b] = tried[owner[b]]
    BY <1>5 DEF CurrentInv
  <2> QED BY <2>3, <2>4 DEF CurrentInv
<1>11. PromiseInv'
  BY <1>1 DEF PromiseInv, storeVars
<1>12. StepInv'
  <2>1. \A u \in Thread : job'[u].at \in {"change", "send"} => u # t
    BY <1>4
  <2> QED BY <1>1, <1>4, <2>1 DEF StepInv, storeVars, JobDev
<1> QED BY <1>6, <1>7, <1>8, <1>9, <1>10, <1>11, <1>12

\* A thread goes on to the next statement of its job, or gives it up, while nothing but
\* the database changes, which keeps what is promised.
LEMMA JobGoesOn ==
  ASSUME ServerInv, TableInv', NEW t \in Thread, job[t] # NoJob,
         NEW j, j = NoJob \/ j \in [asker : {job[t].asker}, report : {job[t].report},
                                    at : {"change", "send"}],
         job' = [job EXCEPT ![t] = j],
         UNCHANGED <<vars, behind, owner, alive, backlog, inbox, answer, asked, tried>>,
         reports' \in [Dev -> [Report -> Report \cup {-1}]],
         shown' \in [Dev -> 0 .. ReportMax],
         promised \subseteq promised', promised' \subseteq Key,
         excused \subseteq excused', excused' \subseteq Dev,
         \A d \in Dev, n \in Report : reports[d][n] = n => reports'[d][n] = n,
         j.at = "change" => reports'[JobDev(t)][job[t].report] = job[t].report,
         j.at = "send" => reports'[JobDev(t)][job[t].report] = job[t].report
                          /\ <<JobDev(t), job[t].report>> \in promised',
         PromiseInv'
  PROVE  ServerInv'
<1> USE DEF ServerInv
<1>1. job[t].asker \in Conn /\ job[t].report \in Report
  BY JobFields
<1>2. j.asker \in {job[t].asker, NoFd} /\ (j # NoJob => j.asker = job[t].asker /\ j.report = job[t].report)
  BY DEF NoJob
<1>3. /\ job' \in [Thread -> [asker : Conn, report : Report, at : {"insert", "change", "send"}]
                              \cup {NoJob}]
      /\ job'[t] = j
      /\ \A u \in Thread \ {t} : job'[u] = job[u]
  BY <1>1 DEF ServerTypeOK
<1>4. ServerTypeOK'
  BY <1>3 DEF ServerTypeOK, TableInv
<1>5. JobInv'
  <2>1. \A u \in Thread : Mine(u)' = Mine(u) /\ tpc'[u] = tpc[u]
    BY DEF Mine, vars
  <2> QED BY <1>2, <1>3, <2>1 DEF JobInv
<1>6. UseInv' /\ InUse' = InUse
  <2>1. InUse' = InUse
    BY DEF InUse, Accepted
  <2> QED BY <2>1, UseShrinks
<1>7. ASSUME NEW u \in Thread, NEW b \in Conn, job'[u].asker = b
      PROVE  job[u].asker = b /\ job'[u].report = job[u].report
  BY <1>2, <1>3, <1>7, CloudServerAssumption DEF NoJob
<1>8. OnePlace'
  <2>1. \A b \in Conn : Handled(b)' => Handled(b)
    BY <1>7 DEF Handled
  <2> QED BY <1>7, <2>1 DEF OnePlace
<1>9. CurrentInv'
  <2>1. \A b \in Conn : Latest(b)' => Latest(b)
    BY <1>6 DEF Latest
  <2> QED BY <1>7, <2>1 DEF CurrentInv
<1>10. StepInv'
  <2>1. ASSUME NEW u \in Thread
        PROVE  /\ job'[u].at \in {"change", "send"} =>
                    reports'[JobDev(u)'][job'[u].report] = job'[u].report
               /\ job'[u].at = "send" => <<JobDev(u)', job'[u].report>> \in promised'
    <3>1. CASE u = t
      <4>1. j.at \in {"change", "send"} => j # NoJob
        BY DEF NoJob
      <4>2. j # NoJob => JobDev(t)' = JobDev(t)
        BY <1>2, <1>3 DEF JobDev
      <4> QED BY <1>2, <1>3, <3>1, <4>1, <4>2
    <3>2. CASE u # t
      <4>1. job'[u] = job[u] /\ JobDev(u)' = JobDev(u)
        BY <1>3, <3>2 DEF JobDev
      <4>2. job[u].at \in {"change", "send"} => JobDev(u) \in Dev /\ job[u].report \in Report
        BY AskerInUse, JobFields
      <4> QED BY <4>1, <4>2 DEF StepInv
    <3> QED BY <3>1, <3>2
  <2> QED BY <2>1 DEF StepInv
<1> QED BY <1>4, <1>5, <1>6, <1>8, <1>9, <1>10

\* What a thread goes on from, and where the report of a device that is not excused is
\* the last one it has sent.
LEMMA JobStands ==
  ASSUME ServerInv, NEW t \in Thread, job[t] # NoJob
  PROVE  /\ JobDev(t) \in Dev /\ job[t].report \in Report
         /\ JobDev(t) \notin excused => job[t].report = tried[JobDev(t)]
<1>1. JobDev(t) \in Dev /\ job[t].report \in Report
  BY AskerInUse, JobFields DEF ServerInv
<1>2. JobDev(t) \notin excused => Latest(job[t].asker)
  BY AskerInUse DEF Latest, JobDev
<1>3. JobDev(t) \notin excused => job[t].report = tried[JobDev(t)]
  BY <1>2, AskerInUse DEF ServerInv, CurrentInv, JobDev
<1> QED BY <1>1, <1>3

\* The INSERT stores the report and loses none, or the session gives the message up.
LEMMA InsertKeeps ==
  ASSUME ServerInv, TableInv', NEW t \in Thread, Insert(t)
  PROVE  ServerInv'
<1> DEFINE d == JobDev(t)
           n == job[t].report
<1>1. job[t] # NoJob /\ job[t].at = "insert"
  BY DEF Insert, Serves, NoJob
<1>2. d \in Dev /\ n \in Report /\ job[t].asker \in Conn
  BY <1>1, JobStands, AskerInUse
<1>3. job[t] \in [asker : Conn, report : Report, at : {"insert", "change", "send"}]
  BY <1>1 DEF ServerInv, ServerTypeOK
<1>4. UNCHANGED <<vars, behind, owner, alive, backlog, inbox, answer, asked, tried, excused>>
  BY DEF Insert, netVars
<1>5. /\ reports \in [Dev -> [Report -> Report \cup {-1}]] /\ shown \in [Dev -> 0 .. ReportMax]
      /\ promised \subseteq Key /\ excused \subseteq Dev
  BY DEF ServerInv, ServerTypeOK
<1>6. CASE /\ Database!Store(d, n, n)
           /\ job' = [job EXCEPT ![t].at = "change"]
  <2> DEFINE j == [asker |-> job[t].asker, report |-> n, at |-> "change"]
  <2>1. job' = [job EXCEPT ![t] = j]
    <3>1. [job[t] EXCEPT !.at = "change"] = j
      BY <1>3
    <3>2. job' = [job EXCEPT ![t] = [job[t] EXCEPT !.at = "change"]]
      BY <1>6
    <3> QED BY <3>1, <3>2
  <2>2. /\ reports' = [reports EXCEPT ![d][n] = n] /\ UNCHANGED <<shown, promised>>
    BY <1>6 DEF Database!Store
  <2>3. /\ reports' \in [Dev -> [Report -> Report \cup {-1}]]
        /\ reports'[d][n] = n
        /\ \A e \in Dev, m \in Report : reports[e][m] = m => reports'[e][m] = m
    BY <1>2, <1>5, <2>2
  <2>4. PromiseInv'
    BY <1>4, <1>5, <2>2, <2>3 DEF ServerInv, PromiseInv, Key
  <2>5. j \in [asker : {job[t].asker}, report : {n}, at : {"change", "send"}]
        /\ j.at = "change"
    OBVIOUS
  <2> HIDE DEF j
  <2> QED BY <1>1, <1>4, <1>5, <2>1, <2>2, <2>3, <2>4, <2>5, JobGoesOn
<1>7. CASE job' = [job EXCEPT ![t] = NoJob] /\ UNCHANGED storeVars
  <2>1. UNCHANGED <<reports, shown, promised>> /\ NoJob.at = "none"
    BY <1>7 DEF storeVars, NoJob
  <2>2. PromiseInv'
    BY <1>4, <2>1 DEF ServerInv, PromiseInv
  <2> QED BY <1>1, <1>4, <1>5, <1>7, <2>1, <2>2, JobGoesOn
<1> QED BY <1>6, <1>7 DEF Insert

\* The UPDATE shows a report that is not older than any other acknowledged one of a
\* device that is not excused; a device whose UPDATE fails is.
LEMMA ChangeKeeps ==
  ASSUME ServerInv, TableInv', NEW t \in Thread, Change(t)
  PROVE  ServerInv'
<1> DEFINE d == JobDev(t)
           n == job[t].report
           j == [asker |-> job[t].asker, report |-> n, at |-> "send"]
<1>1. job[t] # NoJob /\ job[t].at = "change"
  BY DEF Change, Serves, NoJob
<1>2. d \in Dev /\ n \in Report /\ job[t].asker \in Conn
      /\ (d \notin excused => n = tried[d]) /\ reports[d][n] = n
  BY <1>1, JobStands, AskerInUse DEF ServerInv, StepInv
<1>3. job' = [job EXCEPT ![t] = j]
  <2>1. job[t] \in [asker : Conn, report : Report, at : {"insert", "change", "send"}]
    BY <1>1 DEF ServerInv, ServerTypeOK
  <2>2. [job[t] EXCEPT !.at = "send"] = j
    BY <2>1
  <2>3. job' = [job EXCEPT ![t] = [job[t] EXCEPT !.at = "send"]]
    BY DEF Change
  <2> QED BY <2>2, <2>3
<1>4. UNCHANGED <<vars, behind, owner, alive, backlog, inbox, answer, asked, tried>>
  BY DEF Change
<1>5. /\ reports \in [Dev -> [Report -> Report \cup {-1}]] /\ shown \in [Dev -> 0 .. ReportMax]
      /\ promised \subseteq Key /\ excused \subseteq Dev /\ tried \in [Dev -> 0 .. ReportMax]
  BY DEF ServerInv, ServerTypeOK
<1>6. /\ j \in [asker : {job[t].asker}, report : {n}, at : {"change", "send"}]
      /\ j.at = "send"
  OBVIOUS
<1>7. /\ reports' = reports /\ promised' = promised \cup {<<d, n>>}
      /\ promised' \subseteq Key /\ <<d, n>> \in promised' /\ promised \subseteq promised'
      /\ excused \subseteq excused' /\ excused' \subseteq Dev
  BY <1>2, <1>5 DEF Change, Database!Finish, Database!Acknowledge, Key
<1>8. shown' \in [Dev -> 0 .. ReportMax] /\ PromiseInv'
  <2>1. CASE Database!Finish(d, n, n) /\ UNCHANGED excused
    <3>1. shown[d] # -1 /\ n \in 0 .. ReportMax /\ n \in Int
      BY <1>2, <1>5, CloudServerAssumption DEF Report
    <3>2. /\ shown' \in [Dev -> 0 .. ReportMax] /\ shown'[d] = n
          /\ \A e \in Dev \ {d} : shown'[e] = shown[e]
      BY <1>2, <1>5, <2>1, <3>1 DEF Database!Finish
    <3>3. d \notin excused => shown[d] <= n /\ shown[d] \in Int
      BY <1>2, <1>5, CloudServerAssumption DEF ServerInv, PromiseInv
    <3>4. ASSUME NEW p \in promised'
          PROVE  /\ reports[p[1]][p[2]] = p[2]
                 /\ p[1] \notin excused => shown'[p[1]] >= p[2]
      <4>1. CASE p = <<d, n>>
        BY <1>2, <3>1, <3>2, <4>1
      <4>2. CASE p \in promised
        <5>1. p[1] \in Dev /\ p[2] \in Int /\ reports[p[1]][p[2]] = p[2]
              /\ (p[1] \notin excused => shown[p[1]] >= p[2])
          BY <1>5, <4>2 DEF ServerInv, PromiseInv, Key, Report
        <5> QED BY <3>1, <3>2, <3>3, <5>1
      <4> QED BY <1>7, <3>4, <4>1, <4>2
    <3>5. \A e \in Dev \ excused : shown'[e] <= tried[e]
      BY <1>2, <3>1, <3>2 DEF ServerInv, PromiseInv
    <3> QED BY <1>4, <1>7, <2>1, <3>2, <3>4, <3>5 DEF PromiseInv
  <2>2. CASE Database!Acknowledge(d, n) /\ excused' = excused \cup {d}
    BY <1>2, <1>4, <1>5, <1>7, <2>2 DEF Database!Acknowledge, ServerInv, PromiseInv
  <2> QED BY <2>1, <2>2 DEF Change
<1> HIDE DEF j
<1> QED BY <1>1, <1>2, <1>3, <1>4, <1>5, <1>6, <1>7, <1>8, JobGoesOn

\* The answer goes to the connection the message came from, or nowhere.
LEMMA SendAnswerKeeps ==
  ASSUME ServerInv, TableInv', NEW t \in Thread, SendAnswer(t)
  PROVE  ServerInv'
<1> USE DEF ServerInv
<1>0. PICK c \in Conn, n \in Report : c = job[t].asker /\ n = job[t].report
  BY JobFields DEF SendAnswer, Serves, NoJob
<1> DEFINE a == [asker |-> c, report |-> n]
<1>1. /\ job[t] # NoJob /\ job[t].at = "send" /\ Mine(t) = c
      /\ c \in InUse
  BY <1>0, AskerInUse DEF SendAnswer, Serves, NoJob, JobInv
<1>2. /\ UNCHANGED <<tpc, ccfd, open, storeVars, behind, owner, alive, backlog, inbox, asked,
                     tried, excused>>
      /\ job' = [job EXCEPT ![t] = NoJob]
      /\ \/ c \in alive /\ answer' = [answer EXCEPT ![c] = a]
         \/ answer' = answer
  BY <1>0, <1>1 DEF SendAnswer, vars, tableVars, threadVars
<1>3. /\ job' \in [Thread -> [asker : Conn, report : Report, at : {"insert", "change", "send"}]
                              \cup {NoJob}]
      /\ job'[t] = NoJob /\ NoJob.asker \notin Conn /\ NoJob.at = "none"
      /\ \A u \in Thread \ {t} : job'[u] = job[u]
  BY <1>2, CloudServerAssumption DEF ServerTypeOK, NoJob
<1>4. /\ answer' \in [Conn -> [asker : Conn, report : Report] \cup {NoAnswer}]
      /\ \A b \in Conn \ {c} : answer'[b] = answer[b]
      /\ answer'[c] # answer[c] => answer'[c] = a /\ c \in alive
  BY <1>2 DEF ServerTypeOK
<1>5. ServerTypeOK'
  BY <1>2, <1>3, <1>4 DEF ServerTypeOK, TableInv, storeVars
<1>6. JobInv'
  <2>1. \A u \in Thread : Mine(u)' = Mine(u) /\ tpc'[u] = tpc[u]
    BY <1>2 DEF Mine
  <2> QED BY <1>3, <2>1 DEF JobInv
<1>7. InUse' = InUse
  BY <1>2 DEF InUse, Accepted
<1>8. UseInv'
  BY <1>2, <1>7, UseShrinks
<1>9. ASSUME NEW u \in Thread, NEW b \in Conn, job'[u].asker = b
      PROVE  job[u].asker = b /\ job'[u].report = job[u].report /\ u # t
  BY <1>3, <1>9
<1>10. ~Handled(c)' /\ inbox[c] = 0 /\ (c \in alive => c \in asked)
  <2>1. Handled(c)
    BY <1>0 DEF Handled
  <2>2. \A u \in Thread : job'[u].asker # c
    BY <1>0, <1>9 DEF OnePlace
  <2> QED BY <1>1, <2>1, <2>2 DEF OnePlace, Handled
<1>11. OnePlace'
  <2>1. \A b \in Conn : Handled(b)' => Handled(b)
    BY <1>9 DEF Handled
  <2> HIDE DEF a
  <2> QED BY <1>1, <1>2, <1>4, <1>9, <1>10, <2>1 DEF OnePlace
<1>12. CurrentInv'
  <2> SUFFICES ASSUME NEW b \in Conn, Latest(b)
               PROVE  /\ inbox[b] # 0 => inbox[b] = tried[owner[b]]
                      /\ \A u \in Thread : job'[u].asker = b => job'[u].report = tried[owner[b]]
                      /\ answer'[b] # NoAnswer =>
                           answer'[b].asker = b /\ answer'[b].report = tried[owner[b]]
    BY <1>2, <1>7 DEF CurrentInv, Latest
  <2>1. /\ inbox[b] # 0 => inbox[b] = tried[owner[b]]
        /\ \A u \in Thread : job'[u].asker = b => job'[u].report = tried[owner[b]]
    BY <1>9 DEF CurrentInv
  <2>2. answer'[b] # NoAnswer => answer'[b].asker = b /\ answer'[b].report = tried[owner[b]]
    <3>1. CASE answer'[b] = answer[b]
      BY <3>1 DEF CurrentInv
    <3>2. CASE answer'[b] # answer[b]
      <4>1. b = c /\ answer'[b] = a
        BY <1>4, <3>2
      <4>2. n = tried[owner[c]]
        BY <1>0, <4>1 DEF CurrentInv
      <4> QED BY <4>1, <4>2
    <3> QED BY <3>1, <3>2
  <2> QED BY <2>1, <2>2
<1>13. PromiseInv'
  BY <1>2 DEF PromiseInv, storeVars
<1>14. StepInv'
  <2>1. <<owner[c], n>> \in promised
    BY <1>0, <1>1 DEF StepInv, JobDev
  <2>2. \A b \in Conn : answer'[b] # NoAnswer => <<owner[b], answer'[b].report>> \in promised
    <3>1. ASSUME NEW b \in Conn, answer'[b] # NoAnswer
          PROVE  <<owner[b], answer'[b].report>> \in promised
      <4>1. CASE answer'[b] = answer[b]
        BY <3>1, <4>1 DEF StepInv
      <4>2. CASE answer'[b] # answer[b]
        <5>1. b = c /\ answer'[b] = a
          BY <1>4, <4>2
        <5> QED BY <2>1, <5>1
      <4> QED BY <4>1, <4>2
    <3> QED BY <3>1
  <2>3. \A u \in Thread : job'[u].at \in {"change", "send"} => u # t
    BY <1>3
  <2> QED BY <1>2, <1>3, <2>2, <2>3 DEF StepInv, storeVars, JobDev
<1> QED BY <1>5, <1>6, <1>8, <1>11, <1>12, <1>13, <1>14

-----------------------------------------------------------------------------
(* The process starts, and starts again *)

\* Without connections there is nothing but the database.
LEMMA NobodyThere ==
  ASSUME alive = {}, backlog = {}, behind = [fd \in Fd |-> NoFd],
         inbox = [c \in Conn |-> 0], answer = [c \in Conn |-> NoAnswer],
         job = [t \in Thread |-> NoJob]
  PROVE  JobInv /\ UseInv /\ OnePlace /\ CurrentInv /\ StepInv
<1>1. InUse = {}
  BY DEF InUse, Accepted
<1>2. \A t \in Thread : job[t] = NoJob /\ job[t].asker \notin Conn /\ job[t].at = "none"
  BY CloudServerAssumption DEF NoJob
<1>3. JobInv /\ UseInv
  BY <1>1, <1>2 DEF JobInv, UseInv
<1>4. OnePlace
  BY <1>2 DEF OnePlace, Handled
<1>5. CurrentInv
  BY <1>1 DEF CurrentInv, Latest
<1>6. StepInv
  BY <1>2 DEF StepInv
<1> QED BY <1>3, <1>4, <1>5, <1>6

\* The database outlives the process.
LEMMA RestartKeeps ==
  ASSUME ServerInv, TableInv', Restart
  PROVE  ServerInv'
<1>1. ServerTypeOK'
  <2>1. /\ behind' \in [Fd -> Conn \cup {NoFd}]
        /\ job' \in [Thread -> [asker : Conn, report : Report, at : {"insert", "change", "send"}]
                                \cup {NoJob}]
        /\ inbox' \in [Conn -> 0 .. ReportMax]
        /\ answer' \in [Conn -> [asker : Conn, report : Report] \cup {NoAnswer}]
    BY CloudServerAssumption DEF Restart
  <2> QED BY <2>1 DEF Restart, ServerInv, ServerTypeOK, TableInv, storeVars
<1>2. PromiseInv'
  BY DEF Restart, ServerInv, PromiseInv, storeVars
<1>3. (JobInv /\ UseInv /\ OnePlace /\ CurrentInv /\ StepInv)'
  <2>1. /\ alive' = {} /\ backlog' = {} /\ behind' = [fd \in Fd |-> NoFd]
        /\ inbox' = [c \in Conn |-> 0] /\ answer' = [c \in Conn |-> NoAnswer]
        /\ job' = [t \in Thread |-> NoJob]
    BY DEF Restart
  <2>2. (/\ alive = {} /\ backlog = {} /\ behind = [fd \in Fd |-> NoFd]
         /\ inbox = [c \in Conn |-> 0] /\ answer = [c \in Conn |-> NoAnswer]
         /\ job = [t \in Thread |-> NoJob]
         => JobInv /\ UseInv /\ OnePlace /\ CurrentInv /\ StepInv)'
    BY NobodyThere, PTL
  <2> QED BY <2>1, <2>2
<1> QED BY <1>1, <1>2, <1>3 DEF ServerInv

\* A server that has just started, without connections or reports.
LEMMA InitServerInv == ServerInit => ServerInv
<1> SUFFICES ASSUME ServerInit PROVE ServerInv
  OBVIOUS
<1>1. TableInv
  BY InitTable DEF ServerInit
<1>2. ServerTypeOK
  <2>1. 0 \in 0 .. ReportMax
    BY CloudServerAssumption
  <2> QED BY <1>1, <2>1 DEF ServerInit, ServerTypeOK, TableInv
<1>3. PromiseInv
  <2>1. \A d \in Dev : shown[d] = 0 /\ tried[d] = 0
    BY DEF ServerInit
  <2> QED BY <2>1 DEF ServerInit, PromiseInv
<1>4. JobInv /\ UseInv /\ OnePlace /\ CurrentInv /\ StepInv
  BY NobodyThere DEF ServerInit
<1> QED BY <1>1, <1>2, <1>3, <1>4 DEF ServerInv

\* One step of the devices, the network, the server or its end.
LEMMA NextServerInv == ServerInv /\ [ServerNext]_serverVars => ServerInv'
<1> SUFFICES ASSUME ServerInv, [ServerNext]_serverVars PROVE ServerInv'
  OBVIOUS
<1>0. TableInv'
  BY StepTable DEF ServerInv
<1>1. ASSUME NEW c \in Conn, NEW d \in Dev, Dial(d, c) PROVE ServerInv'
  BY <1>0, <1>1, DialKeeps
<1>2. ASSUME NEW c \in Conn, NEW n \in Report, Publish(c, n) PROVE ServerInv'
  BY <1>0, <1>2, PublishKeeps
<1>3. ASSUME NEW c \in Conn, ReadAnswer(c) \/ Break(c) PROVE ServerInv'
  BY <1>0, <1>3, HangUpKeeps
<1>4. ASSUME NEW c \in Conn, NEW fd \in Fd, Accept(fd, c) PROVE ServerInv'
  BY <1>0, <1>4, AcceptKeeps
<1>5. CASE TableStep
  BY <1>0, <1>5, TableStepKeeps
<1>6. ASSUME NEW t \in Thread, Session(t) PROVE ServerInv'
  BY <1>0, <1>6, ReceiveKeeps, SessionEndsKeeps, InsertKeeps, ChangeKeeps, SendAnswerKeeps
     DEF Session
<1>7. CASE Killed
  BY <1>0, <1>7, KilledKeeps
<1>8. CASE Restart
  BY <1>0, <1>8, RestartKeeps
<1>9. CASE UNCHANGED serverVars
  <2> USE <1>9 DEF serverVars, netVars, ServerInv
  <2>1. JobInv' /\ ServerTypeOK'
    BY <1>0 DEF JobInv, Mine, vars, ServerTypeOK, TableInv, storeVars
  <2>2. InUse' = InUse
    BY DEF InUse, Accepted
  <2> QED BY <1>0, <2>1, <2>2, Quiet
<1> QED BY <1>1, <1>2, <1>3, <1>4, <1>5, <1>6, <1>7, <1>8, <1>9 DEF ServerNext

-----------------------------------------------------------------------------
(* The theorems *)

\* The invariant that the theorems below are read off: it holds in every state of the
\* server, its connections and its database (main.c, server.c, app.c, database.c).
THEOREM ServerInvariance == ServerSpec => []ServerInv
<1> QED BY InitServerInv, NextServerInv, PTL DEF ServerSpec

\* Whatever the devices, the network and the end of the process do, the state of the
\* server and of its connections keeps its type (main.c, server.c, app.c).
THEOREM ServerTypeCorrect == ServerSpec => []ServerTypeOK
<1>1. ServerInv => ServerTypeOK
  BY DEF ServerInv
<1> QED BY <1>1, ServerInvariance, PTL

\* The table of main.c and server.c stays exclusive, loses no descriptor and shares none,
\* also in a process that has ended in the middle of a step, and in the next one.
THEOREM TableSurvives ==
  ServerSpec => [](SlotExclusive /\ NoSharedDescriptor /\ NoDescriptorLost /\ ClientInfoKept)
<1>1. ServerInv => SlotExclusive /\ NoSharedDescriptor /\ NoDescriptorLost /\ ClientInfoKept
  BY DEF ServerInv, TableInv
<1> QED BY <1>1, ServerInvariance, PTL

\* An answer reaches the connection its message came from, and answers the report its
\* device has sent last (app.c: recv and send on cc.socket).
THEOREM AnswersReachAsker == ServerSpec => []AnswersToAsker
<1>1. ServerInv => AnswersToAsker
  BY DEF ServerInv, AnswersToAsker, OnePlace, CurrentInv, Latest, InUse
<1> QED BY <1>1, ServerInvariance, PTL

\* What a device is told is stored is there, and what it shows is not older, unless it is
\* excused (database.c: devPublish).
THEOREM AckedKept == ServerSpec => []AckedReportsKept
<1>1. ASSUME ServerInv PROVE AckedReportsKept
  <2>1. Told \subseteq promised
    BY <1>1 DEF Told, ServerInv, StepInv
  <2> QED BY <1>1, <2>1 DEF ServerInv, PromiseInv, AckedReportsKept
<1> QED BY <1>1, ServerInvariance, PTL

=============================================================================

----------------------------- MODULE ConnTable -----------------------------
(***************************************************************************)
(* The connection table of the server: the accept loop of main.c, the slot *)
(* table s_scb[] of server.c, the counter SocketUsed, the mutex, and one   *)
(* detached thread per accepted connection.                                *)
(*                                                                         *)
(* main scans s_scb[] WITHOUT the mutex, while the threads clear their     *)
(* slots under it, so a thread's connect_out is split into the steps that  *)
(* main can observe.  connect_in is one step: everything it touches        *)
(* (SocketUsed, client_info) is touched by the threads under the mutex     *)
(* only, and its guard is that the mutex is free.                          *)
(*                                                                         *)
(* The kernel's descriptor table is external: accept may return any        *)
(* descriptor that is not open.  The unlocked reads of client_info by the  *)
(* debug prints are left out.                                              *)
(***************************************************************************)
EXTENDS Integers, FiniteSets

CONSTANTS
  SOCKET_MAX_NUM,   \* number of entries of s_scb[]
  Fd,               \* descriptors that accept may return
  Thread,           \* identities for the threads that pthread_create makes
  CreateMayFail     \* can pthread_create run out of resources?

ASSUME ConnTableAssumption ==
  /\ SOCKET_MAX_NUM \in Nat \ {0}
  /\ IsFiniteSet(Fd)
  /\ -1 \notin Fd
  /\ CreateMayFail \in BOOLEAN

Slot == 0 .. SOCKET_MAX_NUM - 1
NoFd == -1

VARIABLES
  s_scb,        \* s_scb[s].socket_id: a descriptor, or -1 for a free slot
  client_info,  \* s_scb[s].client_info: does it hold an address, or zeros?
  SocketUsed,   \* the counter of server.c
  mutex,        \* is the mutex held (by a thread inside connect_out)?
  open,         \* kernel: the accepted descriptors that are open
  mpc,          \* where main is
  s_scb_nbr,    \* main's scan index
  tpc,          \* where each thread is
  tslot,        \* each thread's argument: the slot number
  tfd,          \* each thread's local socket_id
  ccfd          \* each thread's cc.socket, which app_process reads and writes

mainVars   == <<mpc, s_scb_nbr>>
threadVars == <<tpc, tslot, tfd, ccfd>>
tableVars  == <<s_scb, client_info, SocketUsed, mutex>>
vars       == <<s_scb, client_info, SocketUsed, mutex, open,
                mpc, s_scb_nbr, tpc, tslot, tfd, ccfd>>

\* "aborted": the whole process is gone
MainPC   == {"scan", "accept", "connect_in", "create", "aborted"}
\* "none": no such thread (not created yet, or finished)
ThreadPC == {"none", "start", "cc_init", "serve", "connect_out", "clear", "forget", "close"}

TypeOK ==
  /\ s_scb \in [Slot -> Fd \cup {NoFd}]
  /\ client_info \in [Slot -> BOOLEAN]
  /\ SocketUsed \in Int
  /\ mutex \in BOOLEAN
  /\ open \in SUBSET Fd
  /\ mpc \in MainPC
  /\ s_scb_nbr \in 0 .. SOCKET_MAX_NUM
  /\ (mpc \in {"accept", "connect_in", "create"} => s_scb_nbr \in Slot)
  /\ tpc \in [Thread -> ThreadPC]
  /\ tslot \in [Thread -> Slot]
  /\ tfd \in [Thread -> Fd \cup {NoFd}]
  /\ ccfd \in [Thread -> Fd \cup {NoFd}]

\* server_init and socketSCBInit have run and the socket listens
Init ==
  /\ s_scb = [s \in Slot |-> NoFd]
  /\ client_info = [s \in Slot |-> FALSE]
  /\ SocketUsed = 0
  /\ mutex = FALSE
  /\ open = {}
  /\ mpc = "scan"
  /\ s_scb_nbr = 0
  /\ tpc = [t \in Thread |-> "none"]
  /\ tslot = [t \in Thread |-> 0]
  /\ tfd = [t \in Thread |-> NoFd]
  /\ ccfd = [t \in Thread |-> NoFd]

-----------------------------------------------------------------------------
(* main: the accept loop *)

Goto(t, pc) == tpc' = [tpc EXCEPT ![t] = pc]

\* mutant: the scan takes the first slot without looking whether it is free
ScanSlot_NoCheck ==
  /\ mpc = "scan"
  /\ s_scb_nbr < SOCKET_MAX_NUM
  /\ mpc' = "accept"
  /\ UNCHANGED <<s_scb_nbr, tableVars, open, threadVars>>

\* one iteration of the scan for a free slot: a racy read of socket_id
ScanSlot ==
  /\ mpc = "scan"
  /\ s_scb_nbr < SOCKET_MAX_NUM
  /\ IF s_scb[s_scb_nbr] = NoFd
       THEN mpc' = "accept" /\ UNCHANGED s_scb_nbr
       ELSE s_scb_nbr' = s_scb_nbr + 1 /\ UNCHANGED mpc
  /\ UNCHANGED <<tableVars, open, threadVars>>

\* mutant: the check that the scan found a slot is missing
ScanAgain_NoFullCheck ==
  /\ mpc = "scan"
  /\ s_scb_nbr = SOCKET_MAX_NUM
  /\ mpc' = "accept"
  /\ UNCHANGED <<s_scb_nbr, tableVars, open, threadVars>>

\* no slot was free: round the while loop again, without a pause
ScanAgain ==
  /\ mpc = "scan"
  /\ s_scb_nbr = SOCKET_MAX_NUM
  /\ s_scb_nbr' = 0
  /\ UNCHANGED <<tableVars, open, mpc, threadVars>>

\* accept returns a connection: the slot is taken without the mutex
AcceptConnection(fd) ==
  /\ mpc = "accept"
  /\ fd \notin open
  /\ open' = open \cup {fd}
  /\ s_scb' = [s_scb EXCEPT ![s_scb_nbr] = fd]
  /\ mpc' = "connect_in"
  /\ UNCHANGED <<client_info, SocketUsed, mutex, s_scb_nbr, threadVars>>

\* accept fails: the 60 s receive timeout of the listening socket, or an error
AcceptFails ==
  /\ mpc = "accept"
  /\ s_scb' = [s_scb EXCEPT ![s_scb_nbr] = NoFd]
  /\ client_info' = [client_info EXCEPT ![s_scb_nbr] = FALSE]
  /\ mpc' = "scan"
  /\ s_scb_nbr' = 0
  /\ UNCHANGED <<SocketUsed, mutex, open, threadVars>>

\* mutant: connect_in does not take the mutex
ConnectIn_Unlocked ==
  /\ mpc = "connect_in"
  /\ SocketUsed' = SocketUsed + 1
  /\ client_info' = [client_info EXCEPT ![s_scb_nbr] = TRUE]
  /\ mpc' = "create"
  /\ UNCHANGED <<s_scb, mutex, open, s_scb_nbr, threadVars>>

\* connect_in, up to the unlock
ConnectIn ==
  /\ mpc = "connect_in"
  /\ ~mutex
  /\ SocketUsed' = SocketUsed + 1
  /\ client_info' = [client_info EXCEPT ![s_scb_nbr] = TRUE]
  /\ mpc' = "create"
  /\ UNCHANGED <<s_scb, mutex, open, s_scb_nbr, threadVars>>

\* connect_in: pthread_create and pthread_detach
CreateThread(t) ==
  /\ mpc = "create"
  /\ tpc[t] = "none"
  /\ Goto(t, "start")
  /\ tslot' = [tslot EXCEPT ![t] = s_scb_nbr]
  /\ mpc' = "scan"
  /\ s_scb_nbr' = 0
  /\ UNCHANGED <<tableVars, open, tfd, ccfd>>

\* connect_in ignores the result of pthread_create: nobody runs for the slot,
\* and pthread_detach is applied to an uninitialised id, which has no effect or
\* takes the process down
CreateThreadFails ==
  /\ CreateMayFail
  /\ mpc = "create"
  /\ mpc' \in {"scan", "aborted"}
  /\ s_scb_nbr' = 0
  /\ UNCHANGED <<tableVars, open, threadVars>>

Main ==
  \/ ScanSlot
  \/ ScanAgain
  \/ \E fd \in Fd : AcceptConnection(fd)
  \/ AcceptFails
  \/ ConnectIn
  \/ \E t \in Thread : CreateThread(t)
  \/ CreateThreadFails

-----------------------------------------------------------------------------
(* thread_socket: one thread per connection *)

\* mutant: the thread is given a pointer to main's scan index instead of its value
ThreadSocket_ByReference(t) ==
  /\ tpc[t] = "start"
  /\ s_scb_nbr \in Slot
  /\ tslot' = [tslot EXCEPT ![t] = s_scb_nbr]
  /\ tfd' = [tfd EXCEPT ![t] = s_scb[s_scb_nbr]]
  /\ Goto(t, "cc_init")
  /\ UNCHANGED <<tableVars, open, mainVars, ccfd>>

\* the thread looks its descriptor up in the table
ThreadSocket(t) ==
  /\ tpc[t] = "start"
  /\ tfd' = [tfd EXCEPT ![t] = s_scb[tslot[t]]]
  /\ Goto(t, "cc_init")
  /\ UNCHANGED <<tableVars, open, mainVars, tslot, ccfd>>

\* api_cc_init looks it up a second time
CcInit(t) ==
  /\ tpc[t] = "cc_init"
  /\ ccfd' = [ccfd EXCEPT ![t] = s_scb[tslot[t]]]
  /\ Goto(t, "serve")
  /\ UNCHANGED <<tableVars, open, mainVars, tslot, tfd>>

\* app_process returns: end of file, an error, or 60 s of silence
AppProcessReturns(t) ==
  /\ mpc # "aborted"
  /\ tpc[t] = "serve"
  /\ Goto(t, "connect_out")
  /\ UNCHANGED <<tableVars, open, mainVars, tslot, tfd, ccfd>>

OutLock(t) ==
  /\ tpc[t] = "connect_out"
  /\ ~mutex
  /\ mutex' = TRUE
  /\ Goto(t, "clear")
  /\ UNCHANGED <<s_scb, client_info, SocketUsed, open, mainVars, tslot, tfd, ccfd>>

\* mutant: connect_out closes the descriptor first and clears the slot afterwards
OutClear_ClosesFirst(t) ==
  /\ tpc[t] = "clear"
  /\ open' = open \ {tfd[t]}
  /\ s_scb' = [s_scb EXCEPT ![tslot[t]] = NoFd]
  /\ Goto(t, "forget")
  /\ UNCHANGED <<client_info, SocketUsed, mutex, mainVars, tslot, tfd, ccfd>>

\* from here on main sees the slot as free
OutClear(t) ==
  /\ tpc[t] = "clear"
  /\ s_scb' = [s_scb EXCEPT ![tslot[t]] = NoFd]
  /\ Goto(t, "forget")
  /\ UNCHANGED <<client_info, SocketUsed, mutex, open, mainVars, tslot, tfd, ccfd>>

\* mutant: the counter is not decremented
OutForget_NoCount(t) ==
  /\ tpc[t] = "forget"
  /\ client_info' = [client_info EXCEPT ![tslot[t]] = FALSE]
  /\ mutex' = FALSE
  /\ Goto(t, "close")
  /\ UNCHANGED <<s_scb, SocketUsed, open, mainVars, tslot, tfd, ccfd>>

\* mutant: the mutex is not unlocked
OutForget_StaysLocked(t) ==
  /\ tpc[t] = "forget"
  /\ client_info' = [client_info EXCEPT ![tslot[t]] = FALSE]
  /\ SocketUsed' = SocketUsed - 1
  /\ Goto(t, "close")
  /\ UNCHANGED <<s_scb, mutex, open, mainVars, tslot, tfd, ccfd>>

\* the rest of the critical section, and the unlock
OutForget(t) ==
  /\ tpc[t] = "forget"
  /\ client_info' = [client_info EXCEPT ![tslot[t]] = FALSE]
  /\ SocketUsed' = SocketUsed - 1
  /\ mutex' = FALSE
  /\ Goto(t, "close")
  /\ UNCHANGED <<s_scb, open, mainVars, tslot, tfd, ccfd>>

\* mutant: connect_out does not close the descriptor
OutClose_Leaks(t) ==
  /\ tpc[t] = "close"
  /\ Goto(t, "none")
  /\ tslot' = [tslot EXCEPT ![t] = 0]
  /\ tfd' = [tfd EXCEPT ![t] = NoFd]
  /\ ccfd' = [ccfd EXCEPT ![t] = NoFd]
  /\ UNCHANGED <<tableVars, open, mainVars>>

\* only now may the kernel hand the descriptor out again; the thread's locals
\* go with it
OutClose(t) ==
  /\ tpc[t] = "close"
  /\ open' = open \ {tfd[t]}
  /\ Goto(t, "none")
  /\ tslot' = [tslot EXCEPT ![t] = 0]
  /\ tfd' = [tfd EXCEPT ![t] = NoFd]
  /\ ccfd' = [ccfd EXCEPT ![t] = NoFd]
  /\ UNCHANGED <<tableVars, mainVars>>

\* the steps of a thread that wait for nobody outside the process
ThreadRuns(t) ==
  /\ mpc # "aborted"
  /\ \/ ThreadSocket(t)
     \/ CcInit(t)
     \/ OutLock(t)
     \/ OutClear(t)
     \/ OutForget(t)
     \/ OutClose(t)

ThreadStep(t) == ThreadRuns(t) \/ AppProcessReturns(t)

Next == Main \/ \E t \in Thread : ThreadStep(t)

\* main always runs on and a thread always ends the section it is in; when a
\* session ends is up to its client, when accept returns is up to the clients
Fairness ==
  /\ WF_vars(ScanSlot \/ ScanAgain \/ ConnectIn \/ \E t \in Thread : CreateThread(t))
  /\ \A t \in Thread : WF_vars(ThreadRuns(t))

Spec     == Init /\ [][Next]_vars
FairSpec == Spec /\ Fairness

-----------------------------------------------------------------------------
(* Properties *)

\* the threads whose slot is theirs: created, and not yet past connect_out's clearing
Holds(t) == tpc[t] \in {"start", "cc_init", "serve", "connect_out", "clear"}
\* the threads that have given their slot back and not yet closed
Leaving(t) == tpc[t] \in {"forget", "close"}

Occupied == {s \in Slot : s_scb[s] # NoFd}
Serving  == {s_scb[s] : s \in Occupied}
Closing  == {tfd[t] : t \in {u \in Thread : Leaving(u)}}

\* No two threads work on the same slot, whatever the order in which slots are
\* freed, scanned and refilled, and the descriptor a thread talks to is the one
\* in its slot and the one it will close (thread_socket and api_cc_init look
\* s_scb[] up separately, without the mutex).
SlotExclusive ==
  \A t \in Thread : Holds(t) =>
    /\ s_scb[tslot[t]] \in open
    /\ tpc[t] # "start" => tfd[t] = s_scb[tslot[t]]
    /\ tpc[t] \notin {"start", "cc_init"} => ccfd[t] = tfd[t]
    /\ \A u \in Thread \ {t} : Holds(u) => tslot[u] # tslot[t]

\* A descriptor is in at most one slot, and a descriptor that a thread is about
\* to close is in none: connect_out frees the slot first and closes last, so the
\* kernel cannot hand the same number to a new session that would be cut off.
NoSharedDescriptor ==
  /\ \A r, s \in Occupied : s_scb[r] = s_scb[s] => r = s
  /\ \A t \in Thread : Leaving(t) =>
       /\ tfd[t] \notin Serving
       /\ \A u \in Thread \ {t} : Leaving(u) => tfd[u] # tfd[t]

\* Every open descriptor is still reachable: it is in the table, or a thread is
\* about to close it.
NoDescriptorLost == open = Serving \cup Closing

\* SocketUsed counts the occupied slots, up to the slot that main has taken and
\* not counted yet and the slot a thread has freed and not yet discounted; so it
\* never wraps below zero and never exceeds SOCKET_MAX_NUM.
SocketUsedExact ==
  /\ SocketUsed = Cardinality(Occupied)
                  - (IF mpc = "connect_in" THEN 1 ELSE 0)
                  + (IF \E t \in Thread : tpc[t] = "forget" THEN 1 ELSE 0)
  /\ SocketUsed \in 0 .. SOCKET_MAX_NUM

\* The address connect_in stored stays in the slot for as long as the connection
\* does: a departing thread zeroes client_info before main can refill the slot,
\* although main may already have taken it.
ClientInfoKept ==
  \A t \in Thread : Holds(t) => client_info[tslot[t]]

\* While a slot is free, main always gets back to accept with a free slot, unless the
\* process is gone: a full table, a contended mutex, a slot freed behind the scan or
\* a thread that could not be created never stops it.
FreeSlotOffered ==
  (\E s \in Slot : s_scb[s] = NoFd) ~> (mpc \in {"accept", "aborted"})

-----------------------------------------------------------------------------
(* What the table promises: a bounded pool of connections *)

Pool == INSTANCE SlotPool WITH
          Capacity <- SOCKET_MAX_NUM, Conn <- Fd, serving <- Serving, closing <- Closing

\* Seen from outside, the accept loop and the threads are a pool of at most
\* SOCKET_MAX_NUM connections that join, leave and are closed one at a time.
ImplementsPool == Pool!Spec
=============================================================================

-------------------------- MODULE ConnTable_proofs --------------------------
(***************************************************************************)
(* What the accept loop and the session threads keep for every number of   *)
(* slots, descriptors and threads.                                         *)
(*                                                                         *)
(* SlotExclusive and NoSharedDescriptor are not inductive: whether a new   *)
(* thread is alone on its slot depends on what main found when it scanned, *)
(* whether a descriptor is new depends on what is open, and whether an     *)
(* address survives depends on who is inside connect_out.  The invariant   *)
(* IInv adds these, one named part each.                                   *)
(***************************************************************************)
EXTENDS ConnTable, FiniteSetTheorems, TLAPS

-----------------------------------------------------------------------------
(* The inductive invariant *)

Critical(t) == tpc[t] \in {"clear", "forget"}

\* the mutex is held exactly by the one thread inside connect_out's critical section
MutexInv ==
  /\ \A t \in Thread : Critical(t) => mutex
  /\ \A t, u \in Thread : Critical(t) /\ Critical(u) => t = u

\* the slot main is about to fill is free; the one it has filled is nobody else's
MainInv ==
  /\ mpc = "accept" => s_scb[s_scb_nbr] = NoFd
  /\ mpc \in {"connect_in", "create"} =>
       /\ s_scb[s_scb_nbr] # NoFd
       /\ \A t \in Thread : Holds(t) => tslot[t] # s_scb_nbr
  /\ mpc = "create" => client_info[s_scb_nbr]

\* the slot whose address a thread is about to zero is free, or main has taken it
\* and waits for the mutex
ForgetInv ==
  \A t \in Thread : tpc[t] = "forget" =>
    \/ s_scb[tslot[t]] = NoFd
    \/ mpc = "connect_in" /\ s_scb_nbr = tslot[t]

\* the open descriptors are those in the table and those about to be closed
OpenInv ==
  /\ \A s \in Slot : s_scb[s] # NoFd => s_scb[s] \in open
  /\ \A t \in Thread : Leaving(t) => tfd[t] \in open
  /\ \A fd \in open : \/ \E s \in Slot : s_scb[s] = fd
                       \/ \E t \in Thread : Leaving(t) /\ tfd[t] = fd

\* no descriptor is in two places
FdInv ==
  /\ \A r, s \in Slot : s_scb[r] # NoFd /\ s_scb[r] = s_scb[s] => r = s
  /\ \A t \in Thread : Leaving(t) =>
       /\ \A s \in Slot : s_scb[s] # tfd[t]
       /\ \A u \in Thread : Leaving(u) /\ tfd[u] = tfd[t] => u = t

IInv ==
  /\ TypeOK
  /\ MutexInv
  /\ MainInv
  /\ SlotExclusive
  /\ ForgetInv
  /\ OpenInv
  /\ FdInv
  /\ ClientInfoKept

\* The server starts with an empty table, a free mutex and no thread.
LEMMA InitIInv == Init => IInv
<1> SUFFICES ASSUME Init PROVE IInv
  OBVIOUS
<1> USE ConnTableAssumption DEF Init, NoFd
<1>1. TypeOK
  <2>1. s_scb \in [Slot -> Fd \cup {NoFd}] /\ client_info \in [Slot -> BOOLEAN]
    BY DEF Slot
  <2>2. mutex \in BOOLEAN
    BY Zenon
  <2>4. SocketUsed \in Int /\ open \in SUBSET Fd
    OBVIOUS
  <2>3. /\ mpc \in MainPC /\ s_scb_nbr \in 0 .. SOCKET_MAX_NUM
        /\ tpc \in [Thread -> ThreadPC] /\ tslot \in [Thread -> Slot]
    BY DEF Slot, MainPC, ThreadPC
  <2> QED BY <2>1, <2>2, <2>3, <2>4 DEF TypeOK
<1>2. MutexInv /\ MainInv /\ SlotExclusive /\ ForgetInv /\ ClientInfoKept
  BY DEF MutexInv, MainInv, SlotExclusive, ForgetInv, ClientInfoKept, Critical, Holds
<1>3. OpenInv /\ FdInv
  BY DEF OpenInv, FdInv, Leaving
<1> QED BY <1>1, <1>2, <1>3 DEF IInv

-----------------------------------------------------------------------------
(* Every step keeps it *)

\* ScanSlot: main has found a free slot or looks at the next one.
LEMMA ScanSlotKeeps ==
  ASSUME IInv, ScanSlot
  PROVE  IInv'
<1> USE ConnTableAssumption DEF IInv, TypeOK, ScanSlot, tableVars, threadVars, mainVars, Goto, NoFd
<1>1. TypeOK'
  BY DEF Slot, MainPC, ThreadPC
<1>2. MutexInv' /\ MainInv' /\ SlotExclusive' /\ ForgetInv' /\ FdInv' /\ ClientInfoKept'
  BY DEF MutexInv, MainInv, SlotExclusive, ForgetInv, FdInv, ClientInfoKept, Critical, Holds, Slot, Leaving
<1>3. OpenInv'
  <2>1. \A u \in Thread : Leaving(u)' <=> Leaving(u)
    BY DEF Leaving
  <2>2. \A u \in Thread : Leaving(u) => tfd'[u] = tfd[u]
    BY DEF Leaving
  <2>3. UNCHANGED <<s_scb, open>> /\ OpenInv
    OBVIOUS
  <2> QED BY <2>1, <2>2, <2>3 DEF OpenInv
<1> QED BY <1>1, <1>2, <1>3

\* ScanAgain: main starts the scan again.
LEMMA ScanAgainKeeps ==
  ASSUME IInv, ScanAgain
  PROVE  IInv'
<1> USE ConnTableAssumption DEF IInv, TypeOK, ScanAgain, tableVars, threadVars, mainVars, Goto, NoFd
<1>1. TypeOK'
  BY DEF Slot, MainPC, ThreadPC
<1>2. MutexInv' /\ MainInv' /\ SlotExclusive' /\ ForgetInv' /\ FdInv' /\ ClientInfoKept'
  BY DEF MutexInv, MainInv, SlotExclusive, ForgetInv, FdInv, ClientInfoKept, Critical, Holds, Slot, Leaving
<1>3. OpenInv'
  <2>1. \A u \in Thread : Leaving(u)' <=> Leaving(u)
    BY DEF Leaving
  <2>2. \A u \in Thread : Leaving(u) => tfd'[u] = tfd[u]
    BY DEF Leaving
  <2>3. UNCHANGED <<s_scb, open>> /\ OpenInv
    OBVIOUS
  <2> QED BY <2>1, <2>2, <2>3 DEF OpenInv
<1> QED BY <1>1, <1>2, <1>3

\* AcceptConnection: the new descriptor was not open, so it is in no other slot and in no leaving
\* thread's hands.
LEMMA AcceptConnectionKeeps ==
  ASSUME IInv, NEW fd \in Fd, AcceptConnection(fd)
  PROVE  IInv'
<1> USE ConnTableAssumption DEF IInv, TypeOK, AcceptConnection, tableVars, threadVars, mainVars, Goto, NoFd
<1>1. TypeOK'
  BY DEF Slot, MainPC, ThreadPC
<1>2. MutexInv' /\ ForgetInv' /\ ClientInfoKept'
  BY DEF MutexInv, ForgetInv, ClientInfoKept, Critical, Holds
<1>3. FdInv'
  BY DEF FdInv, Leaving, OpenInv
<1>4. MainInv'
  BY DEF MainInv, Holds, Slot, SlotExclusive
<1>5. SlotExclusive'
  BY DEF SlotExclusive, Holds, MainInv
<1>6. OpenInv'
  BY DEF OpenInv, Leaving, Slot, MainInv, SlotExclusive, Holds, FdInv
<1> QED BY <1>1, <1>2, <1>3, <1>4, <1>5, <1>6

\* AcceptFails: the slot was free: no thread loses an address.
LEMMA AcceptFailsKeeps ==
  ASSUME IInv, AcceptFails
  PROVE  IInv'
<1> USE ConnTableAssumption DEF IInv, TypeOK, AcceptFails, tableVars, threadVars, mainVars, Goto, NoFd
<1>1. TypeOK'
  BY DEF Slot, MainPC, ThreadPC
<1>2. MutexInv' /\ MainInv' /\ ForgetInv'
  BY DEF MutexInv, MainInv, ForgetInv, Critical, Holds, Slot
<1>3. FdInv'
  BY DEF FdInv, Leaving, OpenInv
<1>4. SlotExclusive'
  BY DEF SlotExclusive, Holds, MainInv
<1>5. ClientInfoKept'
  BY DEF ClientInfoKept, Holds, MainInv, SlotExclusive
<1>6. OpenInv'
  BY DEF OpenInv, Leaving, Slot, MainInv, SlotExclusive, Holds, FdInv
<1> QED BY <1>1, <1>2, <1>3, <1>4, <1>5, <1>6

\* ConnectIn: the mutex is free, so no thread is still about to zero the address.
LEMMA ConnectInKeeps ==
  ASSUME IInv, ConnectIn
  PROVE  IInv'
<1> USE ConnTableAssumption DEF IInv, TypeOK, ConnectIn, tableVars, threadVars, mainVars, Goto, NoFd
<1>1. TypeOK'
  BY DEF Slot, MainPC, ThreadPC
<1>2. MutexInv' /\ MainInv' /\ SlotExclusive' /\ FdInv' /\ ClientInfoKept'
  BY DEF MutexInv, MainInv, SlotExclusive, FdInv, ClientInfoKept, Critical, Holds, Slot, Leaving
<1>3. ForgetInv'
  BY DEF ForgetInv, MutexInv, Critical
<1>4. OpenInv'
  <2>1. \A u \in Thread : Leaving(u)' <=> Leaving(u)
    BY DEF Leaving
  <2>2. \A u \in Thread : Leaving(u) => tfd'[u] = tfd[u]
    BY DEF Leaving
  <2>3. UNCHANGED <<s_scb, open>> /\ OpenInv
    OBVIOUS
  <2> QED BY <2>1, <2>2, <2>3 DEF OpenInv
<1> QED BY <1>1, <1>2, <1>3, <1>4

\* CreateThread: no other thread holds the slot main has filled.
LEMMA CreateThreadKeeps ==
  ASSUME IInv, NEW t \in Thread, CreateThread(t)
  PROVE  IInv'
<1> USE ConnTableAssumption DEF IInv, TypeOK, CreateThread, tableVars, threadVars, mainVars, Goto, NoFd
<1>1. TypeOK'
  BY DEF Slot, MainPC, ThreadPC
<1>2. MutexInv' /\ MainInv' /\ ForgetInv' /\ FdInv'
  BY DEF MutexInv, MainInv, ForgetInv, FdInv, Critical, Holds, Slot, Leaving
<1>3. SlotExclusive'
  BY DEF SlotExclusive, Holds, MainInv, OpenInv
<1>4. ClientInfoKept'
  BY DEF ClientInfoKept, Holds, MainInv
<1>5. OpenInv'
  <2>1. \A u \in Thread : Leaving(u)' <=> Leaving(u)
    BY DEF Leaving
  <2>2. \A u \in Thread : Leaving(u) => tfd'[u] = tfd[u]
    BY DEF Leaving
  <2>3. UNCHANGED <<s_scb, open>> /\ OpenInv
    OBVIOUS
  <2> QED BY <2>1, <2>2, <2>3 DEF OpenInv
<1> QED BY <1>1, <1>2, <1>3, <1>4, <1>5

\* CreateThreadFails: a slot stays occupied without a thread.
LEMMA CreateThreadFailsKeeps ==
  ASSUME IInv, CreateThreadFails
  PROVE  IInv'
<1> USE ConnTableAssumption DEF IInv, TypeOK, CreateThreadFails, tableVars, threadVars, mainVars, Goto, NoFd
<1>1. TypeOK'
  BY DEF Slot, MainPC, ThreadPC
<1>2. MutexInv' /\ MainInv' /\ SlotExclusive' /\ ForgetInv' /\ FdInv' /\ ClientInfoKept'
  BY DEF MutexInv, MainInv, SlotExclusive, ForgetInv, FdInv, ClientInfoKept, Critical, Holds, Slot, Leaving
<1>3. OpenInv'
  <2>1. \A u \in Thread : Leaving(u)' <=> Leaving(u)
    BY DEF Leaving
  <2>2. \A u \in Thread : Leaving(u) => tfd'[u] = tfd[u]
    BY DEF Leaving
  <2>3. UNCHANGED <<s_scb, open>> /\ OpenInv
    OBVIOUS
  <2> QED BY <2>1, <2>2, <2>3 DEF OpenInv
<1> QED BY <1>1, <1>2, <1>3

\* ThreadSocket: the slot still holds the descriptor the thread was created for.
LEMMA ThreadSocketKeeps ==
  ASSUME IInv, NEW t \in Thread, ThreadSocket(t)
  PROVE  IInv'
<1> USE ConnTableAssumption DEF IInv, TypeOK, ThreadSocket, tableVars, threadVars, mainVars, Goto, NoFd
<1>1. TypeOK'
  BY DEF Slot, MainPC, ThreadPC
<1>2. MutexInv' /\ MainInv' /\ SlotExclusive' /\ ForgetInv' /\ FdInv' /\ ClientInfoKept'
  BY DEF MutexInv, MainInv, SlotExclusive, ForgetInv, FdInv, ClientInfoKept, Critical, Holds, Slot, Leaving
<1>3. OpenInv'
  <2>1. \A u \in Thread : Leaving(u)' <=> Leaving(u)
    BY DEF Leaving
  <2>2. \A u \in Thread : Leaving(u) => tfd'[u] = tfd[u]
    BY DEF Leaving
  <2>3. UNCHANGED <<s_scb, open>> /\ OpenInv
    OBVIOUS
  <2> QED BY <2>1, <2>2, <2>3 DEF OpenInv
<1> QED BY <1>1, <1>2, <1>3

\* CcInit: the second lookup finds the same descriptor.
LEMMA CcInitKeeps ==
  ASSUME IInv, NEW t \in Thread, CcInit(t)
  PROVE  IInv'
<1> USE ConnTableAssumption DEF IInv, TypeOK, CcInit, tableVars, threadVars, mainVars, Goto, NoFd
<1>1. TypeOK'
  BY DEF Slot, MainPC, ThreadPC
<1>2. MutexInv' /\ MainInv' /\ SlotExclusive' /\ ForgetInv' /\ FdInv' /\ ClientInfoKept'
  BY DEF MutexInv, MainInv, SlotExclusive, ForgetInv, FdInv, ClientInfoKept, Critical, Holds, Slot, Leaving
<1>3. OpenInv'
  <2>1. \A u \in Thread : Leaving(u)' <=> Leaving(u)
    BY DEF Leaving
  <2>2. \A u \in Thread : Leaving(u) => tfd'[u] = tfd[u]
    BY DEF Leaving
  <2>3. UNCHANGED <<s_scb, open>> /\ OpenInv
    OBVIOUS
  <2> QED BY <2>1, <2>2, <2>3 DEF OpenInv
<1> QED BY <1>1, <1>2, <1>3

\* AppProcessReturns: the session is over.
LEMMA AppProcessReturnsKeeps ==
  ASSUME IInv, NEW t \in Thread, AppProcessReturns(t)
  PROVE  IInv'
<1> USE ConnTableAssumption DEF IInv, TypeOK, AppProcessReturns, tableVars, threadVars, mainVars, Goto, NoFd
<1>1. TypeOK'
  BY DEF Slot, MainPC, ThreadPC
<1>2. MutexInv' /\ MainInv' /\ SlotExclusive' /\ ForgetInv' /\ FdInv' /\ ClientInfoKept'
  BY DEF MutexInv, MainInv, SlotExclusive, ForgetInv, FdInv, ClientInfoKept, Critical, Holds, Slot, Leaving
<1>3. OpenInv'
  <2>1. \A u \in Thread : Leaving(u)' <=> Leaving(u)
    BY DEF Leaving
  <2>2. \A u \in Thread : Leaving(u) => tfd'[u] = tfd[u]
    BY DEF Leaving
  <2>3. UNCHANGED <<s_scb, open>> /\ OpenInv
    OBVIOUS
  <2> QED BY <2>1, <2>2, <2>3 DEF OpenInv
<1> QED BY <1>1, <1>2, <1>3

\* OutLock: the mutex was free, so no thread was inside.
LEMMA OutLockKeeps ==
  ASSUME IInv, NEW t \in Thread, OutLock(t)
  PROVE  IInv'
<1> USE ConnTableAssumption DEF IInv, TypeOK, OutLock, tableVars, threadVars, mainVars, Goto, NoFd
<1>1. TypeOK'
  BY DEF Slot, MainPC, ThreadPC
<1>2. MutexInv' /\ MainInv' /\ SlotExclusive' /\ ForgetInv' /\ FdInv' /\ ClientInfoKept'
  BY DEF MutexInv, MainInv, SlotExclusive, ForgetInv, FdInv, ClientInfoKept, Critical, Holds, Slot, Leaving
<1>3. OpenInv'
  <2>1. \A u \in Thread : Leaving(u)' <=> Leaving(u)
    BY DEF Leaving
  <2>2. \A u \in Thread : Leaving(u) => tfd'[u] = tfd[u]
    BY DEF Leaving
  <2>3. UNCHANGED <<s_scb, open>> /\ OpenInv
    OBVIOUS
  <2> QED BY <2>1, <2>2, <2>3 DEF OpenInv
<1> QED BY <1>1, <1>2, <1>3

\* OutClear: the descriptor moves from the table to the leaving thread.
LEMMA OutClearKeeps ==
  ASSUME IInv, NEW t \in Thread, OutClear(t)
  PROVE  IInv'
<1> USE ConnTableAssumption DEF IInv, TypeOK, OutClear, tableVars, threadVars, mainVars, Goto, NoFd
<1>1. TypeOK'
  BY DEF Slot, MainPC, ThreadPC
<1>2. MutexInv' /\ MainInv' /\ SlotExclusive' /\ ForgetInv' /\ ClientInfoKept'
  BY DEF MutexInv, MainInv, SlotExclusive, ForgetInv, ClientInfoKept, Critical, Holds, Slot
<1>3. FdInv'
  BY DEF FdInv, Leaving, OpenInv, SlotExclusive, Holds
<1>4. OpenInv'
  BY DEF OpenInv, Leaving, Slot, MainInv, SlotExclusive, Holds, FdInv
<1> QED BY <1>1, <1>2, <1>3, <1>4

\* OutForget: the slot is free, or main has it and still waits.
LEMMA OutForgetKeeps ==
  ASSUME IInv, NEW t \in Thread, OutForget(t)
  PROVE  IInv'
<1> USE ConnTableAssumption DEF IInv, TypeOK, OutForget, tableVars, threadVars, mainVars, Goto, NoFd
<1>1. TypeOK'
  <2>1. tslot[t] \in Slot /\ client_info \in [Slot -> BOOLEAN]
    OBVIOUS
  <2>2. client_info' \in [Slot -> BOOLEAN]
    BY <2>1
  <2>3. mutex' \in BOOLEAN
    BY Zenon
  <2>5. SocketUsed' \in Int
    OBVIOUS
  <2>4. tpc' \in [Thread -> ThreadPC]
    BY DEF ThreadPC
  <2> QED BY <2>2, <2>3, <2>4, <2>5
<1>2. MutexInv' /\ SlotExclusive' /\ ForgetInv' /\ FdInv'
  BY DEF MutexInv, SlotExclusive, ForgetInv, FdInv, Critical, Holds, Leaving
<1>3. ClientInfoKept'
  BY DEF ClientInfoKept, Holds, MainInv, ForgetInv, SlotExclusive
<1>4. MainInv'
  BY DEF MainInv, Holds, Slot, ForgetInv
<1>5. OpenInv'
  <2>1. \A u \in Thread : Leaving(u)' <=> Leaving(u)
    BY DEF Leaving
  <2>2. \A u \in Thread : Leaving(u) => tfd'[u] = tfd[u]
    BY DEF Leaving
  <2>3. UNCHANGED <<s_scb, open>> /\ OpenInv
    OBVIOUS
  <2> QED BY <2>1, <2>2, <2>3 DEF OpenInv
<1> QED BY <1>1, <1>2, <1>3, <1>4, <1>5

\* OutClose: the descriptor was in no slot, so no session loses it.
LEMMA OutCloseKeeps ==
  ASSUME IInv, NEW t \in Thread, OutClose(t)
  PROVE  IInv'
<1> USE ConnTableAssumption DEF IInv, TypeOK, OutClose, tableVars, threadVars, mainVars, Goto, NoFd
<1>1. TypeOK'
  BY DEF Slot, MainPC, ThreadPC
<1>2. MutexInv' /\ MainInv' /\ ForgetInv' /\ FdInv' /\ ClientInfoKept'
  BY DEF MutexInv, MainInv, ForgetInv, FdInv, ClientInfoKept, Critical, Holds, Slot, Leaving
<1>3. SlotExclusive'
  BY DEF SlotExclusive, Holds, FdInv, Leaving
<1>4. OpenInv'
  BY DEF OpenInv, Leaving, Slot, MainInv, SlotExclusive, Holds, FdInv
<1> QED BY <1>1, <1>2, <1>3, <1>4

\* Every step of main and of every thread keeps the invariant.
LEMMA NextIInv == IInv /\ [Next]_vars => IInv'
<1> SUFFICES ASSUME IInv, [Next]_vars PROVE IInv'
  OBVIOUS
<1>1. CASE Main
  BY <1>1, ScanSlotKeeps, ScanAgainKeeps, AcceptConnectionKeeps, AcceptFailsKeeps,
     ConnectInKeeps, CreateThreadKeeps, CreateThreadFailsKeeps DEF Main
<1>2. ASSUME NEW t \in Thread, ThreadStep(t) PROVE IInv'
  BY <1>2, ThreadSocketKeeps, CcInitKeeps, AppProcessReturnsKeeps, OutLockKeeps,
     OutClearKeeps, OutForgetKeeps, OutCloseKeeps DEF ThreadStep, ThreadRuns
<1>3. CASE UNCHANGED vars
  <2> USE <1>3 DEF vars, IInv
  <2>1. TypeOK'
    BY DEF TypeOK
  <2>2. MutexInv' /\ MainInv' /\ SlotExclusive' /\ ForgetInv' /\ ClientInfoKept'
    BY DEF MutexInv, MainInv, SlotExclusive, ForgetInv, ClientInfoKept, Critical, Holds
  <2>3. OpenInv' /\ FdInv'
    BY DEF OpenInv, FdInv, Leaving
  <2> QED BY <2>1, <2>2, <2>3
<1> QED BY <1>1, <1>2, <1>3 DEF Next

\* The invariant holds of every run.
THEOREM Invariance == Spec => []IInv
BY InitIInv, NextIInv, PTL DEF Spec

-----------------------------------------------------------------------------
(* The theorems *)

\* The variables of the table, of main and of the threads have their types.
THEOREM TypeCorrect == Spec => []TypeOK
<1>1. IInv => TypeOK
  BY DEF IInv
<1> QED BY <1>1, Invariance, PTL

\* No two sessions ever share a slot, and a session's descriptor is its slot's.
THEOREM ExclusiveSlots == Spec => []SlotExclusive
<1>1. IInv => SlotExclusive
  BY DEF IInv
<1> QED BY <1>1, Invariance, PTL

\* No descriptor is closed under a session that still uses it.
THEOREM DistinctDescriptors == Spec => []NoSharedDescriptor
<1>1. IInv => NoSharedDescriptor
  BY DEF IInv, FdInv, NoSharedDescriptor, Occupied, Serving
<1> QED BY <1>1, Invariance, PTL

\* The descriptors the kernel holds open are those in the table and those that a
\* thread is about to close.
LEMMA OpenExact == IInv => open = Serving \cup Closing
<1> SUFFICES ASSUME IInv PROVE open = Serving \cup Closing
  OBVIOUS
<1>1. ASSUME NEW fd \in open PROVE fd \in Serving \cup Closing
  <2>1. fd # NoFd
    BY ConnTableAssumption DEF IInv, TypeOK, NoFd
  <2>2. CASE \E s \in Slot : s_scb[s] = fd
    BY <2>1, <2>2 DEF Serving, Occupied
  <2>3. CASE \E t \in Thread : Leaving(t) /\ tfd[t] = fd
    BY <2>3 DEF Closing
  <2> QED BY <2>2, <2>3 DEF IInv, OpenInv
<1>2. Serving \subseteq open
  BY DEF IInv, OpenInv, Serving, Occupied
<1>3. Closing \subseteq open
  BY DEF IInv, OpenInv, Closing
<1> QED BY <1>1, <1>2, <1>3

\* No descriptor is lost: an open one is in the table or about to be closed.
THEOREM DescriptorsTracked == Spec => []NoDescriptorLost
<1>1. IInv => NoDescriptorLost
  BY OpenExact DEF NoDescriptorLost
<1> QED BY <1>1, Invariance, PTL

\* A slot keeps its client's address for as long as a thread serves it.
THEOREM AddressesKept == Spec => []ClientInfoKept
<1>1. IInv => ClientInfoKept
  BY DEF IInv
<1> QED BY <1>1, Invariance, PTL

-----------------------------------------------------------------------------
(* SocketUsed *)

\* The table is finite, so its occupied slots can be counted.
LEMMA SlotsFinite ==
  ASSUME NEW S \in SUBSET Slot
  PROVE  /\ IsFiniteSet(S)
         /\ Cardinality(S) \in 0 .. SOCKET_MAX_NUM
<1>1. IsFiniteSet(Slot) /\ Cardinality(Slot) = SOCKET_MAX_NUM
  <2>1. 0 \in Int /\ SOCKET_MAX_NUM - 1 \in Int /\ SOCKET_MAX_NUM >= 1
    BY ConnTableAssumption
  <2>2. /\ IsFiniteSet(0 .. SOCKET_MAX_NUM - 1)
        /\ Cardinality(0 .. SOCKET_MAX_NUM - 1) = SOCKET_MAX_NUM - 1 - 0 + 1
    <3> DEFINE last == SOCKET_MAX_NUM - 1
    <3>1. last \in Int /\ ~(0 > last)
      BY ConnTableAssumption
    <3> HIDE DEF last
    <3>2. IsFiniteSet(0 .. last) /\ Cardinality(0 .. last) = last - 0 + 1
      BY <3>1, FS_Interval
    <3> QED BY <3>2 DEF last
  <2>3. SOCKET_MAX_NUM - 1 - 0 + 1 = SOCKET_MAX_NUM
    BY ConnTableAssumption
  <2> QED BY <2>2, <2>3 DEF Slot
<1>2. IsFiniteSet(S) /\ Cardinality(S) <= Cardinality(Slot)
  BY <1>1, FS_Subset
<1>3. Cardinality(S) \in Nat
  BY <1>2, FS_CardinalityType
<1> QED BY <1>1, <1>2, <1>3, ConnTableAssumption

\* A free slot leaves room for one more.
LEMMA FreeSlotCounts ==
  ASSUME NEW S \in SUBSET Slot, NEW s \in Slot, s \notin S
  PROVE  Cardinality(S) < SOCKET_MAX_NUM
<1>1. IsFiniteSet(S) /\ Cardinality(S) \in Nat
  BY SlotsFinite
<1>2. Cardinality(S \cup {s}) = Cardinality(S) + 1
  BY <1>1, FS_AddElement
<1>3. Cardinality(S \cup {s}) \in 0 .. SOCKET_MAX_NUM
  BY SlotsFinite
<1> QED BY <1>1, <1>2, <1>3, ConnTableAssumption

\* the slots the counter has not yet heard of, and those it has not yet forgotten
Uncounted == IF mpc = "connect_in" THEN 1 ELSE 0
Undropped == IF \E t \in Thread : tpc[t] = "forget" THEN 1 ELSE 0

CountInv == SocketUsed = Cardinality(Occupied) - Uncounted + Undropped

\* The counter starts with an empty table at zero.
LEMMA InitCount == Init => CountInv
<1> SUFFICES ASSUME Init PROVE CountInv
  OBVIOUS
<1>1. Occupied = {}
  BY DEF Init, Occupied
<1>2. Cardinality(Occupied) = 0
  BY <1>1, FS_EmptySet
<1>3. Uncounted = 0 /\ Undropped = 0
  BY DEF Init, Uncounted, Undropped
<1> QED BY <1>2, <1>3 DEF CountInv, Init

\* a step that neither moves a slot in or out of the table nor counts
LEMMA CountCalm ==
  ASSUME CountInv, UNCHANGED <<s_scb, SocketUsed>>,
         (mpc' = "connect_in") <=> (mpc = "connect_in"),
         \A t \in Thread : (tpc'[t] = "forget") <=> (tpc[t] = "forget")
  PROVE  CountInv'
<1>1. Occupied' = Occupied
  BY DEF Occupied
<1>2. Uncounted' = Uncounted /\ Undropped' = Undropped
  BY DEF Uncounted, Undropped
<1> QED BY <1>1, <1>2 DEF CountInv

\* The counter follows the occupied slots in every step, up to main's slot that is
\* not counted yet and the thread's slot that is not discounted yet.
LEMMA NextCount == IInv /\ CountInv /\ [Next]_vars => CountInv'
<1> SUFFICES ASSUME IInv, CountInv, [Next]_vars PROVE CountInv'
  OBVIOUS
<1>0. Occupied \in SUBSET Slot /\ IsFiniteSet(Occupied) /\ Cardinality(Occupied) \in Nat
  BY SlotsFinite DEF Occupied
<1>1. ASSUME NEW fd \in Fd, AcceptConnection(fd) PROVE CountInv'
  <2>1. /\ s_scb_nbr \in Slot /\ s_scb_nbr \notin Occupied
        /\ s_scb' = [s_scb EXCEPT ![s_scb_nbr] = fd] /\ fd # NoFd
        /\ s_scb \in [Slot -> Fd \cup {NoFd}]
    BY <1>1, ConnTableAssumption DEF AcceptConnection, IInv, TypeOK, MainInv, Occupied, NoFd
  <2>2. Occupied' = Occupied \cup {s_scb_nbr}
    BY <2>1 DEF Occupied
  <2>3. Cardinality(Occupied') = Cardinality(Occupied) + 1
    BY <1>0, <2>1, <2>2, FS_AddElement
  <2>4. Uncounted = 0 /\ Uncounted' = 1 /\ Undropped' = Undropped
    BY <1>1 DEF AcceptConnection, threadVars, Uncounted, Undropped
  <2>5. SocketUsed' = SocketUsed /\ Undropped \in {0, 1}
    BY <1>1 DEF AcceptConnection, Undropped
  <2> QED BY <1>0, <2>3, <2>4, <2>5 DEF CountInv
<1>2. CASE AcceptFails
  <2>1. s_scb' = s_scb
    BY <1>2 DEF AcceptFails, IInv, TypeOK, MainInv
  <2> QED BY <1>2, <2>1, CountCalm DEF AcceptFails, threadVars
<1>3. CASE ConnectIn
  <2>1. Occupied' = Occupied
    BY <1>3 DEF ConnectIn, Occupied
  <2>2. Uncounted = 1 /\ Uncounted' = 0 /\ Undropped' = Undropped
    BY <1>3 DEF ConnectIn, threadVars, Uncounted, Undropped
  <2>3. SocketUsed' = SocketUsed + 1 /\ Undropped \in {0, 1}
    BY <1>3 DEF ConnectIn, Undropped
  <2> QED BY <1>0, <2>1, <2>2, <2>3 DEF CountInv
<1>4. CASE ScanSlot \/ ScanAgain \/ CreateThreadFails
  BY <1>4, CountCalm DEF ScanSlot, ScanAgain, CreateThreadFails, tableVars, threadVars
<1>5. ASSUME NEW t \in Thread, CreateThread(t) PROVE CountInv'
  BY <1>5, CountCalm DEF CreateThread, Goto, tableVars, IInv, TypeOK
<1>6. ASSUME NEW t \in Thread,
             ThreadSocket(t) \/ CcInit(t) \/ AppProcessReturns(t) \/ OutLock(t) \/ OutClose(t)
      PROVE  CountInv'
  BY <1>6, CountCalm DEF ThreadSocket, CcInit, AppProcessReturns, OutLock, OutClose,
     Goto, tableVars, mainVars, IInv, TypeOK
<1>7. ASSUME NEW t \in Thread, OutClear(t) PROVE CountInv'
  <2>1. /\ tslot[t] \in Slot /\ tslot[t] \in Occupied
        /\ s_scb' = [s_scb EXCEPT ![tslot[t]] = NoFd]
        /\ s_scb \in [Slot -> Fd \cup {NoFd}]
    BY <1>7, ConnTableAssumption DEF OutClear, IInv, TypeOK, SlotExclusive, Holds, Occupied, NoFd
  <2>2. Occupied' = Occupied \ {tslot[t]}
    BY <2>1 DEF Occupied
  <2>3. Cardinality(Occupied') = Cardinality(Occupied) - 1
    BY <1>0, <2>1, <2>2, FS_RemoveElement
  <2>4. Undropped = 0
    BY <1>7 DEF OutClear, IInv, MutexInv, Critical, Undropped
  <2>5. Undropped' = 1
    BY <1>7 DEF OutClear, Goto, IInv, TypeOK, Undropped
  <2>6. SocketUsed' = SocketUsed /\ Uncounted' = Uncounted /\ Uncounted \in {0, 1}
    BY <1>7 DEF OutClear, mainVars, Uncounted
  <2> QED BY <1>0, <2>3, <2>4, <2>5, <2>6 DEF CountInv
<1>8. ASSUME NEW t \in Thread, OutForget(t) PROVE CountInv'
  <2>1. Occupied' = Occupied
    BY <1>8 DEF OutForget, Occupied
  <2>2. Undropped = 1
    BY <1>8 DEF OutForget, Undropped
  <2>3. Undropped' = 0
    BY <1>8 DEF OutForget, Goto, IInv, TypeOK, MutexInv, Critical, Undropped
  <2>4. SocketUsed' = SocketUsed - 1 /\ Uncounted' = Uncounted /\ Uncounted \in {0, 1}
    BY <1>8 DEF OutForget, mainVars, Uncounted
  <2> QED BY <1>0, <2>1, <2>2, <2>3, <2>4 DEF CountInv
<1>9. CASE UNCHANGED vars
  BY <1>9, CountCalm DEF vars
<1> QED BY <1>1, <1>2, <1>3, <1>4, <1>5, <1>6, <1>7, <1>8, <1>9
        DEF Next, Main, ThreadStep, ThreadRuns

\* The two exceptions never take the counter below zero or above the table's size.
LEMMA CountBounds == IInv /\ CountInv => SocketUsedExact
<1> SUFFICES ASSUME IInv, CountInv PROVE SocketUsedExact
  OBVIOUS
<1> DEFINE n == Cardinality(Occupied)
<1>1. Occupied \in SUBSET Slot /\ n \in 0 .. SOCKET_MAX_NUM
  BY SlotsFinite DEF Occupied
<1>2. Uncounted \in {0, 1} /\ Undropped \in {0, 1}
  BY DEF Uncounted, Undropped
<1>3. Uncounted = 1 => n # 0
  <2>1. SUFFICES ASSUME Uncounted = 1 PROVE n # 0
    OBVIOUS
  <2>2. s_scb_nbr \in Occupied
    BY <2>1 DEF Uncounted, IInv, TypeOK, MainInv, Occupied
  <2>3. IsFiniteSet(Occupied)
    BY <1>1, SlotsFinite
  <2> QED BY <2>2, <2>3, FS_EmptySet
<1>4. Undropped = 1 /\ Uncounted = 0 => n < SOCKET_MAX_NUM
  <2>1. SUFFICES ASSUME Undropped = 1, Uncounted = 0 PROVE n < SOCKET_MAX_NUM
    OBVIOUS
  <2>2. PICK t \in Thread : tpc[t] = "forget"
    BY <2>1 DEF Undropped
  <2>3. tslot[t] \in Slot /\ tslot[t] \notin Occupied
    BY <2>1, <2>2 DEF Uncounted, IInv, TypeOK, ForgetInv, Occupied
  <2> QED BY <1>1, <2>3, FreeSlotCounts
<1> HIDE DEF n
<1>5. SocketUsed \in 0 .. SOCKET_MAX_NUM
  <2>1. SocketUsed = n - Uncounted + Undropped
    BY DEF CountInv, n
  <2> QED BY <1>1, <1>2, <1>3, <1>4, <2>1, ConnTableAssumption
<1> QED BY <1>5 DEF SocketUsedExact, CountInv, Uncounted, Undropped

\* SocketUsed counts the occupied slots and never wraps, for every number of slots
\* and threads.
THEOREM CounterExact == Spec => []SocketUsedExact
<1>1. Spec => []CountInv
  BY InitCount, NextCount, Invariance, PTL DEF Spec
<1> QED BY <1>1, CountBounds, Invariance, PTL

-----------------------------------------------------------------------------
(* The table implements the pool *)

\* what the steps that serve, release and close nothing leave as it is
LEMMA PoolCalm ==
  ASSUME UNCHANGED s_scb,
         \A t \in Thread : (Leaving(t)' <=> Leaving(t)) /\ (Leaving(t) => tfd'[t] = tfd[t])
  PROVE  UNCHANGED Pool!poolVars
<1>1. Serving' = Serving
  BY DEF Serving, Occupied
<1>2. Closing' = Closing
  BY DEF Closing
<1> QED BY <1>1, <1>2 DEF Pool!poolVars

\* An empty table is an empty pool.
LEMMA InitPool == Init => Pool!Init
<1> SUFFICES ASSUME Init PROVE Pool!Init
  OBVIOUS
<1>1. Serving = {}
  BY DEF Init, Serving, Occupied
<1>2. Closing = {}
  BY DEF Init, Closing, Leaving
<1> QED BY <1>1, <1>2 DEF Pool!Init

\* Every step of the server joins, leaves or closes one connection of the pool, or
\* does nothing that the pool can see.
LEMMA NextPool == IInv /\ [Next]_vars => [Pool!Next]_(Pool!poolVars)
<1> SUFFICES ASSUME IInv, [Next]_vars PROVE [Pool!Next]_(Pool!poolVars)
  OBVIOUS
<1>0. TypeOK
  BY DEF IInv
<1>1. ASSUME NEW fd \in Fd, AcceptConnection(fd) PROVE Pool!Join(fd)
  <2>1. /\ s_scb_nbr \in Slot /\ s_scb[s_scb_nbr] = NoFd /\ fd # NoFd
        /\ s_scb' = [s_scb EXCEPT ![s_scb_nbr] = fd]
        /\ s_scb \in [Slot -> Fd \cup {NoFd}]
        /\ fd \notin open
    BY <1>0, <1>1, ConnTableAssumption DEF AcceptConnection, TypeOK, IInv, MainInv, NoFd
  <2>2. fd \notin Serving \cup Closing
    BY <2>1, OpenExact
  <2>3. Serving' = Serving \cup {fd}
    <3>1. Occupied' = Occupied \cup {s_scb_nbr} /\ s_scb_nbr \notin Occupied
      BY <2>1 DEF Occupied
    <3>2. \A s \in Occupied : s_scb'[s] = s_scb[s]
      BY <2>1, <3>1 DEF Occupied
    <3>3. s_scb'[s_scb_nbr] = fd
      BY <2>1
    <3> QED BY <3>1, <3>2, <3>3 DEF Serving
  <2>4. Closing' = Closing
    BY <1>1 DEF AcceptConnection, threadVars, Closing, Leaving
  <2>5. Cardinality(Serving) < SOCKET_MAX_NUM
    <3> DEFINE f == [s \in Occupied |-> s_scb[s]]
    <3>1. f \in Surjection(Occupied, Serving)
      BY DEF Surjection, Serving
    <3>2. Occupied \in SUBSET Slot /\ IsFiniteSet(Occupied) /\ Cardinality(Occupied) \in Nat
      BY SlotsFinite DEF Occupied
    <3>3. IsFiniteSet(Serving) /\ Cardinality(Serving) <= Cardinality(Occupied)
      BY <3>1, <3>2, FS_Surjection
    <3>4. Cardinality(Occupied) < SOCKET_MAX_NUM
      BY <2>1, <3>2, FreeSlotCounts DEF Occupied
    <3>5. Cardinality(Serving) \in Nat
      BY <3>3, FS_CardinalityType
    <3> QED BY <3>2, <3>3, <3>4, <3>5, ConnTableAssumption
  <2>6. Pool!Cardinality(Serving) < SOCKET_MAX_NUM
    BY <2>5 DEF Pool!Cardinality, Cardinality
  <2> QED BY <2>2, <2>3, <2>4, <2>6 DEF Pool!Join
<1>2. ASSUME NEW t \in Thread, OutClear(t) PROVE Pool!Leave(tfd[t]) /\ tfd[t] \in Fd
  <2>1. /\ tslot[t] \in Slot /\ s_scb[tslot[t]] = tfd[t] /\ tfd[t] # NoFd
        /\ s_scb' = [s_scb EXCEPT ![tslot[t]] = NoFd]
        /\ s_scb \in [Slot -> Fd \cup {NoFd}]
        /\ tfd[t] \in Fd
    BY <1>0, <1>2, ConnTableAssumption
    DEF OutClear, TypeOK, IInv, SlotExclusive, Holds, NoFd
  <2>2. tfd[t] \in Serving
    BY <2>1 DEF Serving, Occupied
  <2>3. Serving' = Serving \ {tfd[t]}
    <3>1. Occupied' = Occupied \ {tslot[t]} /\ tslot[t] \in Occupied
      BY <2>1 DEF Occupied
    <3>2. \A s \in Occupied' : s_scb'[s] = s_scb[s] /\ s_scb[s] # tfd[t]
      BY <2>1, <3>1 DEF IInv, FdInv, Occupied
    <3> QED BY <2>1, <3>1, <3>2 DEF Serving
  <2>4. Closing' = Closing \cup {tfd[t]}
    <3>1. \A u \in Thread : Leaving(u)' <=> Leaving(u) \/ u = t
      BY <1>0, <1>2 DEF OutClear, Goto, TypeOK, Leaving
    <3>2. tfd' = tfd
      BY <1>2 DEF OutClear
    <3> QED BY <3>1, <3>2 DEF Closing
  <2> QED BY <2>1, <2>2, <2>3, <2>4 DEF Pool!Leave
<1>3. ASSUME NEW t \in Thread, OutClose(t) PROVE Pool!Close(tfd[t]) /\ tfd[t] \in Fd
  <2>1. Leaving(t) /\ tfd[t] \in Closing
    BY <1>3 DEF OutClose, Leaving, Closing
  <2>2. Closing' = Closing \ {tfd[t]}
    <3>1. \A u \in Thread : Leaving(u)' <=> Leaving(u) /\ u # t
      BY <1>0, <1>3 DEF OutClose, Goto, TypeOK, Leaving
    <3>2. \A u \in Thread : u # t => tfd'[u] = tfd[u]
      BY <1>0, <1>3 DEF OutClose, TypeOK
    <3>3. \A u \in Thread : Leaving(u) /\ u # t => tfd[u] # tfd[t]
      BY <2>1 DEF IInv, FdInv
    <3> QED BY <2>1, <3>1, <3>2, <3>3 DEF Closing
  <2>3. Serving' = Serving
    BY <1>3 DEF OutClose, tableVars, Serving, Occupied
  <2>4. tfd[t] \in Fd
    BY <1>0, <2>1 DEF IInv, OpenInv, TypeOK
  <2> QED BY <2>1, <2>2, <2>3, <2>4 DEF Pool!Close
<1>4. CASE AcceptFails
  <2>1. s_scb' = s_scb
    BY <1>0, <1>4 DEF AcceptFails, TypeOK, IInv, MainInv
  <2> QED BY <1>4, <2>1, PoolCalm DEF AcceptFails, threadVars, Leaving
<1>5. CASE ScanSlot \/ ScanAgain \/ ConnectIn \/ CreateThreadFails
  BY <1>5, PoolCalm
  DEF ScanSlot, ScanAgain, ConnectIn, CreateThreadFails, tableVars, threadVars, Leaving
<1>6. ASSUME NEW t \in Thread, CreateThread(t) PROVE UNCHANGED Pool!poolVars
  BY <1>0, <1>6, PoolCalm DEF CreateThread, Goto, tableVars, TypeOK, Leaving
<1>7. ASSUME NEW t \in Thread,
             ThreadSocket(t) \/ CcInit(t) \/ AppProcessReturns(t) \/ OutLock(t) \/ OutForget(t)
      PROVE  UNCHANGED Pool!poolVars
  BY <1>0, <1>7, PoolCalm
  DEF ThreadSocket, CcInit, AppProcessReturns, OutLock, OutForget, Goto, tableVars, TypeOK, Leaving
<1>8. CASE UNCHANGED vars
  BY <1>8, PoolCalm DEF vars, Leaving
<1> QED BY <1>1, <1>2, <1>3, <1>4, <1>5, <1>6, <1>7, <1>8
        DEF Next, Main, ThreadStep, ThreadRuns, Pool!Next

\* The accept loop, the table and the threads implement a pool of SOCKET_MAX_NUM
\* connections: accepting joins, clearing the slot leaves, close closes, and every
\* other step is invisible.
THEOREM Refinement == Spec => ImplementsPool
BY InitPool, NextPool, Invariance, PTL DEF Spec, ImplementsPool, Pool!Spec
=============================================================================

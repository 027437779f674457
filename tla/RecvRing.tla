------------------------------ MODULE RecvRing ------------------------------
(***************************************************************************)
(* The receive channel of a session (proc.c): a ring of PROC_BUF_LEN bytes *)
(* with a read and a write index of 16 bits that are never reduced to the  *)
(* size of the ring, only where they are used.  readSocket writes whatever *)
(* recv returned, without looking at the read index; getProc reads until   *)
(* the indices are equal or a frame is complete.  What the bytes mean is   *)
(* left to Framing, which takes the ring for a queue: here any byte may be *)
(* the one that completes a frame.                                         *)
(***************************************************************************)
EXTENDS Integers, Sequences

CONSTANTS
  PROC_BUF_LEN,         \* size of the ring
  PROC_SOCKET_BUF_LEN,  \* the most bytes one recv returns
  IndexRange,           \* number of values of an index: 2^16
  Byte                  \* the values of a byte

ASSUME RecvRingAssumption ==
  /\ PROC_BUF_LEN \in Nat \ {0}
  /\ PROC_SOCKET_BUF_LEN \in 1 .. PROC_BUF_LEN
  /\ IndexRange \in Nat
  /\ IndexRange % PROC_BUF_LEN = 0
  /\ PROC_SOCKET_BUF_LEN < IndexRange
  /\ 0 \in Byte

VARIABLES
  pc,        \* where the session is: "recv", "getProc", "dispatch"
  buf,       \* the ring
  pRead,     \* read index
  pWrite,    \* write index
  isLocked   \* is a message being handled, or was one not handled?

vars == <<pc, buf, pRead, pWrite, isLocked>>

Place == 0 .. PROC_BUF_LEN - 1
Index == 0 .. IndexRange - 1

TypeOK ==
  /\ pc \in {"recv", "getProc", "dispatch"}
  /\ buf \in [Place -> Byte]
  /\ pRead \in Index
  /\ pWrite \in Index
  /\ isLocked \in BOOLEAN

\* proc_procInit
Zeroed == [i \in Place |-> 0]

Init ==
  /\ pc = "recv"
  /\ buf = Zeroed
  /\ pRead = 0
  /\ pWrite = 0
  /\ isLocked = FALSE

\* mutant: the index is an int
Advance_Int(index, n) == index + n

\* mutant: the index starts over one value too early
Advance_Short(index, n) == (index + n) % (IndexRange - 1)

\* an index after n increments
Advance(index, n) == (index + n) % IndexRange

\* the ring after the bytes s have been written, one place each
Written(s) ==
  [i \in Place |->
     IF \E k \in 1 .. Len(s) : Advance(pWrite, k - 1) % PROC_BUF_LEN = i
       THEN s[CHOOSE k \in 1 .. Len(s) : Advance(pWrite, k - 1) % PROC_BUF_LEN = i]
       ELSE buf[i]]

\* recv returns s: every byte is written, whether there is room or not
ReadSocket(s) ==
  /\ pc = "recv"
  /\ buf' = Written(s)
  /\ pWrite' = Advance(pWrite, Len(s))
  /\ pc' = "getProc"
  /\ UNCHANGED <<pRead, isLocked>>

\* getProc consumes a byte; it may be the last one of a frame
TakeByte ==
  /\ pc = "getProc"
  /\ ~isLocked
  /\ pRead # pWrite
  /\ pRead' = Advance(pRead, 1)
  /\ \/ UNCHANGED <<pc, isLocked>>
     \/ pc' = "dispatch" /\ isLocked' = TRUE
  /\ UNCHANGED <<buf, pWrite>>

\* mutant: the loop runs while the read index is below the write index
NotFound_Below ==
  /\ pc = "getProc"
  /\ isLocked \/ pRead >= pWrite
  /\ pc' = "recv"
  /\ UNCHANGED <<buf, pRead, pWrite, isLocked>>

\* getProc returns 0
NotFound ==
  /\ pc = "getProc"
  /\ isLocked \/ pRead = pWrite
  /\ pc' = "recv"
  /\ UNCHANGED <<buf, pRead, pWrite, isLocked>>

\* app_process: a handler is found and the channel unlocked, or none is found
Dispatch ==
  /\ pc = "dispatch"
  /\ isLocked' \in BOOLEAN
  /\ pc' = "getProc"
  /\ UNCHANGED <<buf, pRead, pWrite>>

\* recv fails; the next session of the slot starts with a fresh channel
EndSession ==
  /\ pc = "recv"
  /\ buf' = Zeroed
  /\ pRead' = 0
  /\ pWrite' = 0
  /\ isLocked' = FALSE
  /\ UNCHANGED pc

Next ==
  \/ \E n \in 1 .. PROC_SOCKET_BUF_LEN : \E s \in [1 .. n -> Byte] : ReadSocket(s)
  \/ TakeByte
  \/ NotFound
  \/ Dispatch
  \/ EndSession

Spec == Init /\ [][Next]_vars

-----------------------------------------------------------------------------
(* Properties *)

\* a message without a handler has left the channel locked: nothing is read again
Deaf == isLocked /\ pc # "dispatch"

Held   == (pWrite - pRead) % IndexRange
Unread == [k \in 1 .. Held |-> buf[Advance(pRead, k - 1) % PROC_BUF_LEN]]

\* The ring is empty whenever the session calls recv, and so never holds more than one
\* recv returns, although neither index is compared with the room there is: getProc is
\* called again after every message that was handled, before the next recv.
DrainedBeforeRecv ==
  ~Deaf => /\ pc = "recv" => Held = 0
           /\ Held <= PROC_SOCKET_BUF_LEN

Queue == INSTANCE ByteQueue WITH
           ChunkMax  <- PROC_SOCKET_BUF_LEN,
           queue     <- IF Deaf THEN <<>> ELSE Unread,
           abandoned <- Deaf

\* The ring is a queue: every byte comes out once, unchanged and in order, also where
\* the indices pass 2^16 and where a recv reaches over the end of the ring (proc.c: the
\* ring buffer of recvChannelfTypedef), unless the channel is left locked.
ImplementsQueue == Queue!Spec
=============================================================================

------------------------------ MODULE Framing ------------------------------
(***************************************************************************)
(* How a session finds the frames in the bytes of its client (proc.c, and  *)
(* the inner loop of app_process in app.c).                                *)
(*                                                                         *)
(*   HEAD_1 HEAD_2 len_l len_h ctrl data ... sum                           *)
(*                                                                         *)
(* TCP delivers what the client sends in order, but cuts it anywhere: one  *)
(* recv may return part of a frame or several.  After every recv the       *)
(* session calls getProc, a state machine that consumes one byte at a      *)
(* time, until it returns 0; when it returns 1 the channel is locked, the  *)
(* message is dispatched on its control byte, and the channel unlocked.    *)
(*                                                                         *)
(* The ring of received bytes is the sequence input here: getProc drains   *)
(* it before every recv, unless the channel is locked.  wire and expected  *)
(* are not in the program: what the client has sent and TCP has not        *)
(* delivered, and the intact messages not dispatched so far.               *)
(***************************************************************************)
EXTENDS Integers, SequencesExt

CONSTANTS
  PROC_CONTENT_LEN,  \* size of contentBuf
  HEAD_1, HEAD_2,    \* the two bytes a frame starts with
  Known,             \* the control bytes that procScript has an entry for
  Message,           \* the messages (control byte and data) clients send in frames
  Junk,              \* what else clients send: damaged frames, stray bytes
  ChunkMax,          \* the most bytes one recv returns
  WireMax,           \* bound: the client sends on when no more bytes are unconsumed
  ExpectedMax        \* bound: and no more messages are undispatched

Byte == 0 .. 255
Word == 0 .. 65535

ASSUME FramingAssumption ==
  /\ PROC_CONTENT_LEN \in 1 .. 65535
  /\ HEAD_1 \in Byte /\ HEAD_2 \in Byte /\ HEAD_1 # HEAD_2
  /\ Known \subseteq Byte
  /\ \A m \in Message : m \in Seq(Byte) /\ Len(m) \in 1 .. PROC_CONTENT_LEN
  /\ \A j \in Junk : j \in Seq(Byte)
  /\ ChunkMax \in Nat \ {0}
  /\ WireMax \in Nat /\ ExpectedMax \in Nat

VARIABLES
  pc,                 \* where the session is: "recv", "getProc", "dispatch", "faulted"
  input,              \* received and not yet consumed
  procState,          \* the state of getProc's state machine
  proclen,            \* the length read from the header
  contentBuf,         \* the content of the frame
  pWrite_contentBuf,  \* how much of it has been read
  isLocked,           \* is a message being handled?
  sum,                \* getProc's local variable of that name
  wire,               \* sent and not yet received
  expected            \* intact messages sent and not yet dispatched

parserVars == <<procState, proclen, contentBuf, pWrite_contentBuf, isLocked, sum>>
vars       == <<pc, input, procState, proclen, contentBuf, pWrite_contentBuf,
                isLocked, sum, wire, expected>>

ProcState == {"PROC_FIND_1ST_HEAD", "PROC_FIND_2ND_HEAD", "PROC_GET_LEN_L",
              "PROC_GET_LEN_H", "PROC_GET_DATA", "PROC_CHECK_SUM"}

TypeOK ==
  /\ pc \in {"recv", "getProc", "dispatch", "faulted"}
  /\ input \in Seq(Byte)
  /\ procState \in ProcState
  /\ proclen \in Word
  /\ contentBuf \in [0 .. PROC_CONTENT_LEN - 1 -> Byte]
  /\ pWrite_contentBuf \in Word
  /\ isLocked \in BOOLEAN
  /\ sum \in Byte
  /\ wire \in Seq(Byte)
  /\ expected \in Seq(Message)

\* what memset leaves in contentBuf
Zeroed == [i \in 0 .. PROC_CONTENT_LEN - 1 |-> 0]

\* proc_procInit, on a new connection
Init ==
  /\ procState = "PROC_FIND_1ST_HEAD"
  /\ proclen = 0
  /\ contentBuf = Zeroed
  /\ pWrite_contentBuf = 0
  /\ isLocked = FALSE
  /\ sum = 0
  /\ pc = "recv"
  /\ input = <<>>
  /\ wire = <<>>
  /\ expected = <<>>

-----------------------------------------------------------------------------
(* The client *)

SumOf(bytes) == FoldLeft(LAMBDA x, y : (x + y) % 256, 0, bytes)

\* a well-formed frame, as makeAproc builds them too
FrameOf(m) ==
  <<HEAD_1, HEAD_2, Len(m) % 256, Len(m) \div 256>> \o m \o <<SumOf(m)>>

InFlight == Len(wire) + Len(input)

SendMessage(m) ==
  /\ InFlight <= WireMax /\ Len(expected) < ExpectedMax
  /\ wire' = wire \o FrameOf(m)
  /\ expected' = Append(expected, m)
  /\ UNCHANGED <<pc, input, parserVars>>

SendJunk(j) ==
  /\ InFlight <= WireMax
  /\ wire' = wire \o j
  /\ UNCHANGED <<pc, input, parserVars, expected>>

\* Junk that ends where getProc looks for a head again: bytes that are no head, a first
\* byte without the second, a length that does not fit, and a frame of length 0, with the
\* two bytes getProc takes for its data and its sum.
HasHead(j)   == j[1] = HEAD_1 /\ j[2] = HEAD_2
Claimed(j)   == j[3] + 256 * j[4]
Noise(j)     == \A i \in 1 .. Len(j) : j[i] # HEAD_1
LoneHead(j)  == Len(j) = 2 /\ j[1] = HEAD_1 /\ j[2] # HEAD_2
TooLong(j)   == Len(j) = 4 /\ HasHead(j) /\ Claimed(j) > PROC_CONTENT_LEN
Empty(j)     == Len(j) = 6 /\ HasHead(j) /\ Claimed(j) = 0
Stray(j)     == Noise(j) \/ LoneHead(j) \/ TooLong(j) \/ Empty(j)

\* a frame whose last byte is not its sum
BadSum(j) ==
  /\ Len(j) > 5 /\ HasHead(j) /\ Claimed(j) = Len(j) - 5
  /\ Claimed(j) <= PROC_CONTENT_LEN
  /\ j[Len(j)] # SumOf(SubSeq(j, 5, Len(j) - 1))

-----------------------------------------------------------------------------
(* readSocket *)

\* recv returns n bytes; the first call of getProc follows.  While the channel stays
\* locked nothing is consumed: the bytes only overwrite the ring
ReadSocket(n) ==
  /\ pc = "recv"
  /\ n <= Len(wire)
  /\ input' = IF isLocked THEN input ELSE input \o SubSeq(wire, 1, n)
  /\ wire' = SubSeq(wire, n + 1, Len(wire))
  /\ pc' = "getProc"
  /\ sum' = 0
  /\ UNCHANGED <<procState, proclen, contentBuf, pWrite_contentBuf, isLocked, expected>>

\* recv returns 0 or an error: the session ends, the slot gets a new one
EndSession ==
  /\ pc = "recv"
  /\ procState' = "PROC_FIND_1ST_HEAD"
  /\ contentBuf' = Zeroed
  /\ proclen' = 0 /\ pWrite_contentBuf' = 0 /\ isLocked' = FALSE /\ sum' = 0
  /\ input' = <<>> /\ wire' = <<>> /\ expected' = <<>>
  /\ UNCHANGED pc

-----------------------------------------------------------------------------
(* getProc: one byte at a time *)

\* consume a byte in state st
Consume(st) ==
  /\ pc = "getProc"
  /\ ~isLocked
  /\ procState = st
  /\ input # <<>>
  /\ input' = Tail(input)
  /\ UNCHANGED <<wire, expected>>

Find1stHead ==
  /\ Consume("PROC_FIND_1ST_HEAD")
  /\ procState' = IF Head(input) = HEAD_1 THEN "PROC_FIND_2ND_HEAD" ELSE procState
  /\ UNCHANGED <<pc, proclen, contentBuf, pWrite_contentBuf, isLocked, sum>>

Find2ndHead ==
  /\ Consume("PROC_FIND_2ND_HEAD")
  /\ IF Head(input) = HEAD_2
       THEN procState' = "PROC_GET_LEN_L" /\ proclen' = 0
       ELSE procState' = "PROC_FIND_1ST_HEAD" /\ UNCHANGED proclen
  /\ UNCHANGED <<pc, contentBuf, pWrite_contentBuf, isLocked, sum>>

GetLenL ==
  /\ Consume("PROC_GET_LEN_L")
  /\ proclen' = Head(input) + 256 * (proclen \div 256)
  /\ procState' = "PROC_GET_LEN_H"
  /\ UNCHANGED <<pc, contentBuf, pWrite_contentBuf, isLocked, sum>>

\* mutant: one byte more than fits is let through
GetLenH_OffByOne ==
  /\ Consume("PROC_GET_LEN_H")
  /\ proclen' = (proclen % 256) + 256 * Head(input)
  /\ IF proclen' > PROC_CONTENT_LEN + 1
       THEN procState' = "PROC_FIND_1ST_HEAD" /\ UNCHANGED pWrite_contentBuf
       ELSE procState' = "PROC_GET_DATA" /\ pWrite_contentBuf' = 0
  /\ UNCHANGED <<pc, contentBuf, isLocked, sum>>

\* mutant: the high byte of the length is skipped
GetLenH_Skipped ==
  /\ Consume("PROC_GET_LEN_H")
  /\ procState' = "PROC_GET_DATA"
  /\ pWrite_contentBuf' = 0
  /\ UNCHANGED <<pc, proclen, contentBuf, isLocked, sum>>

GetLenH ==
  /\ Consume("PROC_GET_LEN_H")
  /\ proclen' = (proclen % 256) + 256 * Head(input)
  /\ IF proclen' > PROC_CONTENT_LEN
       THEN procState' = "PROC_FIND_1ST_HEAD" /\ UNCHANGED pWrite_contentBuf
       ELSE procState' = "PROC_GET_DATA" /\ pWrite_contentBuf' = 0
  /\ UNCHANGED <<pc, contentBuf, isLocked, sum>>

\* a byte is consumed even if the length is 0
GetData ==
  /\ Consume("PROC_GET_DATA")
  /\ contentBuf' = IF pWrite_contentBuf < proclen
                     THEN [contentBuf EXCEPT ![pWrite_contentBuf % PROC_CONTENT_LEN] = Head(input)]
                     ELSE contentBuf
  /\ pWrite_contentBuf' = (pWrite_contentBuf + 1) % 65536
  /\ procState' = IF pWrite_contentBuf' >= proclen THEN "PROC_CHECK_SUM" ELSE procState
  /\ UNCHANGED <<pc, proclen, isLocked, sum>>

Content == [i \in 1 .. proclen |-> contentBuf[i - 1]]

\* mutant: the sum is kept in a variable wider than a byte
CheckSum_Wide ==
  /\ Consume("PROC_CHECK_SUM")
  /\ sum' = sum + FoldLeft(LAMBDA x, y : x + y, 0, Content)
  /\ IF sum' % 256 = Head(input)
       THEN isLocked' = TRUE /\ pc' = "dispatch"
       ELSE UNCHANGED <<isLocked, pc>>
  /\ procState' = "PROC_FIND_1ST_HEAD"
  /\ UNCHANGED <<proclen, contentBuf, pWrite_contentBuf>>

\* the sum of the content is added to what sum already holds
CheckSum ==
  /\ Consume("PROC_CHECK_SUM")
  /\ sum' = (sum + SumOf(Content)) % 256
  /\ IF sum' = Head(input)
       THEN isLocked' = TRUE /\ pc' = "dispatch"
       ELSE UNCHANGED <<isLocked, pc>>
  /\ procState' = "PROC_FIND_1ST_HEAD"
  /\ UNCHANGED <<proclen, contentBuf, pWrite_contentBuf>>

\* mutant: the state machine starts over with every recv
NotFound_StartsOver ==
  /\ pc = "getProc"
  /\ isLocked \/ input = <<>>
  /\ pc' = "recv"
  /\ procState' = "PROC_FIND_1ST_HEAD"
  /\ UNCHANGED <<input, proclen, contentBuf, pWrite_contentBuf, isLocked, sum, wire, expected>>

\* getProc returns 0: nothing is left, or the channel is locked
NotFound ==
  /\ pc = "getProc"
  /\ isLocked \/ input = <<>>
  /\ pc' = "recv"
  /\ UNCHANGED <<input, parserVars, wire, expected>>

-----------------------------------------------------------------------------
(* app_process: dispatch on the control byte *)

\* the message dispatched is the next one, unless the frame was empty
Served == IF proclen = 0 \/ expected = <<>> THEN expected ELSE Tail(expected)

\* mutant: the channel is not unlocked after the handler
Handle_StaysLocked ==
  /\ pc = "dispatch"
  /\ contentBuf[0] \in Known
  /\ contentBuf' = [i \in DOMAIN contentBuf |-> IF i < 4 THEN 0 ELSE contentBuf[i]]
  /\ pc' = "getProc"
  /\ sum' = 0
  /\ expected' = Served
  /\ UNCHANGED <<isLocked, input, procState, proclen, pWrite_contentBuf, wire>>

\* mutant: the content is not zeroed after the handler
Handle_KeepsContent ==
  /\ pc = "dispatch"
  /\ contentBuf[0] \in Known
  /\ isLocked' = FALSE
  /\ pc' = "getProc"
  /\ sum' = 0
  /\ expected' = Served
  /\ UNCHANGED <<contentBuf, input, procState, proclen, pWrite_contentBuf, wire>>

\* the handler runs; the post-processing zeroes sizeof(PROC_CONTENT_LEN), that is
\* four, bytes and unlocks; getProc is called again
Handle ==
  /\ pc = "dispatch"
  /\ contentBuf[0] \in Known
  /\ contentBuf' = [i \in DOMAIN contentBuf |-> IF i < 4 THEN 0 ELSE contentBuf[i]]
  /\ isLocked' = FALSE
  /\ pc' = "getProc"
  /\ sum' = 0
  /\ expected' = Served
  /\ UNCHANGED <<input, procState, proclen, pWrite_contentBuf, wire>>

\* no entry matches, and the loop runs on behind the end of procScript: it may find
\* nothing there, or call what it finds and return, or crash
Unmatched ==
  /\ pc = "dispatch"
  /\ contentBuf[0] \notin Known
  /\ expected' = Served
  /\ sum' = 0
  /\ \/ pc' = "getProc" /\ UNCHANGED <<contentBuf, isLocked>>
     \/ /\ pc' = "getProc"
        /\ isLocked' = FALSE
        /\ contentBuf' = [i \in DOMAIN contentBuf |-> IF i < 4 THEN 0 ELSE contentBuf[i]]
     \/ pc' = "faulted" /\ UNCHANGED <<contentBuf, isLocked>>
  /\ UNCHANGED <<input, procState, proclen, pWrite_contentBuf, wire>>

Session ==
  \/ Find1stHead
  \/ Find2ndHead
  \/ GetLenL
  \/ GetLenH
  \/ GetData
  \/ CheckSum
  \/ NotFound
  \/ Handle
  \/ Unmatched

Next ==
  \/ \E m \in Message : pc # "faulted" /\ SendMessage(m)
  \/ \E j \in Junk : pc # "faulted" /\ SendJunk(j)
  \/ \E n \in 1 .. ChunkMax : ReadSocket(n)
  \/ EndSession
  \/ Session

\* the session's thread runs on, and TCP delivers what has been sent
Fairness == WF_vars(Session) /\ WF_vars(\E n \in 1 .. ChunkMax : ReadSocket(n))

Spec     == Init /\ [][Next]_vars
FairSpec == Spec /\ Fairness

-----------------------------------------------------------------------------
(* Properties *)

\* Nothing is written or read behind contentBuf, whatever length a header claims:
\* the index of the next byte, and the number of bytes a handler looks at.
ContentInBounds ==
  /\ pWrite_contentBuf <= PROC_CONTENT_LEN
  /\ procState = "PROC_GET_DATA" =>
       pWrite_contentBuf < PROC_CONTENT_LEN /\ proclen <= PROC_CONTENT_LEN
  /\ procState = "PROC_CHECK_SUM" => proclen <= PROC_CONTENT_LEN

\* What is dispatched is what was sent: the next intact message, whole, with the
\* length the handlers compare pWrite_contentBuf with; never a mixture of two frames
\* and never one twice, however TCP cuts the stream.
DispatchedAsSent ==
  pc = "dispatch" /\ proclen # 0 =>
    /\ expected # <<>>
    /\ Content = Head(expected)
    /\ pWrite_contentBuf = Len(Head(expected))

\* A frame of length 0, of which getProc takes a byte as data all the same, is
\* dispatched on whatever contentBuf still holds; as long as no frame was damaged that
\* is the control byte of deal_dev_online, with a length its check does not let through:
\* no handler acts on a message that nobody sent.
EmptyFrameInert ==
  pc = "dispatch" /\ proclen = 0 => contentBuf[0] = 0 /\ pWrite_contentBuf = 1

\* Every intact message is found: when everything sent has been received and
\* consumed, none is missing (proc.c: getProc returns 1 when it has found one).
NoneMissed ==
  pc = "recv" /\ wire = <<>> /\ input = <<>> => expected = <<>>

\* A message that was sent leads to a dispatch, unless its session ends or the process
\* is gone: the channel never stays locked for ever.
MessageDispatched ==
  (expected # <<>>) ~> (pc \in {"dispatch", "faulted"} \/ expected = <<>>)
=============================================================================

----------------------------- MODULE ByteQueue -----------------------------
(***************************************************************************)
(* What the receive channel of a session promises, with no ring and no     *)
(* indices: the bytes of the client come out once each, in the order in    *)
(* which they were received, unless the channel is abandoned for good.     *)
(***************************************************************************)
EXTENDS Naturals, Sequences

CONSTANTS Byte, ChunkMax

VARIABLES queue, abandoned

queueVars == <<queue, abandoned>>

Init == queue = <<>> /\ abandoned = FALSE

\* what one recv returns; the session asks for more when it has consumed everything
Receive(s) ==
  /\ ~abandoned
  /\ queue = <<>>
  /\ queue' = s
  /\ UNCHANGED abandoned

Consume ==
  /\ queue # <<>>
  /\ queue' = Tail(queue)
  /\ UNCHANGED abandoned

Abandon ==
  /\ queue' = <<>>
  /\ abandoned' = TRUE

Renew == queue' = <<>> /\ abandoned' = FALSE

Next ==
  \/ \E n \in 1 .. ChunkMax : \E s \in [1 .. n -> Byte] : Receive(s)
  \/ Consume
  \/ Abandon
  \/ Renew

Spec == Init /\ [][Next]_queueVars
=============================================================================

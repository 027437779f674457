----------------------------- MODULE MCFraming -----------------------------
(* Small instances of Framing: messages of one to three bytes, some of which
   look like the head of a frame. *)
EXTENDS Framing

H1 == 165
H2 == 90

\* procScript: the control bytes of procScript
Script == {0, 1, 2, 3, 4, 20}

Messages == {<<1>>, <<4, H1, H2>>}
\* one more whose control byte nobody knows
WithUnknown == {<<20, H1>>, <<5, H1, H2>>}

\* a header that claims more than contentBuf holds, a frame of length 0 whose checksum
\* is 0, and stray bytes
Strays == {<<H1, H2, 4, 0>>, <<H1, H2, 1, 1>>, <<H1, H2, 0, 0, 9, 0>>, <<0, 0>>, <<H1, 7>>}
\* a frame whose checksum is wrong
Damaged == {<<H1, H2, 2, 0, 4, 9, 14>>}
StraysAndDamaged == Strays \cup Damaged
Nothing == {}

\* what the theorems about the parser assume of the bytes that are no messages, and of
\* the control bytes
ASSUME JunkIsTolerable ==
  /\ \A j \in Strays : Stray(j)
  /\ \A j \in Damaged : BadSum(j)
  /\ 0 \in Script /\ \A m \in Messages : m[1] \in Script
  /\ \A j \in Damaged : j[5] \in Script
=============================================================================

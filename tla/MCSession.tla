----------------------------- MODULE MCSession -----------------------------
(* Session with the program's packages of 20 records. *)
EXTENDS Session

\* no record, one package, exactly one, exactly three, and enough packages to lose
\* several of one transfer
SomeCounts == {0, 1, 20, 21, 60, 101, 221}
=============================================================================
